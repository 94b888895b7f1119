---------------------------- MODULE SessionProofs ----------------------------
(***************************************************************************)
(* The safety of the session, for any accounts and any failure limit.      *)
(*                                                                         *)
(* Typing comes first.  The safety invariants are then proved together,    *)
(* because they rest on one another: a timer finds only an expired session *)
(* (OnlyExpiredIsEnded) because nothing leaves AUTH_EXPIRED without        *)
(* lowering the flag, which is so because startTrackingIfNeeded refuses an *)
(* expired session; and an expiry stays pending (ExpiryIsPending) because  *)
(* a refresh that ends lowers the flag or arms the timer.                  *)
(***************************************************************************)
EXTENDS Session, TLAPS

\* What every step preserves, given the types.
Safe ==
    /\ ExpiredIsStopped
    /\ OnlyExpiredIsEnded
    /\ TrackingIsShown
    /\ TrackingHasHub
    /\ BackendIsSpared
    /\ ExpiryIsPending

-----------------------------------------------------------------------------
(* Types *)

\* startTrackingIfNeeded, with any state and token, leaves its variables typed.
LEMMA StartTypes ==
    ASSUME TypeOK, NEW state \in States, NEW tok \in Tokens, NEW enabled \in BOOLEAN,
           Start(state, tok, enabled)
    PROVE  /\ auth' \in States /\ tracking' \in BOOLEAN
           /\ menu' \in BOOLEAN /\ hub' \in Users \cup {NoUser}
BY SMT DEF TypeOK, Start, ConnectHub, Refused, States, Tokens, NoToken

\* A purge, whoever calls it, leaves its variables typed.
LEMMA PurgeTypes ==
    ASSUME Purge
    PROVE  /\ token' \in Tokens /\ tracking' \in BOOLEAN /\ menu' \in BOOLEAN
           /\ hub' \in Users \cup {NoUser} /\ cookie' \in Users \cup {NoUser}
           /\ profile' \in Users \cup {NoUser} /\ handled' \in BOOLEAN
BY DEF Purge, ClearToken, Tokens, NoToken

\* Joining a refresh, or sending one with a cookie, leaves a refresh.
LEMMA JoinTypes ==
    ASSUME TypeOK, ~CannotRefresh, NEW waiter \in Waiters, Join(waiter)
    PROVE  refresh' \in Refreshes
BY DEF TypeOK, CannotRefresh, HasRefreshCookie, Refreshing, Join, NoRefresh, Refreshes

\* Counting failures up to the limit stays within it.
LEMMA CountTypes ==
    ASSUME TypeOK, NEW n \in Nat, CountFailures(n)
    PROVE  failures' \in 0 .. MaxFailures /\ throttled' \in BOOLEAN
BY SessionAssumption, SMT DEF TypeOK, CountFailures

\* The failure count may be zero.
LEMMA ZeroFailures == 0 \in 0 .. MaxFailures
BY SessionAssumption, SMT

\* What a login, a refresh or a link brings is a token.
LEMMA UsableIsToken == \A u \in Users : [user |-> u, usable |-> TRUE] \in Tokens
BY DEF Tokens

\* What the user, the renderer or the system asks for keeps the types.
LEMMA RequestTypes ==
    ASSUME TypeOK, Request
    PROVE  TypeOK'
<1> USE SessionAssumption DEF requests, backend, choices
<1>1. CASE Logout
  BY <1>1, PurgeTypes DEF Logout, TypeOK
<1>2. ASSUME NEW u \in Users, Login(u) PROVE TypeOK'
  BY <1>2 DEF Login, TypeOK
<1>3. ASSUME NEW u \in Users, ProtocolAuth(u) PROVE TypeOK'
  <2>1. Start("AUTH_OK", [user |-> u, usable |-> TRUE], consent)
    BY <1>3 DEF ProtocolAuth
  <2>2. "AUTH_OK" \in States /\ consent \in BOOLEAN
    BY DEF States, TypeOK
  <2> QED  BY <1>3, <2>1, <2>2, StartTypes, UsableIsToken DEF ProtocolAuth, SaveToken, TypeOK
<1>4. ASSUME NEW tok \in [user : Users, usable : BOOLEAN], StartTracking(tok) PROVE TypeOK'
  <2>1. tok \in Tokens /\ consent \in BOOLEAN /\ auth \in States
    BY DEF Tokens, TypeOK
  <2>2. CASE tok.usable
    <3>1. Start(auth, tok, consent)
      BY <1>4, <2>2 DEF StartTracking
    <3>2. auth' \in States /\ tracking' \in BOOLEAN /\ menu' \in BOOLEAN /\ hub' \in Users \cup {NoUser}
      BY <2>1, <3>1, StartTypes
    <3>3. token' = tok
      BY <1>4, <2>2 DEF StartTracking, SaveToken
    <3> QED  BY <1>4, <2>1, <2>2, <3>2, <3>3 DEF StartTracking, TypeOK
  <2>3. CASE ~tok.usable
    BY <1>4, <2>3 DEF StartTracking, ClearToken, Tokens, TypeOK
  <2> QED  BY <2>2, <2>3
<1>5. ASSUME NEW tok \in [user : Users, usable : BOOLEAN], AgentTokenRefreshed(tok) PROVE TypeOK'
  <2>1. tok \in Tokens /\ consent \in BOOLEAN /\ auth \in States
    BY DEF Tokens, TypeOK
  <2>2. Start(auth, tok, consent)
    BY <1>5 DEF AgentTokenRefreshed
  <2>3. auth' \in States /\ tracking' \in BOOLEAN /\ menu' \in BOOLEAN /\ hub' \in Users \cup {NoUser}
    BY <2>1, <2>2, StartTypes
  <2>4. token' = tok
    BY <1>5 DEF AgentTokenRefreshed, SaveToken
  <2> QED  BY <1>5, <2>1, <2>3, <2>4 DEF AgentTokenRefreshed, TypeOK
<1>6. CASE RestoreToken
  BY <1>6 DEF RestoreToken, ClearToken, Tokens, TypeOK
<1>7. CASE RefreshToken
  <2>1. refresh' \in Refreshes \cup {NoRefresh}
    BY <1>7, JoinTypes DEF RefreshToken, Waiters, TypeOK
  <2> QED  BY <1>7, <2>1 DEF RefreshToken, TypeOK
<1>8. CASE AgentRefreshFailed
  BY <1>8, PurgeTypes DEF AgentRefreshFailed, FinishSessionExpired, States, TypeOK
<1>9. ASSUME NEW enabled \in BOOLEAN, SetPrivacy(enabled) PROVE TypeOK'
  <2>1. token \in Tokens /\ auth \in States
    BY DEF TypeOK
  <2> QED  BY <1>9, <2>1, StartTypes DEF SetPrivacy, TypeOK
<1>10. CASE SetInterval
  BY <1>10 DEF SetInterval, TypeOK
<1>11. CASE TrayClick
  <2>1. token \in Tokens /\ auth \in States /\ consent \in BOOLEAN
    BY DEF TypeOK
  <2> QED  BY <1>11, <2>1, StartTypes DEF TrayClick, StopTracking, TypeOK
<1> QED
  BY <1>1, <1>2, <1>3, <1>4, <1>5, <1>6, <1>7, <1>8, <1>9, <1>10, <1>11 DEF Request

\* An answer to a refresh keeps the types.
LEMMA AnswerTypes ==
    ASSUME TypeOK, RefreshAnswered
    PROVE  TypeOK'
<1> USE SessionAssumption DEF requests, backend, choices
<1>1. Refreshing => refresh.user \in Users /\ refresh.for \in SUBSET Waiters
  BY DEF Refreshing, TypeOK, NoRefresh, Refreshes
<1>2. CASE RefreshSucceeds
  <2> DEFINE tok == [user |-> refresh.user, usable |-> TRUE]
  <2>1. Refreshing
    BY <1>2 DEF RefreshSucceeds
  <2>2. tok \in Tokens /\ auth \in States /\ consent \in BOOLEAN
    BY <1>1, <2>1, UsableIsToken DEF TypeOK
  <2>3. auth' \in States /\ tracking' \in BOOLEAN /\ menu' \in BOOLEAN /\ hub' \in Users \cup {NoUser}
    BY <1>2, <2>2, StartTypes DEF RefreshSucceeds, States, TypeOK
  <2>4. token' = tok /\ profile' = refresh.user /\ cookie' \in {cookie, refresh.user}
    BY <1>2 DEF RefreshSucceeds, SaveToken
  <2>5. uploads' \subseteq Users
    BY <1>1, <1>2, <2>1 DEF RefreshSucceeds, TypeOK
  <2>6. failures' \in 0 .. MaxFailures /\ throttled' \in BOOLEAN
    BY <1>2, ZeroFailures DEF RefreshSucceeds
  <2> QED
    BY <1>1, <1>2, <2>1, <2>2, <2>3, <2>4, <2>5, <2>6 DEF RefreshSucceeds, TypeOK
<1>3. ASSUME NEW outcome \in {"refused", "down", "unreachable"}, RefreshFails(outcome)
      PROVE  TypeOK'
  <2>1. failures' \in 0 .. MaxFailures /\ throttled' \in BOOLEAN
    <3> DEFINE n == (IF outcome = "refused" THEN 0 ELSE 1)
                    + (IF "startup" \in refresh.for /\ outcome = "down" THEN 1 ELSE 0)
    <3>1. n \in Nat
      OBVIOUS
    <3>2. CountFailures(n)
      BY <1>3 DEF RefreshFails
    <3> HIDE DEF n
    <3> QED  BY <3>1, <3>2, CountTypes
  <2>2. expiries' \in Nat
    BY <1>3 DEF RefreshFails, Armed, TypeOK
  <2>3. /\ token' \in Tokens /\ tracking' \in BOOLEAN /\ menu' \in BOOLEAN
        /\ hub' \in Users \cup {NoUser} /\ cookie' \in Users \cup {NoUser}
        /\ profile' \in Users \cup {NoUser} /\ handled' \in BOOLEAN /\ auth' \in States
    BY <1>3, PurgeTypes DEF RefreshFails, FinishSessionExpired, States, TypeOK
  <2>4. refused' \in BOOLEAN
    BY <1>3 DEF RefreshFails, TypeOK
  <2> QED  BY <1>3, <2>1, <2>2, <2>3, <2>4 DEF RefreshFails, TypeOK
<1> QED  BY <1>2, <1>3 DEF RefreshAnswered

\* Every other event keeps the types.
LEMMA EventTypes ==
    ASSUME TypeOK, Event
    PROVE  TypeOK'
<1> USE SessionAssumption DEF requests, backend, choices
<1>1. CASE LoginSucceeds
  <2>1. login \in Users
    BY <1>1 DEF LoginSucceeds, TypeOK
  <2>2. [user |-> login, usable |-> TRUE] \in Tokens /\ auth \in States /\ consent \in BOOLEAN
    BY <2>1, UsableIsToken DEF TypeOK
  <2> QED  BY <1>1, <2>1, <2>2, StartTypes DEF LoginSucceeds, SaveToken, TypeOK
<1>2. CASE LoginFails
  BY <1>2 DEF LoginFails, TypeOK
<1>3. CASE RefreshAnswered
  BY <1>3, AnswerTypes
<1>4. CASE ThrottleEnds
  BY <1>4 DEF ThrottleEnds, TypeOK
<1>5. CASE TokenExpires
  <2>1. token \in [user : Users, usable : BOOLEAN]
    BY <1>5 DEF TokenExpires, Tokens, NoToken, TypeOK
  <2>2. token' \in Tokens
    BY <1>5, <2>1 DEF TokenExpires, Tokens
  <2> QED  BY <1>5, <2>2 DEF TokenExpires, TypeOK
<1>6. CASE UploadStarts
  <2>1. token.user \in Users
    BY <1>6 DEF UploadStarts, Tokens, NoToken, TypeOK
  <2> QED  BY <1>6, <2>1 DEF UploadStarts, TypeOK
<1>7. ASSUME NEW u \in Users, UploadEnds(u) PROVE TypeOK'
  BY <1>7 DEF UploadEnds, TypeOK
<1>8. ASSUME NEW u \in Users, UploadUnauthorized(u) PROVE TypeOK'
  <2>1. refresh' \in Refreshes \cup {NoRefresh}
    BY <1>8, JoinTypes DEF UploadUnauthorized, Expire, Waiters, TypeOK
  <2>2. expiries' \in Nat
    BY <1>8 DEF UploadUnauthorized, Expire, TypeOK
  <2>3. auth' \in States
    BY <1>8 DEF UploadUnauthorized, Expire, States, TypeOK
  <2>4. handled' \in BOOLEAN /\ tracking' \in BOOLEAN
    BY <1>8, Zenon DEF UploadUnauthorized, Expire, StopTracking, TypeOK
  <2> QED  BY <1>8, <2>1, <2>2, <2>3, <2>4 DEF UploadUnauthorized, TypeOK
<1>9. CASE ExpiryTimerFires
  <2>1. expiries' \in Nat
    BY <1>9 DEF ExpiryTimerFires, TypeOK
  <2> QED  BY <1>9, <2>1, PurgeTypes DEF ExpiryTimerFires, FinishSessionExpired, States, TypeOK
<1>10. CASE Leave
  BY <1>10 DEF Leave, StopTracking, TypeOK
<1>11. CASE Return
  <2>1. token \in Tokens /\ auth \in States /\ consent \in BOOLEAN
    BY DEF TypeOK
  <2> QED  BY <1>11, <2>1, StartTypes DEF Return, TypeOK
<1>12. CASE TickStops
  BY <1>12 DEF TickStops, StopTracking, TypeOK
<1> QED
  BY <1>1, <1>2, <1>3, <1>4, <1>5, <1>6, <1>7, <1>8, <1>9, <1>10, <1>11, <1>12 DEF Event

\* A start of the process keeps the types.
LEMMA RestartTypes ==
    ASSUME TypeOK, RestartSignedIn \/ RestartWithCookie \/ RestartSignedOut
    PROVE  TypeOK'
<1> USE SessionAssumption DEF Boot
<1>1. CASE RestartSignedIn
  <2>1. token.user \in Users
    BY <1>1 DEF RestartSignedIn, Tokens, NoToken, TypeOK
  <2> QED  BY <1>1, <2>1, ZeroFailures DEF RestartSignedIn, States, TypeOK
<1>2. CASE RestartWithCookie
  <2>1. refresh' \in Refreshes
    BY <1>2 DEF RestartWithCookie, HasRefreshCookie, Waiters, Refreshes, TypeOK
  <2> QED  BY <1>2, <2>1, ZeroFailures DEF RestartWithCookie, States, Tokens, TypeOK
<1>3. CASE RestartSignedOut
  BY <1>3, ZeroFailures DEF RestartSignedOut, States, Tokens, TypeOK
<1> QED  BY <1>1, <1>2, <1>3

\* Type correctness of the session.
THEOREM Typing == Spec => []TypeOK
<1>1. Init => TypeOK
  <2> SUFFICES ASSUME Init PROVE TypeOK
    OBVIOUS
  <2>1. token \in Tokens /\ auth \in States /\ expiries \in Nat /\ failures \in 0 .. MaxFailures
    BY ZeroFailures DEF Init, Tokens, States
  <2>2. /\ tracking \in BOOLEAN /\ consent \in BOOLEAN /\ menu \in BOOLEAN /\ handled \in BOOLEAN
        /\ throttled \in BOOLEAN /\ refused \in BOOLEAN /\ paused \in BOOLEAN
    BY DEF Init
  <2> QED  BY <2>1, <2>2 DEF Init, TypeOK
<1>2. TypeOK /\ [Next]_vars => TypeOK'
  <2> SUFFICES ASSUME TypeOK, [Next]_vars PROVE TypeOK'
    OBVIOUS
  <2>1. CASE Next
    BY <2>1, RequestTypes, EventTypes, RestartTypes DEF Next
  <2>2. CASE UNCHANGED vars
    BY <2>2 DEF vars, TypeOK
  <2> QED  BY <2>1, <2>2
<1> QED  BY <1>1, <1>2, PTL DEF Spec

-----------------------------------------------------------------------------
(* Safety *)

\* A token that is one has an owner.
LEMMA TokenHasOwner == \A tok \in Tokens : tok # NoToken => tok.user \in Users /\ tok.user # NoUser
BY SessionAssumption DEF Tokens

\* startTrackingIfNeeded keeps what concerns tracking, if the flag is lowered
\* or the state it judges is the present one.
LEMMA StartSafe ==
    ASSUME TypeOK, Safe, NEW state \in {auth, "AUTH_OK"}, NEW tok \in Tokens, NEW enabled \in BOOLEAN,
           Start(state, tok, enabled),
           handled' = FALSE \/ (handled' = handled /\ state = auth)
    PROVE  ExpiredIsStopped' /\ OnlyExpiredIsEnded' /\ TrackingIsShown' /\ TrackingHasHub'
<1>1. tracking \in BOOLEAN /\ menu \in BOOLEAN /\ handled \in BOOLEAN
  BY DEF TypeOK
<1>2. tok # NoToken => tok.user # NoUser
  BY TokenHasOwner
<1>3. CASE Refused(state, tok, enabled)
  <2>1. auth' = state /\ tracking' = tracking /\ menu' = menu /\ hub' = hub
    BY <1>3 DEF Start
  <2> QED
    BY <1>1, <2>1 DEF Safe, ExpiredIsStopped, OnlyExpiredIsEnded, TrackingIsShown, TrackingHasHub
<1>4. CASE ~Refused(state, tok, enabled)
  <2>1. /\ auth' = "AUTH_OK" /\ tracking' = (tok # NoToken) /\ menu' = tracking'
        /\ hub' = IF hub = NoUser THEN tok.user ELSE hub
    BY <1>4 DEF Start, ConnectHub
  <2>2. state # "AUTH_EXPIRED"
    BY <1>4 DEF Refused
  <2>3. handled' = FALSE
    BY <1>1, <2>2 DEF Safe, OnlyExpiredIsEnded
  <2> QED
    BY <1>2, <2>1, <2>3 DEF ExpiredIsStopped, OnlyExpiredIsEnded, TrackingIsShown, TrackingHasHub
<1> QED  BY <1>3, <1>4

\* A purge leaves nothing of tracking and of the expiry.
LEMMA PurgeSafe ==
    ASSUME Purge
    PROVE  /\ ExpiredIsStopped' /\ OnlyExpiredIsEnded' /\ TrackingIsShown' /\ TrackingHasHub'
           /\ ExpiryIsPending'
BY DEF Purge, ExpiredIsStopped, OnlyExpiredIsEnded, TrackingIsShown, TrackingHasHub, ExpiryIsPending

\* A refresh that is joined or sent finds the backend up, and keeps all who wait.
LEMMA JoinSafe ==
    ASSUME TypeOK, BackendIsSpared, ~CannotRefresh, NEW waiter \in Waiters, Join(waiter)
    PROVE  ~throttled /\ waiter \in refresh'.for /\ refresh.for \subseteq refresh'.for
<1>1. CASE Refreshing
  <2>1. refresh \in Refreshes
    BY <1>1 DEF TypeOK, Refreshing, NoRefresh
  <2>2. refresh' = [refresh EXCEPT !.for = @ \cup {waiter}]
    BY <1>1 DEF Join
  <2>3. refresh'.for = refresh.for \cup {waiter}
    BY <2>1, <2>2 DEF Refreshes
  <2> QED  BY <1>1, <2>3 DEF BackendIsSpared
<1>2. CASE ~Refreshing
  BY <1>2 DEF Join, CannotRefresh, Refreshing
<1> QED  BY <1>1, <1>2

\* The steps that touch neither a refresh, the backend nor a timer.
LEMMA CalmKeepsBackend ==
    ASSUME Safe, UNCHANGED <<refresh, throttled, expiries>>, handled' = FALSE \/ handled' = handled
    PROVE  BackendIsSpared' /\ ExpiryIsPending'
BY DEF Safe, BackendIsSpared, ExpiryIsPending, Refreshing

\* What the user, the renderer or the system asks for is safe.
LEMMA RequestSafe ==
    ASSUME TypeOK, Safe, Request
    PROVE  Safe'
<1> USE DEF requests, backend, choices
<1>0. token \in Tokens /\ auth \in States /\ consent \in BOOLEAN /\ tracking \in BOOLEAN /\ menu \in BOOLEAN
  BY DEF TypeOK
<1>1. CASE Logout
  <2>1. BackendIsSpared'
    BY <1>1 DEF Logout, Safe, BackendIsSpared, Refreshing
  <2> QED  BY <1>1, <2>1, PurgeSafe DEF Logout, Safe
<1>2. ASSUME NEW u \in Users, Login(u) PROVE Safe'
  BY <1>2 DEF Login, Safe, ExpiredIsStopped, OnlyExpiredIsEnded, TrackingIsShown, TrackingHasHub,
              BackendIsSpared, ExpiryIsPending, Refreshing
<1>3. ASSUME NEW u \in Users, ProtocolAuth(u) PROVE Safe'
  <2> DEFINE tok == [user |-> u, usable |-> TRUE]
  <2>1. Start("AUTH_OK", tok, consent) /\ handled' = FALSE
    BY <1>3 DEF ProtocolAuth
  <2>2. tok \in Tokens
    BY UsableIsToken
  <2>3. ExpiredIsStopped' /\ OnlyExpiredIsEnded' /\ TrackingIsShown' /\ TrackingHasHub'
    <3> HIDE DEF tok
    <3> QED  BY <1>0, <2>1, <2>2, StartSafe
  <2>4. BackendIsSpared' /\ ExpiryIsPending'
    BY <1>3, CalmKeepsBackend DEF ProtocolAuth
  <2> QED  BY <2>3, <2>4 DEF Safe
<1>4. ASSUME NEW tok \in [user : Users, usable : BOOLEAN], StartTracking(tok) PROVE Safe'
  <2>1. BackendIsSpared' /\ ExpiryIsPending'
    BY <1>4, CalmKeepsBackend DEF StartTracking
  <2>2. CASE tok.usable
    <3>1. Start(auth, tok, consent) /\ handled' = FALSE
      BY <1>4, <2>2 DEF StartTracking
    <3>2. tok \in Tokens
      BY DEF Tokens
    <3> QED  BY <1>0, <2>1, <3>1, <3>2, StartSafe DEF Safe
  <2>3. CASE ~tok.usable
    <3>1. UNCHANGED <<handled, auth, tracking, hub, menu>>
      BY <1>4, <2>3 DEF StartTracking
    <3> QED
      BY <2>1, <3>1 DEF Safe, ExpiredIsStopped, OnlyExpiredIsEnded, TrackingIsShown, TrackingHasHub
  <2> QED  BY <2>2, <2>3
<1>5. ASSUME NEW tok \in [user : Users, usable : BOOLEAN], AgentTokenRefreshed(tok) PROVE Safe'
  <2>1. BackendIsSpared' /\ ExpiryIsPending'
    BY <1>5, CalmKeepsBackend DEF AgentTokenRefreshed
  <2>2. Start(auth, tok, consent) /\ handled' = FALSE
    BY <1>5 DEF AgentTokenRefreshed
  <2>3. tok \in Tokens
    BY DEF Tokens
  <2> QED  BY <1>0, <2>1, <2>2, <2>3, StartSafe DEF Safe
<1>6. CASE RestoreToken
  BY <1>6 DEF RestoreToken, Safe, ExpiredIsStopped, OnlyExpiredIsEnded, TrackingIsShown,
              TrackingHasHub, BackendIsSpared, ExpiryIsPending, Refreshing
<1>7. CASE RefreshToken
  <2>1. ExpiredIsStopped' /\ OnlyExpiredIsEnded' /\ TrackingIsShown' /\ TrackingHasHub'
    BY <1>7 DEF RefreshToken, Safe, ExpiredIsStopped, OnlyExpiredIsEnded, TrackingIsShown, TrackingHasHub
  <2>2. UNCHANGED <<throttled, expiries, handled>>
    BY <1>7 DEF RefreshToken
  <2>3. CASE CannotRefresh
    BY <1>7, <2>1, <2>2, <2>3, CalmKeepsBackend DEF RefreshToken, Safe
  <2>4. CASE ~CannotRefresh
    <3>1. ~throttled /\ refresh.for \subseteq refresh'.for
      BY <1>7, <2>4, JoinSafe DEF RefreshToken, Waiters, Safe
    <3> QED  BY <2>1, <2>2, <3>1 DEF Safe, BackendIsSpared, ExpiryIsPending
  <2> QED  BY <2>3, <2>4
<1>8. CASE AgentRefreshFailed
  <2>1. BackendIsSpared'
    BY <1>8 DEF AgentRefreshFailed, Safe, BackendIsSpared, Refreshing
  <2> QED  BY <1>8, <2>1, PurgeSafe DEF AgentRefreshFailed, FinishSessionExpired, Safe
<1>9. ASSUME NEW enabled \in BOOLEAN, SetPrivacy(enabled) PROVE Safe'
  <2>1. BackendIsSpared' /\ ExpiryIsPending' /\ handled' = handled
    BY <1>9, CalmKeepsBackend DEF SetPrivacy
  <2>2. CASE enabled
    <3>1. Start(auth, token, TRUE)
      BY <1>9, <2>2 DEF SetPrivacy
    <3> QED  BY <1>0, <2>1, <3>1, StartSafe DEF Safe
  <2>3. CASE ~enabled
    <3>1. UNCHANGED <<auth, tracking, hub, menu>>
      BY <1>9, <2>3 DEF SetPrivacy
    <3> QED
      BY <2>1, <3>1 DEF Safe, ExpiredIsStopped, OnlyExpiredIsEnded, TrackingIsShown, TrackingHasHub
  <2> QED  BY <2>2, <2>3
<1>10. CASE SetInterval
  BY <1>10 DEF SetInterval, Safe, ExpiredIsStopped, OnlyExpiredIsEnded, TrackingIsShown,
               TrackingHasHub, BackendIsSpared, ExpiryIsPending, Refreshing
<1>11. CASE TrayClick
  <2>1. BackendIsSpared' /\ ExpiryIsPending' /\ handled' = handled
    BY <1>11, CalmKeepsBackend DEF TrayClick
  <2>2. CASE menu
    <3>1. tracking' = FALSE /\ auth' = auth
      BY <1>11, <2>2 DEF TrayClick, StopTracking
    <3> QED
      BY <2>1, <3>1 DEF Safe, ExpiredIsStopped, OnlyExpiredIsEnded, TrackingIsShown, TrackingHasHub
  <2>3. CASE ~menu /\ Refused(auth, token, consent)
    <3>1. menu' = tracking /\ UNCHANGED <<auth, tracking, hub>>
      BY <1>11, <2>3 DEF TrayClick
    <3> QED
      BY <2>1, <3>1 DEF Safe, ExpiredIsStopped, OnlyExpiredIsEnded, TrackingIsShown, TrackingHasHub
  <2>4. CASE ~menu /\ ~Refused(auth, token, consent)
    <3>1. Start(auth, token, consent)
      BY <1>11, <2>4 DEF TrayClick
    <3> QED  BY <1>0, <2>1, <3>1, StartSafe DEF Safe
  <2> QED  BY <2>2, <2>3, <2>4
<1> QED
  BY <1>1, <1>2, <1>3, <1>4, <1>5, <1>6, <1>7, <1>8, <1>9, <1>10, <1>11 DEF Request

\* An answer to a refresh is safe: it lowers the flag, ends the session or arms
\* the timer, and in any case leaves no refresh behind.
LEMMA AnswerSafe ==
    ASSUME TypeOK, Safe, RefreshAnswered
    PROVE  Safe'
<1> USE DEF requests, backend, choices
<1>0. token \in Tokens /\ auth \in States /\ consent \in BOOLEAN /\ tracking \in BOOLEAN /\ expiries \in Nat
  BY DEF TypeOK
<1>1. refresh' = NoRefresh
  BY DEF RefreshAnswered, RefreshSucceeds, RefreshFails
<1>2. BackendIsSpared'
  BY <1>1 DEF BackendIsSpared, Refreshing, NoRefresh
<1>3. CASE RefreshSucceeds
  <2> DEFINE tok == [user |-> refresh.user, usable |-> TRUE]
  <2>1. handled' = FALSE
    BY <1>3 DEF RefreshSucceeds
  <2>2. ExpiryIsPending'
    BY <2>1 DEF ExpiryIsPending
  <2>3. tok \in Tokens
    BY <1>3, UsableIsToken DEF RefreshSucceeds, Refreshing, TypeOK, NoRefresh, Refreshes
  <2>4. CASE "startup" \in refresh.for /\ Refused(auth, tok, consent)
    <3>1. auth' = "AUTH_OK" /\ UNCHANGED <<tracking, menu, hub>>
      BY <1>3, <2>4 DEF RefreshSucceeds
    <3> QED
      BY <1>2, <2>1, <2>2, <3>1
      DEF Safe, ExpiredIsStopped, OnlyExpiredIsEnded, TrackingIsShown, TrackingHasHub
  <2>5. CASE ~("startup" \in refresh.for /\ Refused(auth, tok, consent))
    <3>1. Start(auth, tok, consent)
      BY <1>3, <2>5 DEF RefreshSucceeds
    <3> HIDE DEF tok
    <3> QED  BY <1>0, <1>2, <2>1, <2>2, <2>3, <3>1, StartSafe DEF Safe
  <2> QED  BY <2>4, <2>5
<1>4. ASSUME NEW outcome \in {"refused", "down", "unreachable"}, RefreshFails(outcome)
      PROVE  Safe'
  <2>1. CASE "startup" \in refresh.for /\ outcome # "down"
    <3>1. Purge
      BY <1>4, <2>1 DEF RefreshFails, FinishSessionExpired
    <3> QED  BY <1>2, <3>1, PurgeSafe DEF Safe
  <2>2. CASE ~("startup" \in refresh.for /\ outcome # "down")
    <3>1. UNCHANGED <<token, cookie, profile, auth, tracking, hub, menu, handled>>
      BY <1>4, <2>2 DEF RefreshFails
    <3>2. expiries' = IF "auto" \in refresh.for THEN expiries + 1 ELSE expiries
      BY <1>4 DEF RefreshFails, Armed
    <3>3. ExpiryIsPending'
      BY <1>0, <3>1, <3>2 DEF Safe, ExpiryIsPending
    <3> QED
      BY <1>2, <3>1, <3>3
      DEF Safe, ExpiredIsStopped, OnlyExpiredIsEnded, TrackingIsShown, TrackingHasHub
  <2> QED  BY <2>1, <2>2
<1> QED  BY <1>3, <1>4 DEF RefreshAnswered

\* A 401 that is acted on stops tracking, and starts what will settle it.
LEMMA ExpireSafe ==
    ASSUME TypeOK, Safe, Expire, UNCHANGED <<menu, hub, throttled>>
    PROVE  Safe'
<1>1. handled' = TRUE /\ auth' = "AUTH_EXPIRED" /\ tracking' = FALSE
  BY DEF Expire, StopTracking
<1>2. expiries \in Nat
  BY DEF TypeOK
<1>3. CASE throttled \/ CannotRefresh
  <2>1. expiries' = expiries + 1 /\ refresh' = refresh
    BY <1>3 DEF Expire
  <2> QED
    BY <1>1, <1>2, <2>1
    DEF Safe, ExpiredIsStopped, OnlyExpiredIsEnded, TrackingIsShown, TrackingHasHub,
        BackendIsSpared, ExpiryIsPending, Refreshing
<1>4. CASE ~(throttled \/ CannotRefresh)
  <2>1. Join("auto")
    BY <1>4 DEF Expire
  <2>2. "auto" \in refresh'.for /\ ~throttled
    BY <1>4, <2>1, JoinSafe DEF Safe, Waiters
  <2> QED
    BY <1>1, <2>2
    DEF Safe, ExpiredIsStopped, OnlyExpiredIsEnded, TrackingIsShown, TrackingHasHub,
        BackendIsSpared, ExpiryIsPending
<1> QED  BY <1>3, <1>4

\* Every other event is safe.
LEMMA EventSafe ==
    ASSUME TypeOK, Safe, Event
    PROVE  Safe'
<1> USE DEF requests, backend, choices
<1>0. token \in Tokens /\ auth \in States /\ consent \in BOOLEAN
  BY DEF TypeOK
<1>1. CASE LoginSucceeds
  <2> DEFINE tok == [user |-> login, usable |-> TRUE]
  <2>1. Start(auth, tok, consent) /\ handled' = FALSE
    BY <1>1 DEF LoginSucceeds
  <2>2. tok \in Tokens
    BY <1>1, UsableIsToken DEF LoginSucceeds, TypeOK
  <2>3. BackendIsSpared' /\ ExpiryIsPending'
    BY <1>1, CalmKeepsBackend DEF LoginSucceeds
  <2>4. ExpiredIsStopped' /\ OnlyExpiredIsEnded' /\ TrackingIsShown' /\ TrackingHasHub'
    <3> HIDE DEF tok
    <3> QED  BY <1>0, <2>1, <2>2, StartSafe
  <2> QED  BY <2>3, <2>4 DEF Safe
<1>2. CASE LoginFails
  BY <1>2 DEF LoginFails, Safe, ExpiredIsStopped, OnlyExpiredIsEnded, TrackingIsShown,
              TrackingHasHub, BackendIsSpared, ExpiryIsPending, Refreshing
<1>3. CASE RefreshAnswered
  BY <1>3, AnswerSafe
<1>4. CASE ThrottleEnds
  BY <1>4 DEF ThrottleEnds, Safe, ExpiredIsStopped, OnlyExpiredIsEnded, TrackingIsShown,
              TrackingHasHub, BackendIsSpared, ExpiryIsPending
<1>5. CASE TokenExpires
  BY <1>5 DEF TokenExpires, Safe, ExpiredIsStopped, OnlyExpiredIsEnded, TrackingIsShown,
              TrackingHasHub, BackendIsSpared, ExpiryIsPending, Refreshing
<1>6. CASE UploadStarts
  BY <1>6 DEF UploadStarts, Safe, ExpiredIsStopped, OnlyExpiredIsEnded, TrackingIsShown,
              TrackingHasHub, BackendIsSpared, ExpiryIsPending, Refreshing
<1>7. ASSUME NEW u \in Users, UploadEnds(u) PROVE Safe'
  BY <1>7 DEF UploadEnds, Safe, ExpiredIsStopped, OnlyExpiredIsEnded, TrackingIsShown,
              TrackingHasHub, BackendIsSpared, ExpiryIsPending, Refreshing
<1>8. ASSUME NEW u \in Users, UploadUnauthorized(u) PROVE Safe'
  <2>1. UNCHANGED <<menu, hub, throttled>>
    BY <1>8 DEF UploadUnauthorized
  <2>2. CASE u \in latched \/ handled
    <3>1. UNCHANGED <<handled, auth, tracking, expiries, refresh>>
      BY <1>8, <2>2 DEF UploadUnauthorized
    <3> QED
      BY <2>1, <3>1 DEF Safe, ExpiredIsStopped, OnlyExpiredIsEnded, TrackingIsShown,
                        TrackingHasHub, BackendIsSpared, ExpiryIsPending, Refreshing
  <2>3. CASE ~(u \in latched \/ handled)
    <3>1. Expire
      BY <1>8, <2>3 DEF UploadUnauthorized
    <3> QED  BY <2>1, <3>1, ExpireSafe
  <2> QED  BY <2>2, <2>3
<1>9. CASE ExpiryTimerFires
  <2>1. BackendIsSpared'
    BY <1>9 DEF ExpiryTimerFires, Safe, BackendIsSpared, Refreshing
  <2>2. CASE handled
    BY <1>9, <2>1, <2>2, PurgeSafe DEF ExpiryTimerFires, FinishSessionExpired, Safe
  <2>3. CASE ~handled
    BY <1>9, <2>1, <2>3 DEF ExpiryTimerFires, Safe, ExpiredIsStopped, OnlyExpiredIsEnded,
                            TrackingIsShown, TrackingHasHub, ExpiryIsPending
  <2> QED  BY <2>2, <2>3
<1>10. CASE Leave
  BY <1>10 DEF Leave, StopTracking, Safe, ExpiredIsStopped, OnlyExpiredIsEnded, TrackingIsShown,
               TrackingHasHub, BackendIsSpared, ExpiryIsPending, Refreshing
<1>11. CASE Return
  <2>1. Start(auth, token, consent) /\ handled' = handled
    BY <1>11 DEF Return
  <2>2. BackendIsSpared' /\ ExpiryIsPending'
    BY <1>11, CalmKeepsBackend DEF Return
  <2> QED  BY <1>0, <2>1, <2>2, StartSafe DEF Safe
<1>12. CASE TickStops
  BY <1>12 DEF TickStops, StopTracking, Safe, ExpiredIsStopped, OnlyExpiredIsEnded, TrackingIsShown,
               TrackingHasHub, BackendIsSpared, ExpiryIsPending, Refreshing
<1> QED
  BY <1>1, <1>2, <1>3, <1>4, <1>5, <1>6, <1>7, <1>8, <1>9, <1>10, <1>11, <1>12 DEF Event

\* A start of the process is safe.
LEMMA RestartSafe ==
    ASSUME TypeOK, RestartSignedIn \/ RestartWithCookie \/ RestartSignedOut
    PROVE  Safe'
<1> USE DEF Boot, Safe, ExpiredIsStopped, OnlyExpiredIsEnded, TrackingIsShown, TrackingHasHub,
            BackendIsSpared, ExpiryIsPending, Refreshing
<1>1. CASE RestartSignedIn
  <2>1. token.user # NoUser
    BY <1>1, TokenHasOwner DEF RestartSignedIn, NoToken, TypeOK
  <2> QED  BY <1>1, <2>1 DEF RestartSignedIn
<1>2. CASE RestartWithCookie
  BY <1>2 DEF RestartWithCookie
<1>3. CASE RestartSignedOut
  BY <1>3 DEF RestartSignedOut
<1> QED  BY <1>1, <1>2, <1>3

\* Every step preserves the safety invariants.
LEMMA SafeStep ==
    ASSUME TypeOK, Safe, [Next]_vars
    PROVE  Safe'
<1>1. CASE Next
  BY <1>1, RequestSafe, EventSafe, RestartSafe DEF Next
<1>2. CASE UNCHANGED vars
  BY <1>2 DEF vars, Safe, ExpiredIsStopped, OnlyExpiredIsEnded, TrackingIsShown, TrackingHasHub,
              BackendIsSpared, ExpiryIsPending, Refreshing
<1> QED  BY <1>1, <1>2

\* The session is safe in every reachable state.
THEOREM Safety == Spec => []Safe
<1>1. Init => Safe
  BY DEF Init, Safe, ExpiredIsStopped, OnlyExpiredIsEnded, TrackingIsShown, TrackingHasHub,
         BackendIsSpared, ExpiryIsPending
<1> QED  BY <1>1, SafeStep, Typing, PTL DEF Spec

\* An expired session is never tracked.
THEOREM NothingTrackedWhenExpired == Spec => []ExpiredIsStopped
<1>1. Safe => ExpiredIsStopped
  BY DEF Safe
<1> QED  BY <1>1, Safety, PTL

\* A renewed session is never ended by the timer of an earlier expiry.
THEOREM RenewedIsNotEnded == Spec => []OnlyExpiredIsEnded
<1>1. Safe => OnlyExpiredIsEnded
  BY DEF Safe
<1> QED  BY <1>1, Safety, PTL

\* The tray shows it whenever tracking runs.
THEOREM TrackingIsAlwaysShown == Spec => []TrackingIsShown
<1>1. Safe => TrackingIsShown
  BY DEF Safe
<1> QED  BY <1>1, Safety, PTL

\* Running tracking always has a hub socket.
THEOREM TrackingKeepsHub == Spec => []TrackingHasHub
<1>1. Safe => TrackingHasHub
  BY DEF Safe
<1> QED  BY <1>1, Safety, PTL

\* No refresh is out while the backend is spared.
THEOREM ThrottleHolds == Spec => []BackendIsSpared
<1>1. Safe => BackendIsSpared
  BY DEF Safe
<1> QED  BY <1>1, Safety, PTL

\* An expiry being handled has a refresh or a timer to settle it.
THEOREM ExpiryHasAnEnd == Spec => []ExpiryIsPending
<1>1. Safe => ExpiryIsPending
  BY DEF Safe
<1> QED  BY <1>1, Safety, PTL

-----------------------------------------------------------------------------
(* When the backend is spared                                                *)

\* Every step leaves failures and throttle alone, clears both, counts failures,
\* or ends the throttle.
LEMMA BackendSteps ==
    ASSUME [Next]_vars
    PROVE  \/ UNCHANGED backend
           \/ throttled' = FALSE
           \/ \E n \in Nat : CountFailures(n)
<1> USE DEF backend
<1>1. Request => UNCHANGED backend
  BY DEF Request, Logout, Login, ProtocolAuth, StartTracking, AgentTokenRefreshed, RestoreToken,
         RefreshToken, AgentRefreshFailed, SetPrivacy, SetInterval, TrayClick
<1>2. ASSUME NEW outcome, RefreshFails(outcome) PROVE \E n \in Nat : CountFailures(n)
  BY <1>2 DEF RefreshFails
<1>3. RefreshAnswered => throttled' = FALSE \/ \E n \in Nat : CountFailures(n)
  BY <1>2 DEF RefreshAnswered, RefreshSucceeds
<1>4. ASSUME NEW u \in Users, UploadEnds(u) \/ UploadUnauthorized(u) PROVE UNCHANGED backend
  BY <1>4 DEF UploadEnds, UploadUnauthorized
<1>5. LoginSucceeds \/ LoginFails \/ TokenExpires \/ UploadStarts \/ ExpiryTimerFires
        \/ Leave \/ Return \/ TickStops => UNCHANGED backend
  BY DEF LoginSucceeds, LoginFails, TokenExpires, UploadStarts, ExpiryTimerFires, Leave,
         Return, TickStops
<1>6. Event => UNCHANGED backend \/ throttled' = FALSE \/ \E n \in Nat : CountFailures(n)
  BY <1>3, <1>4, <1>5 DEF Event, ThrottleEnds
<1>7. RestartSignedIn \/ RestartWithCookie \/ RestartSignedOut => throttled' = FALSE
  BY DEF RestartSignedIn, RestartWithCookie, RestartSignedOut, Boot
<1>8. UNCHANGED vars => UNCHANGED backend
  BY DEF vars
<1> QED  BY <1>1, <1>6, <1>7, <1>8 DEF Next

\* The backend is never spared before MaxFailures failures were counted.
THEOREM SparingTakesFailures == Spec => []SparingIsEarned
<1>1. Init => SparingIsEarned
  BY DEF Init, SparingIsEarned
<1>2. TypeOK /\ SparingIsEarned /\ [Next]_vars => SparingIsEarned'
  <2> SUFFICES ASSUME TypeOK, SparingIsEarned, [Next]_vars, throttled' PROVE failures' = MaxFailures
    BY DEF SparingIsEarned
  <2>1. CASE UNCHANGED backend
    BY <2>1 DEF SparingIsEarned, backend
  <2>2. ASSUME NEW n \in Nat, CountFailures(n) PROVE failures' = MaxFailures
    <3>1. throttled \/ failures + n >= MaxFailures
      BY <2>2 DEF CountFailures, TypeOK
    <3>2. failures \in 0 .. MaxFailures /\ MaxFailures \in Nat /\ (throttled => failures = MaxFailures)
      BY SessionAssumption DEF SparingIsEarned, TypeOK
    <3>3. failures' = IF failures + n > MaxFailures THEN MaxFailures ELSE failures + n
      BY <2>2 DEF CountFailures
    <3>4. failures + n >= MaxFailures
      BY <3>1, <3>2
    <3> QED  BY <3>2, <3>3, <3>4
  <2> QED  BY <2>1, <2>2, BackendSteps
<1> QED  BY <1>1, <1>2, Typing, PTL DEF Spec

-----------------------------------------------------------------------------
(* How tracking starts *)

\* startTrackingIfNeeded starts tracking with consent, a token, in good order.
LEMMA StartInOrder ==
    ASSUME NEW state, NEW tok, NEW enabled,
           Start(state, tok, enabled), ~tracking, tracking'
    PROVE  enabled /\ tok # NoToken /\ auth' = "AUTH_OK"
BY DEF Start, Refused

\* No step starts tracking in another way.
LEMMA StepStartsInOrder ==
    ASSUME TypeOK, [Next]_vars
    PROVE  StartsInOrder
<1> DEFINE InOrder == consent' /\ token' # NoToken /\ auth' = "AUTH_OK"
<1> SUFFICES ASSUME ~tracking, tracking' PROVE InOrder
  BY DEF StartsInOrder
<1>1. ASSUME NEW state, Start(state, token', consent') PROVE InOrder
  BY <1>1, StartInOrder
<1> HIDE DEF InOrder
<1>2. CASE Request
  <2>1. ~Logout /\ ~RestoreToken /\ ~RefreshToken /\ ~AgentRefreshFailed /\ ~SetInterval
    BY DEF Logout, RestoreToken, RefreshToken, AgentRefreshFailed, SetInterval,
           FinishSessionExpired, Purge
  <2>2. ASSUME NEW u \in Users, Login(u) PROVE FALSE
    BY <2>2 DEF Login
  <2>3. ASSUME NEW u \in Users, ProtocolAuth(u) PROVE InOrder
    <3> DEFINE tok == [user |-> u, usable |-> TRUE]
    <3>1. token' = tok /\ consent' = consent /\ Start("AUTH_OK", tok, consent)
      BY <2>3 DEF ProtocolAuth, SaveToken
    <3> HIDE DEF tok
    <3> QED  BY <1>1, <3>1
  <2>4. ASSUME NEW tok \in [user : Users, usable : BOOLEAN], StartTracking(tok) PROVE InOrder
    <3>1. tok.usable
      BY <2>4 DEF StartTracking
    <3>2. token' = tok /\ consent' = consent /\ Start(auth, tok, consent)
      BY <2>4, <3>1 DEF StartTracking, SaveToken
    <3> QED  BY <1>1, <3>2
  <2>5. ASSUME NEW tok \in [user : Users, usable : BOOLEAN], AgentTokenRefreshed(tok) PROVE InOrder
    <3>1. token' = tok /\ consent' = consent /\ Start(auth, tok, consent)
      BY <2>5 DEF AgentTokenRefreshed, SaveToken, choices
    <3> QED  BY <1>1, <3>1
  <2>6. ASSUME NEW enabled \in BOOLEAN, SetPrivacy(enabled) PROVE InOrder
    <3>1. enabled
      BY <2>6 DEF SetPrivacy
    <3>2. token' = token /\ consent' = TRUE /\ Start(auth, token, TRUE)
      BY <2>6, <3>1 DEF SetPrivacy
    <3> QED  BY <1>1, <3>2
  <2>7. CASE TrayClick
    <3>1. token' = token /\ consent' = consent /\ Start(auth, token, consent)
      BY <2>7 DEF TrayClick, StopTracking
    <3> QED  BY <1>1, <3>1
  <2> QED  BY <1>2, <2>1, <2>2, <2>3, <2>4, <2>5, <2>6, <2>7 DEF Request
<1>3. CASE Event
  <2>1. /\ ~LoginFails /\ ~ThrottleEnds /\ ~TokenExpires /\ ~UploadStarts
        /\ ~ExpiryTimerFires /\ ~Leave /\ ~TickStops
    BY DEF LoginFails, ThrottleEnds, TokenExpires, UploadStarts, ExpiryTimerFires, Leave,
           TickStops, StopTracking, FinishSessionExpired, Purge
  <2>2. ASSUME NEW u \in Users, UploadEnds(u) \/ UploadUnauthorized(u) PROVE FALSE
    BY <2>2 DEF UploadEnds, UploadUnauthorized, Expire, StopTracking
  <2>3. CASE LoginSucceeds
    <3> DEFINE tok == [user |-> login, usable |-> TRUE]
    <3>1. token' = tok /\ consent' = consent /\ Start(auth, tok, consent)
      BY <2>3 DEF LoginSucceeds, SaveToken
    <3> HIDE DEF tok
    <3> QED  BY <1>1, <3>1
  <2>4. CASE RefreshSucceeds
    <3> DEFINE tok == [user |-> refresh.user, usable |-> TRUE]
    <3>1. token' = tok /\ consent' = consent
      BY <2>4 DEF RefreshSucceeds, SaveToken, choices
    <3>2. (tracking' = tracking) \/ Start(auth, tok, consent)
      BY <2>4 DEF RefreshSucceeds
    <3> HIDE DEF tok
    <3> QED  BY <1>1, <3>1, <3>2
  <2>5. ASSUME NEW outcome \in {"refused", "down", "unreachable"}, RefreshFails(outcome)
        PROVE  FALSE
    BY <2>5 DEF RefreshFails, FinishSessionExpired, Purge
  <2>6. CASE Return
    <3>1. token' = token /\ consent' = consent /\ Start(auth, token, consent)
      BY <2>6 DEF Return, choices
    <3> QED  BY <1>1, <3>1
  <2>7. CASE RefreshAnswered
    BY <2>4, <2>5, <2>7 DEF RefreshAnswered
  <2> QED  BY <1>3, <2>1, <2>2, <2>3, <2>6, <2>7 DEF Event
<1>4. CASE RestartSignedIn
  <2>1. token # NoToken
    BY <1>4 DEF RestartSignedIn, NoToken
  <2> QED  BY <1>4, <2>1 DEF RestartSignedIn, Boot, InOrder
<1>5. CASE RestartWithCookie \/ RestartSignedOut
  BY <1>5 DEF RestartWithCookie, RestartSignedOut
<1>6. CASE UNCHANGED vars
  BY <1>6 DEF vars
<1> QED  BY <1>2, <1>3, <1>4, <1>5, <1>6 DEF Next

\* Tracking never starts without consent, without a token or in an expired session.
THEOREM StartsAreInOrder == Spec => TrackingStartsInOrder
<1>1. TypeOK /\ [Next]_vars => [StartsInOrder]_vars
  BY StepStartsInOrder
<1> QED  BY <1>1, Typing, PTL DEF Spec, TrackingStartsInOrder

-----------------------------------------------------------------------------
(* How an expired session opens                                              *)

\* In an expired session startTrackingIfNeeded does nothing.
LEMMA StartStaysExpired ==
    ASSUME NEW tok, NEW enabled, Start("AUTH_EXPIRED", tok, enabled)
    PROVE  auth' = "AUTH_EXPIRED"
BY DEF Start, Refused

\* Of all that may happen to an expired session, a link, the answer to a refresh
\* sent at start-up, or a new start opens it.
LEMMA StepOpensWithToken ==
    ASSUME [Next]_vars
    PROVE  OpensWithToken
<1> SUFFICES ASSUME auth = "AUTH_EXPIRED", auth' # "AUTH_EXPIRED"
             PROVE  token'.usable \/ (auth' = "STARTING" /\ "startup" \in refresh'.for)
  BY DEF OpensWithToken
<1>1. ASSUME NEW tok, NEW enabled, Start(auth, tok, enabled) PROVE FALSE
  BY <1>1, StartStaysExpired
<1>2. CASE Request
  <2>1. ASSUME NEW u \in Users, ProtocolAuth(u) PROVE token'.usable
    BY <2>1 DEF ProtocolAuth, SaveToken
  <2>2. ASSUME NEW u \in Users, Login(u) PROVE FALSE
    BY <2>2 DEF Login
  <2>3. ASSUME NEW tok, StartTracking(tok) \/ AgentTokenRefreshed(tok) PROVE FALSE
    BY <1>1, <2>3 DEF StartTracking, AgentTokenRefreshed
  <2>4. ASSUME NEW enabled, SetPrivacy(enabled) PROVE FALSE
    BY <1>1, <2>4 DEF SetPrivacy
  <2>5. ~TrayClick
    BY <1>1 DEF TrayClick
  <2>6. /\ ~Logout /\ ~RestoreToken /\ ~RefreshToken /\ ~AgentRefreshFailed /\ ~SetInterval
    BY DEF Logout, RestoreToken, RefreshToken, AgentRefreshFailed, SetInterval,
           FinishSessionExpired
  <2> QED  BY <1>2, <2>1, <2>2, <2>3, <2>4, <2>5, <2>6 DEF Request
<1>3. CASE Event
  <2>1. ~LoginSucceeds /\ ~Return
    BY <1>1 DEF LoginSucceeds, Return
  <2>2. RefreshSucceeds => token'.usable
    BY DEF RefreshSucceeds, SaveToken
  <2>3. ASSUME NEW outcome, RefreshFails(outcome) PROVE FALSE
    BY <2>3 DEF RefreshFails, FinishSessionExpired
  <2>4. ASSUME NEW u \in Users, UploadEnds(u) \/ UploadUnauthorized(u) PROVE FALSE
    BY <2>4 DEF UploadEnds, UploadUnauthorized, Expire
  <2>5. /\ ~LoginFails /\ ~ThrottleEnds /\ ~TokenExpires /\ ~UploadStarts
        /\ ~ExpiryTimerFires /\ ~Leave /\ ~TickStops
    BY DEF LoginFails, ThrottleEnds, TokenExpires, UploadStarts, ExpiryTimerFires, Leave,
           TickStops, FinishSessionExpired
  <2> QED  BY <1>3, <2>1, <2>2, <2>3, <2>4, <2>5 DEF Event, RefreshAnswered
<1>4. RestartSignedIn => token'.usable
  BY DEF RestartSignedIn
<1>5. RestartWithCookie => auth' = "STARTING" /\ "startup" \in refresh'.for
  BY DEF RestartWithCookie
<1>6. ~RestartSignedOut /\ ~UNCHANGED vars
  BY DEF RestartSignedOut, vars
<1> QED  BY <1>2, <1>3, <1>4, <1>5, <1>6 DEF Next

\* An expired session never opens without a usable token, short of a start that
\* asks for one.
THEOREM ExpiredOpensWithToken == Spec => SessionOpensWithToken
<1>1. [Next]_vars => [OpensWithToken]_vars
  BY StepOpensWithToken
<1> QED  BY <1>1, PTL DEF Spec, SessionOpensWithToken
=============================================================================
