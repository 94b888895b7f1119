------------------------------- MODULE Session -------------------------------
(***************************************************************************)
(* The session of the main process: the state machine of main.js, the      *)
(* requests of src/main/authSession.js, the purge of                       *)
(* src/main/sessionPurge.js, and everything that starts or stops tracking: *)
(* the IPC handlers, the tray, the power events and the deep link.         *)
(*                                                                         *)
(* An action is a run of the event loop from one await to the next.  A     *)
(* refresh is shared by all who ask for one while it is in progress; their *)
(* continuations all run when its answer arrives, before anything else.    *)
(***************************************************************************)
EXTENDS Integers, FiniteSets

CONSTANTS Users,        \* accounts that sign in on this machine
          NoUser,
          MaxFailures   \* AGENT_BACKEND_DOWN_MAX_FAILURES, 2 by default

ASSUME SessionAssumption ==
    /\ NoUser \notin Users
    /\ MaxFailures \in Nat \ {0}

VARIABLES
    token,      \* the access token: whose it is, and isUsableAccessToken of it
    cookie,     \* the account of the refresh cookie (in memory and in the store)
    profile,    \* the "user" of the store
    auth,       \* trackingState
    tracking,   \* tracking.isTracking()
    consent,    \* privacySettings.trackingEnabled, in the store
    hub,        \* the account whose token the hub socket was opened with
    menu,       \* what isTracking() was when the tray menu was last built
    handled,    \* authExpiredHandled
    expiries,   \* pending timers of handleAuthExpired
    failures,   \* backendDownConsecutiveFailures, counted up to MaxFailures
    throttled,  \* backendDownUntilMs is in the future
    refresh,    \* refreshInProgress: the account of its cookie, who waits for it
    login,      \* the account of the login request in progress
    refused,    \* the renderer saw a refresh fail and is about to report it
    uploads,    \* accounts whose capture queue has a request in progress
    latched,    \* accounts whose capture queue has reported a 401
    paused      \* the user paused in the tray and asked for nothing else since

vars == <<token, cookie, profile, auth, tracking, consent, hub, menu, handled,
          expiries, failures, throttled, refresh, login, refused, uploads,
          latched, paused>>

\* The backend as this machine sees it; the outgoing requests; what is kept
\* of the user's choices.
backend == <<failures, throttled>>
requests == <<refresh, login, refused, uploads, latched>>
choices == <<consent, paused>>

NoToken == [user |-> NoUser, usable |-> FALSE]

Tokens == [user : Users, usable : BOOLEAN] \cup {NoToken}

\* OFF is left before the first window exists.
States == {"STARTING", "AUTH_OK", "AUTH_EXPIRED"}

\* tryRefreshAndResumeTracking at startup, the same after a 401, the IPC refresh-token.
Waiters == {"startup", "auto", "ipc"}

NoRefresh == [user |-> NoUser, for |-> {}]

Refreshes == [user : Users, for : (SUBSET Waiters) \ {{}}]

Refreshing == refresh.for # {}

-----------------------------------------------------------------------------
(* Shared steps.  Each says what becomes of the variables it names.        *)

\* saveAccessToken(newToken, user); without a user the profile stays.
SaveToken(tok) == token' = tok

ClearToken == token' = NoToken /\ profile' = NoUser

\* connectHubSocket, which startTrackingIfNeeded calls only if there is no socket.
ConnectHub(tok) == hub' = IF hub = NoUser THEN tok.user ELSE hub

\* bootstrapAuth has read it from the store.
HasRefreshCookie == cookie # NoUser

\* startTrackingIfNeeded, called with the state in place at that moment.
Refused(state, tok, enabled) ==
    \/ state = "AUTH_EXPIRED"
    \/ tracking
    \/ ~enabled
    \/ state = "STARTING" /\ ~tok.usable

\* Slips: the menu is built before tracking starts; nothing is refused.
StartMenuFirst(state, tok, enabled) ==
    IF Refused(state, tok, enabled)
    THEN auth' = state /\ UNCHANGED <<tracking, menu, hub>>
    ELSE /\ auth' = "AUTH_OK"
         /\ tracking' = (tok # NoToken)
         /\ menu' = tracking
         /\ ConnectHub(tok)
StartAnyway(state, tok, enabled) ==
    /\ auth' = "AUTH_OK"
    /\ tracking' = (tracking \/ tok # NoToken)
    /\ menu' = tracking'
    /\ ConnectHub(tok)

\* Without a token neither tracking.startTracking nor the hub does anything.
Start(state, tok, enabled) ==
    IF Refused(state, tok, enabled)
    THEN auth' = state /\ UNCHANGED <<tracking, menu, hub>>
    ELSE /\ auth' = "AUTH_OK"
         /\ tracking' = (tok # NoToken)
         /\ menu' = tracking'
         /\ ConnectHub(tok)

\* purgeSession
Purge ==
    /\ tracking' = FALSE
    /\ hub' = NoUser
    /\ ClearToken
    /\ cookie' = NoUser
    /\ handled' = FALSE
    /\ menu' = FALSE

FinishSessionExpired == Purge /\ auth' = "AUTH_EXPIRED"

StopTracking == tracking' = FALSE

\* Slips: the backend is asked whatever its state; or with no cookie.
CannotRefreshWithoutCookie == ~Refreshing /\ cookie = NoUser
CannotRefreshThrottled == ~Refreshing /\ throttled

\* A request for a refresh either joins the one in progress, or fails at once
\* (backend throttled, no cookie), or is sent.
CannotRefresh == ~Refreshing /\ (throttled \/ ~HasRefreshCookie)

Join(waiter) ==
    refresh' = IF Refreshing THEN [refresh EXCEPT !.for = @ \cup {waiter}]
               ELSE [user |-> cookie, for |-> {waiter}]

-----------------------------------------------------------------------------
(* Login and the other ways to bring a token.                              *)

Login(u) ==
    /\ login = NoUser
    /\ login' = u
    /\ UNCHANGED <<token, cookie, profile, auth, tracking, hub, menu, handled, expiries,
                   refresh, refused, uploads, latched, backend, choices>>

\* The backend sends a refresh cookie with the token (README, flow 3).
LoginSucceeds ==
    LET tok == [user |-> login, usable |-> TRUE]
    IN
    /\ login # NoUser
    /\ login' = NoUser
    /\ cookie' = login
    /\ SaveToken(tok)
    /\ profile' = login
    /\ handled' = FALSE
    /\ Start(auth, tok, consent)
    /\ paused' = FALSE
    /\ UNCHANGED <<consent, expiries, refresh, refused, uploads, latched, backend>>

LoginFails ==
    /\ login # NoUser
    /\ login' = NoUser
    /\ UNCHANGED <<token, cookie, profile, auth, tracking, hub, menu, handled, expiries,
                   refresh, refused, uploads, latched, backend, choices>>

\* The IPC start-tracking.  An unusable token costs the session, yet leaves
\* tracking as it is.
StartTracking(tok) ==
    /\ IF tok.usable
       THEN /\ handled' = FALSE
            /\ SaveToken(tok)
            /\ Start(auth, tok, consent)
            /\ paused' = FALSE
            /\ UNCHANGED <<cookie, profile>>
       ELSE /\ ClearToken
            /\ cookie' = NoUser
            /\ UNCHANGED <<handled, auth, tracking, hub, menu, paused>>
    /\ UNCHANGED <<consent, expiries, requests, backend>>

\* The IPC agent-token-refreshed, which takes any token.
AgentTokenRefreshed(tok) ==
    /\ SaveToken(tok)
    /\ handled' = FALSE
    /\ Start(auth, tok, consent)
    /\ UNCHANGED <<cookie, profile, expiries, requests, backend, choices>>

\* A madsuite://auth link: the one way out of AUTH_EXPIRED short of a restart.
ProtocolAuth(u) ==
    LET tok == [user |-> u, usable |-> TRUE]
    IN
    /\ SaveToken(tok)
    /\ handled' = FALSE
    /\ Start("AUTH_OK", tok, consent)
    /\ paused' = FALSE
    /\ UNCHANGED <<cookie, profile, consent, expiries, requests, backend>>

\* The IPC restore-token, when there is no usable token to restore.
RestoreToken ==
    /\ ~token.usable
    /\ ClearToken
    /\ UNCHANGED <<cookie, auth, tracking, hub, menu, handled, expiries, requests,
                   backend, choices>>

\* The IPC stop-tracking: logout.
Logout ==
    /\ Purge
    /\ UNCHANGED <<auth, expiries, requests, backend, choices>>

-----------------------------------------------------------------------------
(* Refresh.                                                                *)

\* The IPC refresh-token.
RefreshToken ==
    /\ IF CannotRefresh
       THEN refused' = TRUE /\ UNCHANGED refresh
       ELSE Join("ipc") /\ UNCHANGED refused
    /\ UNCHANGED <<token, cookie, profile, auth, tracking, hub, menu, handled, expiries,
                   login, uploads, latched, backend, choices>>

\* The answer brings a token.  Whoever waited calls startTrackingIfNeeded, all
\* but "ipc" flush the capture queue, and "startup" then sets AUTH_OK.
RefreshSucceeds ==
    LET tok == [user |-> refresh.user, usable |-> TRUE]
        startup == "startup" \in refresh.for
    IN
    /\ Refreshing
    /\ cookie' \in {cookie, refresh.user}
    /\ SaveToken(tok)
    /\ profile' = refresh.user
    /\ handled' = FALSE
    /\ failures' = 0 /\ throttled' = FALSE
    /\ IF startup /\ Refused(auth, tok, consent)
       THEN auth' = "AUTH_OK" /\ UNCHANGED <<tracking, menu, hub>>
       ELSE Start(auth, tok, consent)
    /\ \/ UNCHANGED uploads
       \/ refresh.for # {"ipc"} /\ uploads' = uploads \cup {refresh.user}
    /\ refresh' = NoRefresh
    /\ UNCHANGED <<expiries, login, refused, latched, choices>>

\* A slip: whoever else waits is trusted to end the session.
ArmedUnlessShared == IF refresh.for = {"auto"} THEN expiries + 1 ELSE expiries

\* The catch of handleAuthExpired: the session has REFRESH_TIMEOUT_MS left.
Armed == IF "auto" \in refresh.for THEN expiries + 1 ELSE expiries

\* registerBackendDownFailure, so many times.
CountFailures(n) ==
    /\ failures' = IF failures + n > MaxFailures THEN MaxFailures ELSE failures + n
    /\ throttled' = (throttled \/ (n > 0 /\ failures + n >= MaxFailures))

\* The answer refuses ("refused"), or is a 5xx ("down"), or there is none
\* ("unreachable").  At startup a 5xx is counted a second time and leaves the
\* session as it is; any other failure ends it.
RefreshFails(outcome) ==
    LET startup == "startup" \in refresh.for
    IN
    /\ Refreshing
    /\ CountFailures((IF outcome = "refused" THEN 0 ELSE 1)
                     + (IF startup /\ outcome = "down" THEN 1 ELSE 0))
    /\ expiries' = Armed
    /\ refused' = (refused \/ "ipc" \in refresh.for)
    /\ IF startup /\ outcome # "down"
       THEN FinishSessionExpired
       ELSE UNCHANGED <<token, cookie, profile, auth, tracking, hub, menu, handled>>
    /\ refresh' = NoRefresh
    /\ UNCHANGED <<login, uploads, latched, choices>>

\* The IPC agent-refresh-failed, which the renderer sends on such a failure.
AgentRefreshFailed ==
    /\ refused
    /\ refused' = FALSE
    /\ FinishSessionExpired
    /\ UNCHANGED <<expiries, refresh, login, uploads, latched, backend, choices>>

ThrottleEnds ==
    /\ throttled
    /\ throttled' = FALSE
    /\ UNCHANGED <<token, cookie, profile, auth, tracking, hub, menu, handled, expiries,
                   failures, requests, choices>>

-----------------------------------------------------------------------------
(* Expiry.                                                                 *)

TokenExpires ==
    /\ token.usable
    /\ token' = [token EXCEPT !.usable = FALSE]
    /\ UNCHANGED <<cookie, profile, auth, tracking, hub, menu, handled, expiries,
                   requests, backend, choices>>

\* A flush of the capture queue needs a usable token at its start only.
UploadStarts ==
    /\ token.usable
    /\ uploads' = uploads \cup {token.user}
    /\ UNCHANGED <<token, cookie, profile, auth, tracking, hub, menu, handled, expiries,
                   refresh, login, refused, latched, backend, choices>>

UploadEnds(u) ==
    /\ u \in uploads
    /\ uploads' = uploads \ {u}
    /\ UNCHANGED <<token, cookie, profile, auth, tracking, hub, menu, handled, expiries,
                   refresh, login, refused, latched, backend, choices>>

\* Slips: whoever waits for the timer is not waited for; tracking runs on.
ExpireUntimed ==
    /\ handled' = TRUE /\ auth' = "AUTH_EXPIRED" /\ StopTracking
    /\ IF CannotRefresh THEN UNCHANGED <<expiries, refresh>>
       ELSE Join("auto") /\ UNCHANGED expiries
ExpireUnstopped ==
    /\ handled' = TRUE /\ auth' = "AUTH_EXPIRED" /\ UNCHANGED tracking
    /\ IF throttled \/ CannotRefresh
       THEN expiries' = expiries + 1 /\ UNCHANGED refresh
       ELSE Join("auto") /\ UNCHANGED expiries

\* handleAuthExpired, when it has not been handled yet.  The tray menu is not rebuilt.
Expire ==
    /\ handled' = TRUE
    /\ auth' = "AUTH_EXPIRED"
    /\ StopTracking
    /\ IF throttled \/ CannotRefresh
       THEN expiries' = expiries + 1 /\ UNCHANGED refresh
       ELSE Join("auto") /\ UNCHANGED expiries

\* A 401.  The queue of an account reports one in the life of the process, and
\* a report is dropped while another is being handled.
UploadUnauthorized(u) ==
    /\ u \in uploads
    /\ uploads' = uploads \ {u}
    /\ latched' = latched \cup {u}
    /\ IF u \in latched \/ handled
       THEN UNCHANGED <<handled, auth, tracking, expiries, refresh>>
       ELSE Expire
    /\ UNCHANGED <<token, cookie, profile, hub, menu, login, refused, backend, choices>>

\* The timer ends the session unless it was renewed meanwhile.
ExpiryTimerFires ==
    /\ expiries > 0
    /\ expiries' = expiries - 1
    /\ IF handled
       THEN FinishSessionExpired
       ELSE UNCHANGED <<token, cookie, profile, auth, tracking, hub, menu, handled>>
    /\ UNCHANGED <<requests, backend, choices>>

-----------------------------------------------------------------------------
(* The user, the system and the tracking interval.                         *)

\* The IPC set-privacy-settings.  Its `tracking` is the null that main.js held
\* when it registered the handlers, so that switching off stops nothing.
SetPrivacy(enabled) ==
    /\ consent' = enabled
    /\ IF enabled
       THEN Start(auth, token, TRUE) /\ paused' = FALSE
       ELSE UNCHANGED <<auth, tracking, hub, menu, paused>>
    /\ UNCHANGED <<token, cookie, profile, handled, expiries, requests, backend>>

\* The IPC set-tracking-interval, through restartTrackingIfActive.
SetInterval ==
    /\ tracking
    /\ tracking' = (token # NoToken)
    /\ UNCHANGED <<token, cookie, profile, auth, hub, menu, handled, expiries, requests,
                   backend, choices>>

\* The tray's "Mettre en pause" or "Reprendre le suivi", whichever was drawn.
TrayClick ==
    /\ paused' = menu
    /\ IF menu
       THEN StopTracking /\ menu' = FALSE /\ UNCHANGED <<auth, hub>>
       ELSE IF Refused(auth, token, consent)
            THEN menu' = tracking /\ UNCHANGED <<auth, tracking, hub>>
            ELSE Start(auth, token, consent)
    /\ UNCHANGED <<token, cookie, profile, consent, handled, expiries, requests, backend>>

\* lock-screen, suspend
Leave ==
    /\ StopTracking
    /\ UNCHANGED <<token, cookie, profile, auth, hub, menu, handled, expiries, requests,
                   backend, choices>>

\* unlock-screen, resume
Return ==
    /\ Start(auth, token, consent)
    /\ UNCHANGED <<token, cookie, profile, handled, expiries, requests, backend, choices>>

\* A tick of the interval that finds no token.
TickStops ==
    /\ tracking /\ token = NoToken
    /\ StopTracking
    /\ UNCHANGED <<token, cookie, profile, auth, hub, menu, handled, expiries, requests,
                   backend, choices>>

-----------------------------------------------------------------------------
(* runWhenReady, after a quit or a crash at any point.                     *)

\* What any start begins with: the store is all that is left.
Boot ==
    /\ failures' = 0 /\ throttled' = FALSE
    /\ handled' = FALSE
    /\ expiries' = 0
    /\ login' = NoUser
    /\ refused' = FALSE
    /\ uploads' = {}
    /\ latched' = {}
    /\ paused' = FALSE
    /\ UNCHANGED consent

RestartSignedIn ==
    /\ token.usable
    /\ Boot
    /\ auth' = "AUTH_OK"
    /\ tracking' = consent
    /\ menu' = consent
    /\ hub' = IF consent THEN token.user ELSE NoUser
    /\ refresh' = NoRefresh
    /\ UNCHANGED <<token, cookie, profile>>

RestartWithCookie ==
    /\ ~token.usable /\ HasRefreshCookie
    /\ Boot
    /\ token' = NoToken
    /\ profile' \in {profile, NoUser}
    /\ auth' = "STARTING"
    /\ tracking' = FALSE /\ menu' = FALSE /\ hub' = NoUser
    /\ refresh' = [user |-> cookie, for |-> {"startup"}]
    /\ UNCHANGED cookie

RestartSignedOut ==
    /\ ~token.usable /\ ~HasRefreshCookie
    /\ Boot
    /\ token' = NoToken /\ profile' = NoUser
    /\ auth' = "AUTH_EXPIRED"
    /\ tracking' = FALSE /\ menu' = FALSE /\ hub' = NoUser
    /\ refresh' = NoRefresh
    /\ UNCHANGED cookie

\* The first start on this machine: finishSessionExpired("no auth").
Init ==
    /\ token = NoToken
    /\ cookie = NoUser
    /\ profile = NoUser
    /\ auth = "AUTH_EXPIRED"
    /\ tracking = FALSE
    /\ consent = TRUE
    /\ hub = NoUser
    /\ menu = FALSE
    /\ handled = FALSE
    /\ expiries = 0
    /\ failures = 0
    /\ throttled = FALSE
    /\ refresh = NoRefresh
    /\ login = NoUser
    /\ refused = FALSE
    /\ uploads = {}
    /\ latched = {}
    /\ paused = FALSE

RefreshAnswered ==
    \/ RefreshSucceeds
    \/ \E outcome \in {"refused", "down", "unreachable"} : RefreshFails(outcome)

Request ==
    \/ Logout
    \/ \E u \in Users : Login(u) \/ ProtocolAuth(u)
    \/ \E tok \in [user : Users, usable : BOOLEAN] :
         StartTracking(tok) \/ AgentTokenRefreshed(tok)
    \/ RestoreToken
    \/ RefreshToken
    \/ AgentRefreshFailed
    \/ \E enabled \in BOOLEAN : SetPrivacy(enabled)
    \/ SetInterval
    \/ TrayClick

Event ==
    \/ LoginSucceeds
    \/ LoginFails
    \/ RefreshAnswered
    \/ ThrottleEnds
    \/ TokenExpires
    \/ UploadStarts
    \/ \E u \in Users : UploadEnds(u) \/ UploadUnauthorized(u)
    \/ ExpiryTimerFires
    \/ Leave
    \/ Return
    \/ TickStops

Next == Request \/ Event \/ RestartSignedIn \/ RestartWithCookie \/ RestartSignedOut

Spec == Init /\ [][Next]_vars

(* Requests are cut off after ten seconds, and timers that are due fire.   *)
Fairness ==
    /\ WF_vars(RefreshAnswered)
    /\ WF_vars(ExpiryTimerFires)
    /\ WF_vars(TickStops)

FairSpec == Spec /\ Fairness

-----------------------------------------------------------------------------
(* Properties *)

\* Every variable has its type.
TypeOK ==
    /\ token \in Tokens
    /\ cookie \in Users \cup {NoUser}
    /\ profile \in Users \cup {NoUser}
    /\ auth \in States
    /\ tracking \in BOOLEAN
    /\ consent \in BOOLEAN
    /\ hub \in Users \cup {NoUser}
    /\ menu \in BOOLEAN
    /\ handled \in BOOLEAN
    /\ expiries \in Nat
    /\ failures \in 0 .. MaxFailures
    /\ throttled \in BOOLEAN
    /\ refresh \in Refreshes \cup {NoRefresh}
    /\ login \in Users \cup {NoUser}
    /\ refused \in BOOLEAN
    /\ uploads \subseteq Users
    /\ latched \subseteq Users
    /\ paused \in BOOLEAN

\* Whoever starts tracking, and whatever answer comes late, nothing is tracked
\* in an expired session.
ExpiredIsStopped == auth = "AUTH_EXPIRED" => ~tracking

\* The timer that ends a session finds its flag up only in an expired one: a
\* session that was renewed since is never purged by it.
OnlyExpiredIsEnded == handled => auth = "AUTH_EXPIRED"

\* The tray never says that tracking is paused while it runs, although most of
\* what stops and starts it does not rebuild the menu.
TrackingIsShown == tracking => menu

\* While tracking runs there is a hub socket: only a purge closes it.
TrackingHasHub == tracking => hub # NoUser

\* No refresh is out while the backend is spared, however many ask for one.
BackendIsSpared == throttled => ~Refreshing

\* The backend is spared only after so many failures with no success between.
SparingIsEarned == throttled => failures = MaxFailures

\* An expiry being handled always has a refresh to wait for or a timer that
\* will end the session.
ExpiryIsPending == handled => expiries > 0 \/ "auto" \in refresh.for

\* Tracking starts only with the user's consent, with a token and in a session
\* that has not expired, whichever of the dozen ways to start it was taken.
StartsInOrder ==
    ~tracking /\ tracking' => consent' /\ token' # NoToken /\ auth' = "AUTH_OK"

TrackingStartsInOrder == [][StartsInOrder]_vars

\* An expired session opens again only with a usable token, or in a start that
\* has a cookie to ask for one with.
OpensWithToken ==
    auth = "AUTH_EXPIRED" /\ auth' # "AUTH_EXPIRED" =>
        token'.usable \/ (auth' = "STARTING" /\ "startup" \in refresh'.for)

SessionOpensWithToken == [][OpensWithToken]_vars

\* A session that met a 401 is renewed or ended in the end.
ExpiryIsSettled == handled ~> ~handled

-----------------------------------------------------------------------------
(* What the documents of the repository say and the code does not keep: TLC *)
(* finds each of these violated when a configuration names it (README, 3). *)

\* "Le suivi demarre avec le jeton d'acces courant" (README, after a login).
LoginStartsTracking == [][LoginSucceeds /\ consent => tracking']_vars

\* "En cas d'erreur d'authentification, le processus principal tente un
\* renouvellement" (README): whichever request is out, a 401 to it would be acted
\* on, unless an earlier one still is.
RefusalsAreHeard == \A u \in uploads : u \in latched => handled

\* "pause si aucun jeton valide n'est disponible" (README).
UnusableTokenPauses == (tracking /\ ~token.usable) ~> (~tracking \/ token.usable)

\* "arret immediat du suivi apres retrait du consentement"
\* (docs/DESKTOP_AGENT_V1_CLOSURE.md).
ConsentWithdrawalStops == [][SetPrivacy(FALSE) => ~tracking']_vars

\* "aucune disponibilite technique ne vaut autorisation implicite de suivi"
\* (docs/DESKTOP_AGENT_V1_CLOSURE.md): the pause holds until the user resumes,
\* signs in or allows tracking anew.
PauseHolds == paused => ~tracking

\* "nettoyage complet au logout" (docs/distribution/RELEASE_READINESS.md): the
\* answer to a refresh sent with a cookie since purged brings nothing back.
LogoutIsFinal == [][RefreshSucceeds /\ cookie = NoUser => token' = NoToken]_vars

\* "reprise explicite apres indisponibilite du serveur"
\* (docs/DESKTOP_AGENT_V1_CLOSURE.md): a backend out of reach costs no session.
OutageKeepsSession == [][RefreshFails("unreachable") => cookie' = cookie]_vars

\* "purge ou changement de portee lors d'un changement de session"
\* (docs/DESKTOP_AGENT_V1_CLOSURE.md): the hub is that of the session.
HubFollowsSession == hub # NoUser /\ token # NoToken => hub = token.user

\* "stockage et files isoles par utilisateur et organisation"
\* (docs/DESKTOP_AGENT_V1_CLOSURE.md): the stored profile is the token's.
ProfileFollowsSession == profile # NoUser /\ token # NoToken => profile = token.user
=============================================================================
