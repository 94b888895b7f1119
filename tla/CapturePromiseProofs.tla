------------------------ MODULE CapturePromiseProofs ------------------------
(***************************************************************************)
(* Proof that the offline capture queue implements CapturePromise, for     *)
(* every number of accounts, captures, flushes and faults.                 *)
(*                                                                         *)
(* A capture that push accepted and that is not settled is in some file    *)
(* (AcceptedIsDurable).  No step brings an entry of one account to another *)
(* (Moves), hence the file is always that of the same account, and a step  *)
(* changes what is owed only by what it settles.                           *)
(***************************************************************************)
EXTENDS CaptureQueueProofs

(* Every capture anything remembers is one that was made.                  *)
Numbered ==
    /\ \A a \in Scopes : Ids(Holdings(a)) \subseteq 1 .. pushes /\ received[a] \subseteq 1 .. pushes
    /\ accepted \subseteq 1 .. pushes
    /\ evicted \subseteq 1 .. pushes
    /\ dropped \subseteq 1 .. pushes

ApartInv == AccountsAreApart /\ Numbered

(* The contract of a step that touches the queue of s: it moves nothing    *)
(* between accounts, and what is new is the capture it numbers.            *)
Moves(s) ==
    /\ \A a \in Scopes : \A e \in Holdings(a)' :
           e \in Holdings(a) \/ (a = s /\ e.id = pushes + 1 /\ pushes' = pushes + 1)
    /\ pushes' \in {pushes, pushes + 1}

-----------------------------------------------------------------------------
(* Accounts are apart.                                                     *)

\* Where an entry may be, before a step and after it.
LEMMA HeldBefore ==
    ASSUME NEW a, NEW e
    PROVE  e \in Holdings(a) <=>
             \/ e \in items[a] \/ e \in disk[a]
             \/ \E f \in Flushers : /\ flush[f].pc # "idle" /\ flush[f].scope = a
                                    /\ e \in flush[f].ideas \cup flush[f].batch
BY DEF Holdings

LEMMA HeldAfter ==
    ASSUME NEW a, NEW e
    PROVE  e \in Holdings(a)' <=>
             \/ e \in items'[a] \/ e \in disk'[a]
             \/ \E f \in Flushers : /\ flush'[f].pc # "idle" /\ flush'[f].scope = a
                                    /\ e \in flush'[f].ideas \cup flush'[f].batch
BY DEF Holdings

\* A step that keeps the contract keeps the accounts apart.
LEMMA MovesKeepApart ==
    ASSUME TypeOK, AccountsAreApart, Numbered, NEW s \in Scopes, Moves(s)
    PROVE  /\ AccountsAreApart'
           /\ \A a \in Scopes : Ids(Holdings(a))' \subseteq 1 .. pushes'
<1>0. pushes \in Nat /\ pushes' \in {pushes, pushes + 1}
  BY DEF TypeOK, Moves
<1>1. ASSUME NEW a \in Scopes, NEW id \in Ids(Holdings(a))'
      PROVE  id \in Ids(Holdings(a)) \/ (a = s /\ id = pushes + 1 /\ pushes' = pushes + 1)
  <2>1. PICK e \in Holdings(a)' : id = e.id
    BY <1>1 DEF Ids
  <2> QED
    BY <2>1 DEF Moves, Ids
<1>2. \A a \in Scopes : \A id \in Ids(Holdings(a)) : id \in Nat /\ id # pushes + 1
  BY <1>0 DEF Numbered
<1>3. ASSUME NEW a \in Scopes, NEW b \in Scopes, a # b, NEW id \in Ids(Holdings(a))', id \in Ids(Holdings(b))'
      PROVE  FALSE
  BY <1>1, <1>2, <1>3 DEF AccountsAreApart
<1>4. AccountsAreApart'
  BY <1>3 DEF AccountsAreApart
<1>5. \A a \in Scopes : Ids(Holdings(a))' \subseteq 1 .. pushes'
  BY <1>0, <1>1 DEF Numbered
<1> QED
  BY <1>4, <1>5

\* A load, and the flush it may be for, take entries from the file or the memory.
LEMMA LoadMoves ==
    ASSUME TypeOK, NEW s \in Scopes, NEW mem, Load(s, mem), mem \in LoadResults(s),
           items' = [items EXCEPT ![s] = mem], UNCHANGED <<disk, pushes>>,
           \A f \in Flushers :
              \/ flush'[f] = flush[f]
              \/ flush'[f].scope = s /\ flush'[f].ideas \cup flush'[f].batch \subseteq mem
    PROVE  Moves(s)
<1>1. mem \subseteq items[s] \cup disk[s]
  BY LoadTypes
<1>2. items'[s] = mem /\ \A a \in Scopes \ {s} : items'[a] = items[a]
  BY DEF TypeOK
<1>3. mem \subseteq Holdings(s)
  BY <1>1 DEF Holdings
<1>4. ASSUME NEW a \in Scopes, NEW e \in Holdings(a)'
      PROVE  e \in Holdings(a)
  <2>1. CASE e \in items'[a]
    BY <1>2, <1>3, <2>1 DEF Holdings
  <2>2. CASE e \in disk'[a]
    BY <2>2 DEF Holdings
  <2>3. ASSUME NEW f \in Flushers, flush'[f].pc # "idle", flush'[f].scope = a,
               e \in flush'[f].ideas \cup flush'[f].batch
        PROVE  e \in Holdings(a)
    BY <1>3, <2>3, HeldBefore
  <2> QED
    BY <1>4, <2>1, <2>2, <2>3, HeldAfter
<1> QED
  BY <1>4 DEF Moves

\* A flush that starts holds what it was given.
LEMMA LaunchHolds ==
    ASSUME TypeOK, NEW f \in Flushers, NEW s, NEW mem, NEW timed, Launch(f, s, mem, timed)
    PROVE  \A g \in Flushers :
              \/ flush'[g] = flush[g]
              \/ flush'[g].scope = s /\ flush'[g].ideas \cup flush'[g].batch \subseteq mem
<1>1. CASE mem = {} \/ ~token.usable
  BY <1>1 DEF Launch
<1>2. CASE mem # {} /\ token.usable
  <2> DEFINE n == Start(s, Snapshot(mem), timed)
  <2>1. n.scope = s /\ n.ideas \cup n.batch \subseteq mem
    BY <1>2, SnapshotSubset DEF Start, AwaitNext, Pending, Ideas
  <2>2. flush' = [flush EXCEPT ![f] = n]
    BY <1>2 DEF Launch
  <2> HIDE DEF n
  <2> QED
    BY <2>1, <2>2 DEF TypeOK
<1> QED
  BY <1>1, <1>2

\* pushCaptureForLater adds its capture to the queue of its account.
LEMMA PushMoves ==
    ASSUME TypeOK, NEW kind \in Kinds, NEW size \in Sizes, NEW saved \in BOOLEAN,
           Push(kind, size, saved)
    PROVE  Moves(token.scope)
<1> DEFINE s == token.scope
           entry == [id |-> pushes + 1, kind |-> kind, size |-> size]
<1>1. s \in Scopes
  BY DEF Push, TypeOK, Tokens
<1>2. PICK mem \in LoadResults(s) :
         /\ Load(s, mem)
         /\ items' = [items EXCEPT ![s] = Trimmed(mem \cup {entry})]
         /\ Save(s, Trimmed(mem \cup {entry}), saved)
  BY DEF Push
<1> DEFINE kept == Trimmed(mem \cup {entry})
<1>3. kept \subseteq mem \cup {entry}
  BY TrimmedSubset
<1>4. mem \subseteq Holdings(s)
  BY <1>1, <1>2, LoadTypes DEF Holdings
<1>5. flush' = flush /\ pushes' = pushes + 1
  BY DEF Push
<1> HIDE DEF kept
<1>6. items'[s] = kept /\ \A a \in Scopes \ {s} : items'[a] = items[a]
  BY <1>1, <1>2 DEF TypeOK, kept
<1>7. \A a \in Scopes : disk'[a] = disk[a] \/ (a = s /\ disk'[a] = kept)
  BY <1>1, <1>2 DEF TypeOK, Save, kept
<1>8. kept \subseteq Holdings(s) \cup {entry}
  BY <1>3, <1>4
<1>9. entry.id = pushes + 1
  OBVIOUS
<1> HIDE DEF entry
<1>10. ASSUME NEW a \in Scopes, NEW e \in Holdings(a)'
       PROVE  e \in Holdings(a) \/ (a = s /\ e.id = pushes + 1)
  <2>1. CASE e \in items'[a]
    BY <1>6, <1>8, <1>9, <2>1 DEF Holdings
  <2>2. CASE e \in disk'[a]
    BY <1>7, <1>8, <1>9, <2>2 DEF Holdings
  <2>3. CASE e \notin items'[a] /\ e \notin disk'[a]
    BY <1>5, <1>10, <2>3, HeldBefore, HeldAfter
  <2> QED
    BY <2>1, <2>2, <2>3
<1> QED
  BY <1>5, <1>10 DEF Moves

\* An answer takes away, from the queue and from what its flush has to send.
LEMMA AfterRequestMoves ==
    ASSUME TypeOK, NEW f \in Flushers, flush[f].pc # "idle", NEW acked, AfterRequest(f, acked)
    PROVE  Moves(flush[f].scope)
<1> DEFINE s == flush[f].scope
<1>0. s \in Scopes /\ pushes' = pushes
  BY FlushingScope DEF AfterRequest
<1>1. ASSUME NEW ideas, NEW batch, Proceed(f, ideas, batch, acked),
             ideas \subseteq flush[f].ideas, batch \subseteq flush[f].batch
      PROVE  \A a \in Scopes : \A e \in Holdings(a)' : e \in Holdings(a)
  <2>1. CASE ideas \cup batch # {}
    <3> DEFINE n == AwaitNext(s, flush[f].as, flush[f].timed, ideas, batch, acked)
    <3>1. flush' = [flush EXCEPT ![f] = n] /\ UNCHANGED <<items, disk>>
      BY <1>1, <2>1 DEF Proceed
    <3>2. n.scope = s /\ n.ideas = ideas /\ n.batch = batch
      BY DEF AwaitNext, Pending
    <3> HIDE DEF n
    <3>3. flush'[f] = n /\ \A g \in Flushers \ {f} : flush'[g] = flush[g]
      BY <3>1 DEF TypeOK
    <3>4. ASSUME NEW a \in Scopes, NEW e, NEW g \in Flushers, flush'[g].pc # "idle",
                 flush'[g].scope = a, e \in flush'[g].ideas \cup flush'[g].batch
          PROVE  e \in Holdings(a)
      <4>1. CASE g = f
        BY <1>1, <3>2, <3>3, <3>4, <4>1, HeldBefore
      <4>2. CASE g # f
        BY <3>3, <3>4, <4>2, HeldBefore
      <4> QED
        BY <4>1, <4>2
    <3> QED
      BY <3>1, <3>4, HeldBefore, HeldAfter
  <2>2. CASE ideas \cup batch = {}
    <3>1. PICK saved \in BOOLEAN : Complete(f, acked, saved)
      BY <1>1, <2>2 DEF Proceed
    <3> DEFINE left == Left(s, acked)
    <3>2. /\ items' = [items EXCEPT ![s] = left]
          /\ Save(s, left, saved)
          /\ flush' = [flush EXCEPT ![f] = Idle]
      BY <3>1 DEF Complete
    <3>3. left \subseteq items[s]
      BY DEF Left
    <3> HIDE DEF left
    <3>4. \A a \in Scopes : items'[a] \subseteq items[a] /\ disk'[a] \subseteq items[a] \cup disk[a]
      BY <1>0, <3>2, <3>3 DEF TypeOK, Save
    <3>5. \A g \in Flushers : flush'[g].pc # "idle" => flush'[g] = flush[g]
      BY <3>2 DEF TypeOK, Idle
    <3> QED
      BY <3>4, <3>5, HeldBefore, HeldAfter
  <2> QED
    BY <2>1, <2>2
<1>2. \A a \in Scopes : \A e \in Holdings(a)' : e \in Holdings(a)
  <2>1. CASE flush[f].pc = "idea"
    BY <1>1, <2>1 DEF AfterRequest
  <2>2. CASE flush[f].pc # "idea"
    BY <1>1, <2>2 DEF AfterRequest
  <2> QED
    BY <2>1, <2>2
<1> QED
  BY <1>0, <1>2 DEF Moves
\* The backend's work moves nothing.
LEMMA ServeMoves ==
    ASSUME TypeOK, NEW f \in Flushers, Serve(f)
    PROVE  /\ \A a \in Scopes : Holdings(a)' = Holdings(a)
           /\ Moves(flush[f].scope)
           /\ Request(f) \subseteq Holdings(flush[f].scope)
           /\ flush[f].scope \in Scopes /\ flush[f].as \in Scopes
<1>1. PICK taken \in SUBSET Request(f) :
         flush' = [flush EXCEPT ![f].served = TRUE, ![f].taken = taken]
  BY DEF Serve
<1>2. flush[f] \in FlushRecord /\ flush[f].pc # "idle" /\ Request(f) \subseteq flush[f].ideas \cup flush[f].batch
  BY RequestSubset DEF Serve, TypeOK, FlushOK, FlushRecord
<1>3. \A g \in Flushers : /\ flush'[g].pc = flush[g].pc
                          /\ flush'[g].pc # "idle" => /\ flush'[g].scope = flush[g].scope
                                                      /\ flush'[g].ideas = flush[g].ideas
                                                      /\ flush'[g].batch = flush[g].batch
  BY <1>1, <1>2 DEF TypeOK, FlushRecord
<1>4. UNCHANGED <<items, disk, pushes>>
  BY DEF Serve
<1>5. \A a \in Scopes : \A e : e \in Holdings(a)' <=> e \in Holdings(a)
  BY <1>3, <1>4, HeldBefore, HeldAfter
<1>6. Request(f) \subseteq Holdings(flush[f].scope)
  BY <1>2, HeldBefore
<1> QED
  BY <1>2, <1>4, <1>5, <1>6, FlushingScope DEF Moves

\* The contract of a step of the queue of s, as far as it concerns what is
\* numbered and what is settled: at most its own captures.
Settles(s) ==
    /\ Moves(s)
    /\ SettledStays
    /\ accepted' = accepted \/ (accepted' = accepted \cup {pushes + 1} /\ pushes' = pushes + 1)
    /\ evicted \subseteq evicted' /\ dropped \subseteq dropped'
    /\ \A id \in evicted' \cup dropped' :
          \/ id \in evicted \cup dropped
          \/ id \in Ids(Holdings(s))
          \/ id = pushes + 1 /\ pushes' = pushes + 1
    /\ received' = received

\* Such a step numbers nothing but its own capture.
LEMMA SettlesKeepsNumbers ==
    ASSUME TypeOK, ApartInv, NEW s \in Scopes, Settles(s)
    PROVE  ApartInv'
<1>0. pushes \in Nat /\ pushes' \in {pushes, pushes + 1}
  BY DEF TypeOK, Settles, Moves
<1>1. AccountsAreApart' /\ \A a \in Scopes : Ids(Holdings(a))' \subseteq 1 .. pushes'
  BY MovesKeepApart DEF ApartInv, Settles
<1>2. 1 .. pushes \subseteq 1 .. pushes' /\ (pushes' = pushes + 1 => pushes + 1 \in 1 .. pushes')
  BY <1>0
<1>3. accepted' \subseteq 1 .. pushes'
  <2>1. accepted \subseteq 1 .. pushes
    BY DEF ApartInv, Numbered
  <2> QED
    BY <1>2, <2>1 DEF Settles
<1>4. ASSUME NEW id \in evicted' \cup dropped'
      PROVE  id \in 1 .. pushes'
  <2>1. \/ id \in evicted \cup dropped
        \/ id \in Ids(Holdings(s))
        \/ id = pushes + 1 /\ pushes' = pushes + 1
    BY <1>4 DEF Settles
  <2>2. evicted \cup dropped \cup Ids(Holdings(s)) \subseteq 1 .. pushes
    BY DEF ApartInv, Numbered
  <2> QED
    BY <1>2, <2>1, <2>2
<1>5. \A a \in Scopes : received'[a] \subseteq 1 .. pushes'
  BY <1>2 DEF Settles, ApartInv, Numbered
<1> QED
  BY <1>1, <1>3, <1>4, <1>5 DEF ApartInv, Numbered

\* A load may drop captures of its own file only.
LEMMA LoadSettles ==
    ASSUME TypeOK, NEW s \in Scopes, NEW mem, Load(s, mem)
    PROVE  /\ dropped \subseteq dropped'
           /\ \A id \in dropped' : id \in dropped \/ id \in Ids(Holdings(s))
BY DEF Load, Holdings, Ids

LEMMA PushSettles ==
    ASSUME TypeOK, NEW kind \in Kinds, NEW size \in Sizes, NEW saved \in BOOLEAN,
           Push(kind, size, saved)
    PROVE  Settles(token.scope) /\ token.scope \in Scopes
<1> DEFINE s == token.scope
           entry == [id |-> pushes + 1, kind |-> kind, size |-> size]
<1>1. s \in Scopes
  BY DEF Push, TypeOK, Tokens
<1>2. PICK mem \in LoadResults(s) :
         /\ Load(s, mem)
         /\ evicted' = evicted \cup Ids((mem \cup {entry}) \ Trimmed(mem \cup {entry}))
  BY DEF Push
<1>3. Moves(s)
  BY PushMoves
<1>4. mem \subseteq Holdings(s)
  BY <1>1, <1>2, LoadTypes DEF Holdings
<1>5. received' = received /\ pushes' = pushes + 1
  BY DEF Push
<1>6. accepted' = accepted \/ accepted' = accepted \cup {pushes + 1}
  BY DEF Push
<1>7. \A id \in evicted' : id \in evicted \/ id \in Ids(Holdings(s)) \/ id = pushes + 1
  BY <1>2, <1>4 DEF Ids
<1>8. /\ dropped \subseteq dropped'
      /\ \A id \in dropped' : id \in dropped \/ id \in Ids(Holdings(s))
  BY <1>1, <1>2, LoadSettles
<1>9. SettledStays
  BY <1>2, <1>5, <1>8, SettledGrows
<1> QED
  BY <1>1, <1>2, <1>3, <1>5, <1>6, <1>7, <1>8, <1>9 DEF Settles

\* getCaptureQueueSummary, and a flush on demand as it starts.
LEMMA LoadStepSettles ==
    ASSUME TypeOK, NEW s \in Scopes, NEW mem, Load(s, mem), mem \in LoadResults(s),
           items' = [items EXCEPT ![s] = mem],
           UNCHANGED <<disk, received, pushes, accepted, evicted>>,
           \A f \in Flushers :
              \/ flush'[f] = flush[f]
              \/ flush'[f].scope = s /\ flush'[f].ideas \cup flush'[f].batch \subseteq mem
    PROVE  Settles(s)
<1>1. Moves(s)
  BY LoadMoves
<1>2. /\ dropped \subseteq dropped'
      /\ \A id \in dropped' : id \in dropped \/ id \in Ids(Holdings(s))
  BY LoadSettles
<1>3. SettledStays
  BY <1>2, SettledGrows
<1> QED
  BY <1>1, <1>2, <1>3 DEF Settles

\* A step that leaves all that is settled alone.
LEMMA QuietStepSettles ==
    ASSUME NEW s, Moves(s), UNCHANGED <<received, accepted, evicted, dropped>>
    PROVE  Settles(s)
BY SettledGrows DEF Settles

(* Every step of the program is one of the queue of some account, one of   *)
(* the backend, or one that frees what a process held.                     *)
LEMMA Steps ==
    ASSUME TypeOK, [Next]_vars
    PROVE  \/ \E s \in Scopes : Settles(s)
           \/ \E f \in Flushers : Serve(f)
           \/ /\ \A a \in Scopes : \A e \in Holdings(a)' : e \in Holdings(a)
              /\ UNCHANGED <<disk, received, pushes, accepted, evicted, dropped>>
<1>1. ASSUME NEW kind \in Kinds, NEW size \in Sizes, NEW saved \in BOOLEAN, Push(kind, size, saved)
      PROVE  \E s \in Scopes : Settles(s)
  BY <1>1, PushSettles
<1>2. CASE Summary
  <2> DEFINE s == token.scope
  <2>1. s \in Scopes
    BY <1>2 DEF Summary, TypeOK, Tokens
  <2>2. PICK mem \in LoadResults(s) : Load(s, mem) /\ items' = [items EXCEPT ![s] = mem]
    BY <1>2 DEF Summary
  <2>3. UNCHANGED <<flush, disk, received, pushes, accepted, evicted>>
    BY <1>2 DEF Summary
  <2> QED
    BY <2>1, <2>2, <2>3, LoadStepSettles
<1>3. ASSUME NEW f \in Flushers, FlushNow(f)
      PROVE  \E s \in Scopes : Settles(s)
  <2> DEFINE s == token.scope
  <2>1. s \in Scopes
    BY <1>3 DEF FlushNow, TypeOK, Tokens
  <2>2. PICK mem \in LoadResults(s) :
           Load(s, mem) /\ items' = [items EXCEPT ![s] = mem] /\ Launch(f, s, mem, FALSE)
    BY <1>3 DEF FlushNow
  <2>3. UNCHANGED <<disk, received, pushes, accepted, evicted>>
    BY <1>3 DEF FlushNow
  <2>4. \A g \in Flushers :
           \/ flush'[g] = flush[g]
           \/ flush'[g].scope = s /\ flush'[g].ideas \cup flush'[g].batch \subseteq mem
    BY <2>2, LaunchHolds
  <2> QED
    BY <2>1, <2>2, <2>3, <2>4, LoadStepSettles
<1>4. ASSUME NEW s \in Scopes, NEW f \in Flushers, TimerFires(s, f)
      PROVE  Settles(s)
  <2>1. Launch(f, s, items[s], TRUE)
        /\ UNCHANGED <<items, disk, received, pushes, accepted, evicted, dropped>>
    BY <1>4 DEF TimerFires
  <2>2. \A g \in Flushers :
           \/ flush'[g] = flush[g]
           \/ flush'[g].scope = s /\ flush'[g].ideas \cup flush'[g].batch \subseteq items[s]
    BY <2>1, LaunchHolds
  <2>3. ASSUME NEW a \in Scopes, NEW e, NEW g \in Flushers, flush'[g].pc # "idle",
               flush'[g].scope = a, e \in flush'[g].ideas \cup flush'[g].batch
        PROVE  e \in Holdings(a)
    BY <2>2, <2>3, HeldBefore
  <2>4. Moves(s)
    BY <2>1, <2>3, HeldBefore, HeldAfter DEF Moves
  <2> QED
    BY <2>1, <2>4, QuietStepSettles
<1>5. ASSUME NEW f \in Flushers, Answer(f)
      PROVE  \E s \in Scopes : Settles(s)
  <2>1. flush[f].pc # "idle" /\ \E acked : AfterRequest(f, acked)
    BY <1>5 DEF Answer, Accepted, PartlyAccepted, Unanswered, Unauthorized
  <2>2. Moves(flush[f].scope) /\ flush[f].scope \in Scopes
    BY <2>1, AfterRequestMoves, FlushingScope
  <2>3. UNCHANGED <<received, accepted, evicted, dropped>>
    BY <2>1 DEF AfterRequest
  <2> QED
    BY <2>2, <2>3, QuietStepSettles
<1>6. CASE ChangeToken \/ UNCHANGED vars
  BY <1>6 DEF ChangeToken, vars, Holdings
<1>7. CASE Restart
  <2>1. /\ \A a \in Scopes : items'[a] = {}
        /\ \A g \in Flushers : flush'[g].pc = "idle"
        /\ UNCHANGED <<disk, received, pushes, accepted, evicted, dropped>>
    BY <1>7 DEF Restart, Idle
  <2> QED
    BY <2>1, HeldBefore, HeldAfter
<1> QED
  BY <1>1, <1>2, <1>3, <1>4, <1>5, <1>6, <1>7 DEF Next, Work, Capture

\* Nothing mixes the captures of two accounts, and what is remembered was made.
THEOREM Apart == Spec => []ApartInv
<1>1. Init => ApartInv
  <2> SUFFICES ASSUME Init PROVE ApartInv
    OBVIOUS
  <2>1. \A a \in Scopes : items[a] = {} /\ disk[a] = {} /\ received[a] = {}
    BY DEF Init
  <2>2. \A f \in Flushers : flush[f].pc = "idle"
    BY DEF Init, Idle
  <2>3. \A a \in Scopes : Ids(Holdings(a)) = {}
    BY <2>1, <2>2, HeldBefore DEF Ids
  <2> QED
    BY <2>1, <2>3 DEF Init, ApartInv, AccountsAreApart, Numbered
<1>2. TypeOK /\ ApartInv /\ [Next]_vars => ApartInv'
  <2> SUFFICES ASSUME TypeOK, ApartInv, [Next]_vars
               PROVE  ApartInv'
    OBVIOUS
  <2>1. ASSUME NEW s \in Scopes, Settles(s)
        PROVE  ApartInv'
    BY <2>1, SettlesKeepsNumbers
  <2>2. ASSUME NEW f \in Flushers, Serve(f)
        PROVE  ApartInv'
    <3>1. /\ \A a \in Scopes : Holdings(a)' = Holdings(a)
          /\ Request(f) \subseteq Holdings(flush[f].scope)
          /\ flush[f].scope \in Scopes /\ flush[f].as \in Scopes
      BY <2>2, ServeMoves
    <3>2. PICK taken \in SUBSET Request(f) : received' = [received EXCEPT ![flush[f].as] = @ \cup Ids(taken)]
      BY <2>2 DEF Serve
    <3>3. UNCHANGED <<pushes, accepted, evicted, dropped>>
      BY <2>2 DEF Serve
    <3>4. \A id \in Ids(taken) : id \in 1 .. pushes
      BY <3>1, <3>2 DEF ApartInv, Numbered, Ids
    <3>5. \A a \in Scopes : received'[a] \subseteq received[a] \cup Ids(taken)
      BY <3>2 DEF TypeOK
    <3>6. \A a \in Scopes : Ids(Holdings(a))' = Ids(Holdings(a))
      BY <3>1 DEF Ids
    <3> QED
      BY <3>3, <3>4, <3>5, <3>6 DEF ApartInv, AccountsAreApart, Numbered
  <2>3. CASE /\ \A a \in Scopes : \A e \in Holdings(a)' : e \in Holdings(a)
             /\ UNCHANGED <<disk, received, pushes, accepted, evicted, dropped>>
    <3>1. \A a \in Scopes : Ids(Holdings(a))' \subseteq Ids(Holdings(a))
      BY <2>3 DEF Ids
    <3> QED
      BY <2>3, <3>1 DEF ApartInv, AccountsAreApart, Numbered
  <2> QED
    BY <2>1, <2>2, <2>3, Steps
<1> QED
  BY <1>1, <1>2, Typing, PTL DEF Spec

\* Whoever is signed in while a flush runs, and whatever is written late.
THEOREM ApartAccounts == Spec => []AccountsAreApart
BY Apart, PTL DEF ApartInv
-----------------------------------------------------------------------------
(* The promise.                                                            *)

\* What is in the file of an account, and what in its queue as a whole.
LEMMA FileIsHeld ==
    ASSUME NEW a \in Scopes
    PROVE  /\ Ids(disk[a]) \subseteq Ids(Holdings(a))
           /\ Ids(disk'[a]) \subseteq Ids(Holdings(a))'
BY DEF Holdings, Ids

\* No step moves a capture that is still owed from one file to another.
LEMMA Home ==
    ASSUME TypeOK, ApartInv, AcceptedIsDurable, AcceptedIsDurable',
           SettledStays, accepted \subseteq accepted',
           \A a \in Scopes : \A e \in Holdings(a)' : e \in Holdings(a) \/ e.id = pushes + 1,
           NEW id \in accepted, ~Settled(id)', NEW a \in Scopes
    PROVE  ~Settled(id) /\ (id \in Ids(disk[a]) <=> id \in Ids(disk'[a]))
<1>1. ~Settled(id)
  BY DEF SettledStays
<1>2. PICK b \in Scopes : id \in Ids(disk[b])
  BY <1>1 DEF AcceptedIsDurable
<1>3. PICK c \in Scopes : id \in Ids(disk'[c])
  BY DEF AcceptedIsDurable
<1>4. id # pushes + 1
  BY DEF ApartInv, Numbered, TypeOK
<1>5. ASSUME NEW d \in Scopes, id \in Ids(Holdings(d))'
      PROVE  id \in Ids(Holdings(d))
  BY <1>4, <1>5 DEF Ids
<1>6. \A d, e \in Scopes : id \in Ids(Holdings(d)) /\ id \in Ids(Holdings(e)) => d = e
  BY DEF ApartInv, AccountsAreApart
<1>7. id \in Ids(Holdings(b)) /\ id \in Ids(Holdings(c))
  BY <1>2, <1>3, <1>5, FileIsHeld
<1>8. b = c
  BY <1>6, <1>7
<1>9. ASSUME id \in Ids(disk[a])
      PROVE  a = b
  BY <1>6, <1>7, <1>9, FileIsHeld
<1>10. ASSUME id \in Ids(disk'[a])
       PROVE  a = b
  BY <1>5, <1>6, <1>7, <1>10, FileIsHeld
<1> QED
  BY <1>1, <1>2, <1>3, <1>8, <1>9, <1>10

\* What is owed, before a step and after it.
LEMMA OwedBefore ==
    ASSUME NEW a \in Scopes
    PROVE  /\ Owed[a] = {id \in accepted \cap Ids(disk[a]) : ~Settled(id)}
           /\ Owed'[a] = {id \in accepted' \cap Ids(disk'[a]) : ~Settled(id)'}
BY DEF Owed

\* A step of the queue of one account changes what is owed to it by the capture
\* it takes and by what it settles, and changes nothing else.
LEMMA SettlesOwed ==
    ASSUME TypeOK, ApartInv, AcceptedIsDurable, AcceptedIsDurable', NEW s \in Scopes, Settles(s),
           NEW gone, gone = {id \in Owed[s] \cup (accepted' \ accepted) : Settled(id)'}
    PROVE  /\ Owed' = [Owed EXCEPT ![s] = (Owed[s] \cup (accepted' \ accepted)) \ gone]
           /\ Recorded' = Recorded
           /\ Forgone' = Forgone \cup gone
<1>1. /\ SettledStays /\ accepted \subseteq accepted' /\ received' = received
      /\ \A id \in accepted' \ accepted : id = pushes + 1 /\ pushes' = pushes + 1
      /\ \A a \in Scopes : \A e \in Holdings(a)' : e \in Holdings(a) \/ (a = s /\ e.id = pushes + 1)
  BY DEF Settles, Moves
<1>2. \A id \in accepted, a \in Scopes :
         ~Settled(id)' => ~Settled(id) /\ (id \in Ids(disk[a]) <=> id \in Ids(disk'[a]))
  BY <1>1, Home
<1>3. /\ pushes + 1 \notin accepted \cup evicted \cup dropped
      /\ \A a \in Scopes : pushes + 1 \notin received[a] /\ pushes + 1 \notin Ids(Holdings(a))
  <2>1. pushes \in Nat /\ pushes + 1 \notin 1 .. pushes
    BY DEF TypeOK
  <2> QED
    BY <2>1 DEF ApartInv, Numbered
<1>4. ASSUME NEW a \in Scopes, pushes + 1 \in Ids(disk'[a])
      PROVE  a = s
  <2>1. PICK e \in Holdings(a)' : e.id = pushes + 1
    BY <1>4, FileIsHeld DEF Ids
  <2>2. e \in Holdings(a) => pushes + 1 \in Ids(Holdings(a))
    BY <2>1 DEF Ids
  <2> QED
    BY <1>1, <1>3, <2>1, <2>2
<1>5. ASSUME NEW a \in Scopes \ {s}
      PROVE  Owed'[a] = Owed[a]
  <2>1. ASSUME NEW id \in Owed[a]
        PROVE  id \in Owed'[a]
    <3>1. id \in accepted /\ id \in Ids(disk[a]) /\ ~Settled(id)
      BY <2>1, OwedBefore
    <3>2. id # pushes + 1 /\ id \notin Ids(Holdings(s))
      BY <1>3, <3>1, FileIsHeld DEF ApartInv, AccountsAreApart
    <3>3. id \notin evicted' \cup dropped'
      BY <3>1, <3>2 DEF Settles, Settled
    <3>4. ~Settled(id)'
      BY <1>1, <3>1, <3>3 DEF Settled
    <3> QED
      BY <1>1, <1>2, <3>1, <3>4, OwedBefore
  <2>2. ASSUME NEW id \in Owed'[a]
        PROVE  id \in Owed[a]
    <3>1. id \in accepted' /\ id \in Ids(disk'[a]) /\ ~Settled(id)'
      BY <2>2, OwedBefore
    <3>2. id \in accepted
      BY <1>1, <1>4, <3>1
    <3> QED
      BY <1>2, <3>1, <3>2, OwedBefore
  <2> QED
    BY <2>1, <2>2
<1>6. Owed'[s] = (Owed[s] \cup (accepted' \ accepted)) \ gone
  <2>1. ASSUME NEW id \in Owed'[s]
        PROVE  id \in Owed[s] \cup (accepted' \ accepted) /\ id \notin gone
    <3>1. id \in accepted' /\ id \in Ids(disk'[s]) /\ ~Settled(id)'
      BY <2>1, OwedBefore
    <3> QED
      BY <1>2, <3>1, OwedBefore
  <2>2. ASSUME NEW id \in Owed[s] \cup (accepted' \ accepted), id \notin gone
        PROVE  id \in Owed'[s]
    <3>1. ~Settled(id)'
      BY <2>2
    <3>2. CASE id \in Owed[s]
      <4>1. id \in accepted /\ id \in Ids(disk[s])
        BY <3>2, OwedBefore
      <4> QED
        BY <1>1, <1>2, <3>1, <4>1, OwedBefore
    <3>3. CASE id \in accepted' \ accepted
      <4>1. PICK a \in Scopes : id \in Ids(disk'[a])
        BY <3>1, <3>3 DEF AcceptedIsDurable
      <4>2. a = s
        BY <1>1, <1>4, <3>3, <4>1
      <4> QED
        BY <3>1, <3>3, <4>1, <4>2, OwedBefore
    <3> QED
      BY <2>2, <3>2, <3>3
  <2> QED
    BY <2>1, <2>2
<1>7. Owed' = [Owed EXCEPT ![s] = (Owed[s] \cup (accepted' \ accepted)) \ gone]
  <2>1. Owed = [a \in Scopes |-> Owed[a]] /\ Owed' = [a \in Scopes |-> Owed'[a]]
    BY DEF Owed
  <2> QED
    BY <1>5, <1>6, <2>1
<1>8. Recorded' = Recorded
  BY <1>1, <1>3 DEF Recorded
<1>9. ASSUME NEW id \in Forgone \cup gone
      PROVE  id \in Forgone'
  <2>1. CASE id \in Forgone
    BY <1>1, <1>8, <2>1 DEF Forgone, Settles
  <2>2. CASE id \in gone
    <3>1. id \in accepted' /\ Settled(id)' /\ ~(\E a \in Scopes : id \in received[a])
      BY <1>1, <1>3, <2>2, OwedBefore DEF Settled
    <3>2. id \in evicted' \cup dropped'
      BY <1>1, <3>1 DEF Settled
    <3>3. id \notin Recorded'
      BY <1>1, <3>1 DEF Recorded
    <3> QED
      BY <3>1, <3>2, <3>3 DEF Forgone
  <2> QED
    BY <1>9, <2>1, <2>2
<1>10. ASSUME NEW id \in Forgone'
       PROVE  id \in Forgone \cup gone
  <2>1. id \in accepted' /\ id \in evicted' \cup dropped' /\ id \notin Recorded
    BY <1>8, <1>10 DEF Forgone
  <2>2. Settled(id)'
    BY <2>1 DEF Settled
  <2>3. CASE id \in accepted' \ accepted
    BY <2>2, <2>3
  <2>4. CASE id \in accepted /\ id \in evicted \cup dropped
    BY <2>1, <2>4 DEF Forgone
  <2>5. CASE id \in accepted /\ id \notin evicted \cup dropped
    <3>1. ~Settled(id)
      BY <2>1, <2>5 DEF Settled, Recorded
    <3>2. PICK a \in Scopes : id \in Ids(disk[a])
      BY <2>5, <3>1 DEF AcceptedIsDurable
    <3>3. id \in Ids(Holdings(s))
      BY <1>3, <2>1, <2>5 DEF Settles
    <3>4. a = s
      BY <3>2, <3>3, FileIsHeld DEF ApartInv, AccountsAreApart
    <3> QED
      BY <2>2, <2>5, <3>1, <3>2, <3>4, OwedBefore
  <2> QED
    BY <2>1, <2>3, <2>4, <2>5
<1>11. Forgone' = Forgone \cup gone
  BY <1>9, <1>10
<1> QED
  BY <1>7, <1>8, <1>11

\* Everything taken, in the sense of the promise, was accepted.
LEMMA TakenIsAccepted == Promise!Taken \subseteq accepted
BY OwedBefore DEF Promise!Taken, Recorded, Forgone

PromiseStep == [Promise!Next]_(Promise!promiseVars)

\* So it is the taking of a capture, the loss of some, or nothing.
LEMMA SettlesPromise ==
    ASSUME TypeOK, ApartInv, AcceptedIsDurable, TypeOK', AcceptedIsDurable', NEW s \in Scopes, Settles(s)
    PROVE  PromiseStep
<1> DEFINE new == accepted' \ accepted
           gone == {id \in Owed[s] \cup new : Settled(id)'}
<1>1. /\ Owed' = [Owed EXCEPT ![s] = (Owed[s] \cup new) \ gone]
      /\ Recorded' = Recorded
      /\ Forgone' = Forgone \cup gone
  BY SettlesOwed
<1>2. Owed = [a \in Scopes |-> Owed[a]]
  BY DEF Owed
<1>3. gone \subseteq Owed[s] \cup new
  OBVIOUS
<1> HIDE DEF gone
<1>4. CASE new = {} /\ gone = {}
  <2>1. Owed' = Owed
    BY <1>1, <1>2, <1>4
  <2>2. Forgone' = Forgone
    BY <1>1, <1>4
  <2> QED
    BY <1>1, <2>1, <2>2 DEF PromiseStep, Promise!promiseVars
<1>5. CASE new = {} /\ gone # {}
  <2>0. /\ gone \in (SUBSET Owed[s]) \ {{}} /\ Owed[s] # {}
        /\ Owed' = [Owed EXCEPT ![s] = Owed[s] \ gone]
    BY <1>1, <1>3, <1>5
  <2>1. Promise!Forgo(s)
    BY <1>1, <2>0 DEF Promise!Forgo
  <2> QED
    BY <2>1 DEF PromiseStep, Promise!Next
<1>6. CASE new # {}
  <2>1. new = {pushes + 1} /\ pushes' = pushes + 1 /\ pushes + 1 \notin accepted
    BY <1>6 DEF Settles
  <2>2. pushes + 1 \in 1 .. MaxPushes
    BY <2>1 DEF TypeOK
  <2>3. pushes + 1 \notin Promise!Taken
    BY <2>1, TakenIsAccepted
  <2>4. Promise!Take(s, pushes + 1)
    BY <1>1, <1>3, <2>1, <2>3 DEF Promise!Take
  <2> QED
    BY <2>2, <2>4 DEF PromiseStep, Promise!Next
<1> QED
  BY <1>4, <1>5, <1>6

\* What the backend processes is handed over by one account.
LEMMA ServePromise ==
    ASSUME TypeOK, ApartInv, AcceptedIsDurable, NEW f \in Flushers, Serve(f)
    PROVE  PromiseStep
<1> DEFINE s == flush[f].scope
<1>1. PICK taken \in SUBSET Request(f) : received' = [received EXCEPT ![flush[f].as] = @ \cup Ids(taken)]
  BY DEF Serve
<1>2. Request(f) \subseteq Holdings(s) /\ s \in Scopes /\ flush[f].as \in Scopes
  BY ServeMoves
<1>3. UNCHANGED <<disk, accepted, evicted, dropped>>
  BY DEF Serve
<1> DEFINE sent == {id \in accepted \cap Ids(taken) : id \notin Recorded}
<1>4. ASSUME NEW id
      PROVE  (\E a \in Scopes : id \in received'[a]) <=>
                (\E a \in Scopes : id \in received[a]) \/ id \in Ids(taken)
  <2>1. \A a \in Scopes : received'[a] = IF a = flush[f].as THEN received[a] \cup Ids(taken) ELSE received[a]
    BY <1>1 DEF TypeOK
  <2> QED
    BY <1>2, <2>1
<1>5. Recorded' = Recorded \cup sent
  <2>1. \A id : id \in Recorded <=> id \in accepted /\ \E a \in Scopes : id \in received[a]
    BY DEF Recorded
  <2>2. \A id : id \in Recorded' <=> id \in accepted /\ \E a \in Scopes : id \in received'[a]
    BY <1>3 DEF Recorded
  <2>3. \A id : id \in Recorded' <=> id \in Recorded \/ id \in sent
    BY <1>4, <2>1, <2>2
  <2> QED
    BY <2>3
<1>6. Forgone' = Forgone \ sent
  BY <1>3, <1>5 DEF Forgone
<1>7. ASSUME NEW id
      PROVE  Settled(id)' <=> Settled(id) \/ id \in Ids(taken)
  BY <1>3, <1>4 DEF Settled
<1>8. sent \subseteq Owed[s] \cup Forgone
  <2> SUFFICES ASSUME NEW id \in sent, id \notin Forgone
               PROVE  id \in Owed[s]
    OBVIOUS
  <2>1. ~Settled(id)
    BY DEF Settled, Forgone, Recorded
  <2>2. PICK a \in Scopes : id \in Ids(disk[a])
    BY <2>1 DEF AcceptedIsDurable
  <2>3. id \in Ids(Holdings(s))
    BY <1>2 DEF Ids
  <2>4. a = s
    BY <1>2, <2>2, <2>3, FileIsHeld DEF ApartInv, AccountsAreApart
  <2> QED
    BY <1>2, <2>1, <2>2, <2>4, OwedBefore
<1>9. \A a \in Scopes : Owed'[a] = Owed[a] \ sent
  <2> SUFFICES ASSUME NEW a \in Scopes PROVE Owed'[a] = Owed[a] \ sent
    OBVIOUS
  <2>1. \A id \in accepted : ~Settled(id) => (id \in sent <=> id \in Ids(taken))
    BY DEF Settled, Recorded
  <2>2. Owed'[a] = {id \in accepted \cap Ids(disk[a]) : ~Settled(id) /\ id \notin Ids(taken)}
    BY <1>3, <1>7, OwedBefore
  <2> QED
    BY <2>1, <2>2, OwedBefore
<1>10. \A a \in Scopes \ {s} : Owed[a] \cap sent = {}
  <2> SUFFICES ASSUME NEW a \in Scopes \ {s}, NEW id \in Owed[a], id \in sent
               PROVE  FALSE
    OBVIOUS
  <2>1. id \in Ids(Holdings(a))
    BY OwedBefore, FileIsHeld
  <2>2. id \in Ids(Holdings(s))
    BY <1>2 DEF Ids
  <2> QED
    BY <1>2, <2>1, <2>2 DEF ApartInv, AccountsAreApart
<1> HIDE DEF sent, s
<1>11. Owed' = [Owed EXCEPT ![s] = Owed[s] \ sent]
  <2>1. Owed = [a \in Scopes |-> Owed[a]] /\ Owed' = [a \in Scopes |-> Owed'[a]]
    BY DEF Owed
  <2> QED
    BY <1>9, <1>10, <2>1
<1>12. CASE sent = {}
  <2>1. Owed = [a \in Scopes |-> Owed[a]]
    BY DEF Owed
  <2>2. Owed' = Owed
    BY <1>11, <1>12, <2>1
  <2>3. Recorded' = Recorded /\ Forgone' = Forgone
    BY <1>5, <1>6, <1>12
  <2> QED
    BY <2>2, <2>3 DEF PromiseStep, Promise!promiseVars
<1>13. CASE sent # {}
  <2>0. sent \in (SUBSET (Owed[s] \cup Forgone)) \ {{}}
    BY <1>8, <1>13
  <2>1. Promise!HandOver(s)
    BY <1>5, <1>6, <1>11, <2>0 DEF Promise!HandOver
  <2> QED
    BY <1>2, <2>1 DEF PromiseStep, Promise!Next, s
<1> QED
  BY <1>12, <1>13

\* The queue implements CapturePromise: crashes, lost answers, failed writes and
\* flushes that overlap change nothing of what is owed.
THEOREM Implements == Spec => KeepsPromise
<1>1. Init => Promise!Init
  <2> SUFFICES ASSUME Init PROVE Promise!Init
    OBVIOUS
  <2>1. accepted = {}
    BY DEF Init
  <2>2. Recorded = {} /\ Forgone = {}
    BY <2>1 DEF Recorded, Forgone
  <2>3. Owed = [a \in Scopes |-> {}]
    BY <2>1 DEF Owed
  <2> QED
    BY <2>2, <2>3 DEF Promise!Init
<1>2. /\ TypeOK /\ ApartInv /\ AcceptedIsDurable /\ [Next]_vars
      /\ TypeOK' /\ AcceptedIsDurable'
      => [Promise!Next]_(Promise!promiseVars)
  <2> SUFFICES ASSUME TypeOK, ApartInv, AcceptedIsDurable, [Next]_vars, TypeOK', AcceptedIsDurable'
               PROVE  PromiseStep
    BY DEF PromiseStep
  <2>1. CASE /\ \A a \in Scopes : \A e \in Holdings(a)' : e \in Holdings(a)
             /\ UNCHANGED <<disk, received, pushes, accepted, evicted, dropped>>
    <3>1. \A id : Settled(id)' <=> Settled(id)
      BY <2>1 DEF Settled
    <3>2. Owed' = Owed
      BY <2>1, <3>1 DEF Owed
    <3>3. Recorded' = Recorded /\ Forgone' = Forgone
      BY <2>1 DEF Recorded, Forgone
    <3> QED
      BY <3>2, <3>3 DEF PromiseStep, Promise!promiseVars
  <2> QED
    BY <2>1, Steps, SettlesPromise, ServePromise
<1> QED
  BY <1>1, <1>2, Typing, Apart, AcceptedSurvives, PTL DEF Spec, KeepsPromise, Promise!Spec
=============================================================================
