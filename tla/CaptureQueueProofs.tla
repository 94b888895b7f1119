------------------------- MODULE CaptureQueueProofs -------------------------
(***************************************************************************)
(* Proofs about the offline capture queue, for every number of accounts,   *)
(* flushes in progress, captures and faults, and every value of the        *)
(* limits.                                                                 *)
(***************************************************************************)
EXTENDS CaptureLimitsProofs

(* Every non-empty set of captures has an oldest one. *)
LEMMA OldestExists ==
    ASSUME NEW S \in SUBSET Entry, S # {}
    PROVE  Oldest(S) \in S /\ \A o \in S : Oldest(S).id <= o.id
<1> DEFINE ids == Ids(S)
<1>1. ids \subseteq Nat /\ ids # {}
  BY DEF Ids, Entry, Entries
<1>2. PICK m \in ids : \A n \in ids : m <= n
  BY <1>1, LeastNatural
<1>4. PICK e \in S : e.id = m
  BY DEF Ids
<1>5. \A o \in S : e.id <= o.id
  BY <1>2, <1>4 DEF Ids
<1> QED
  BY <1>4, <1>5 DEF Oldest

\* A flush takes entries of the queue only.
LEMMA SnapshotSubset ==
    ASSUME NEW S, S # {}
    PROVE  Snapshot(S) \subseteq S
BY DEF Snapshot

\* A flush of a queue that is not empty takes something: at least the oldest.
LEMMA SnapshotNonEmpty ==
    ASSUME NEW S \in SUBSET Entry, S # {}
    PROVE  Snapshot(S) # {}
<1> DEFINE first == Oldest(S)
<1>1. first \in S /\ \A o \in S : first.id <= o.id
  BY OldestExists
<1>2. \A o \in S : o.id \in Nat
  BY DEF Entry, Entries
<1>3. {o \in S : o.id < first.id} = {}
  BY <1>1, <1>2
<1>4. Cardinality({o \in S : o.id < first.id}) < BatchSize
  BY <1>3, FS_EmptySet, LimitsAssumption
<1> QED
  BY <1>1, <1>4 DEF Snapshot

-----------------------------------------------------------------------------
(* Type correctness. *)

\* The record of a flush that awaits its next answer is well typed.
LEMMA AwaitNextType ==
    ASSUME NEW s \in Scopes, NEW as \in Scopes, NEW timed \in BOOLEAN,
           NEW ideas \in SUBSET Entry, NEW batch \in SUBSET Entry, NEW acked \in SUBSET Nat
    PROVE  AwaitNext(s, as, timed, ideas, batch, acked) \in FlushRecord
BY DEF AwaitNext, Pending, FlushRecord

(* The part of the type invariant that says what a flusher may be doing.   *)
FlushOK(r) ==
    /\ r \in FlushRecord \cup {Idle}
    /\ r.pc = "idea" => r.ideas # {}
    /\ r.pc = "batch" => r.ideas = {} /\ r.batch # {}

\* Such a flush has something to send if anything remains.
LEMMA AwaitNextOK ==
    ASSUME NEW s \in Scopes, NEW as \in Scopes, NEW timed \in BOOLEAN,
           NEW ideas \in SUBSET Entry, NEW batch \in SUBSET Entry, NEW acked \in SUBSET Nat,
           ideas \cup batch # {}
    PROVE  FlushOK(AwaitNext(s, as, timed, ideas, batch, acked))
BY AwaitNextType DEF FlushOK, AwaitNext, Pending

\* An idle flusher is in order.
LEMMA IdleOK == FlushOK(Idle)
BY DEF FlushOK, Idle

\* What a request carries is part of what its flush has still to send.
LEMMA RequestSubset ==
    ASSUME NEW f \in Flushers, FlushOK(flush[f]), flush[f].pc # "idle"
    PROVE  /\ Request(f) \in SUBSET Entry
           /\ flush[f].pc = "idea" => Request(f) \subseteq flush[f].ideas
           /\ flush[f].pc = "batch" => Request(f) = flush[f].batch
           /\ flush[f] \in FlushRecord
<1>1. flush[f] \in FlushRecord /\ flush[f].pc \in {"idea", "batch"}
  BY DEF FlushOK, Idle, FlushRecord
<1>2. CASE flush[f].pc = "idea"
  <2>1. flush[f].ideas \in SUBSET Entry /\ flush[f].ideas # {}
    BY <1>1, <1>2 DEF FlushOK, FlushRecord
  <2>2. Oldest(flush[f].ideas) \in flush[f].ideas
    BY <2>1, OldestExists
  <2> QED
    BY <1>1, <1>2, <2>1, <2>2 DEF Request
<1>3. CASE flush[f].pc = "batch"
  BY <1>1, <1>3 DEF Request, FlushRecord
<1> QED
  BY <1>1, <1>2, <1>3

(* A flush either goes on to a request that has something to send, or it   *)
(* ends and leaves a subset of the memory.                                 *)
LEMMA AfterRequestTypes ==
    ASSUME TypeOK, NEW f \in Flushers, flush[f].pc # "idle",
           NEW acked \in SUBSET Nat, AfterRequest(f, acked)
    PROVE  /\ items' \in [Scopes -> SUBSET Entry]
           /\ timer' \in [Scopes -> BOOLEAN]
           /\ disk' \in [Scopes -> SUBSET Entry]
           /\ faults' \in 0 .. MaxFaults
           /\ flush' \in [Flushers -> FlushRecord \cup {Idle}]
           /\ \A g \in Flushers : FlushOK(flush'[g])
<1> DEFINE r == flush[f]
<1>0. /\ \A g \in Flushers : FlushOK(flush[g])
      /\ flush \in [Flushers -> FlushRecord \cup {Idle}]
  BY DEF TypeOK, FlushOK
<1>1. /\ r \in FlushRecord /\ Request(f) \in SUBSET Entry
      /\ r.pc \in {"idea", "batch"} /\ r.scope \in Scopes /\ r.as \in Scopes
      /\ r.timed \in BOOLEAN /\ r.ideas \in SUBSET Entry /\ r.batch \in SUBSET Entry
  BY <1>0, RequestSubset DEF FlushRecord
<1>2. ASSUME NEW ideas \in SUBSET Entry, NEW batch \in SUBSET Entry, Proceed(f, ideas, batch, acked)
      PROVE  /\ items' \in [Scopes -> SUBSET Entry]
             /\ timer' \in [Scopes -> BOOLEAN]
             /\ disk' \in [Scopes -> SUBSET Entry]
             /\ faults' \in 0 .. MaxFaults
             /\ flush' \in [Flushers -> FlushRecord \cup {Idle}]
             /\ \A g \in Flushers : FlushOK(flush'[g])
  <2>1. CASE ideas \cup batch # {}
    <3> DEFINE n == AwaitNext(r.scope, r.as, r.timed, ideas, batch, acked)
    <3>1. FlushOK(n) /\ n \in FlushRecord
      BY <1>1, <2>1, AwaitNextOK, AwaitNextType
    <3>2. flush' = [flush EXCEPT ![f] = n] /\ UNCHANGED <<items, timer, disk, faults>>
      BY <1>2, <2>1 DEF Proceed
    <3> HIDE DEF n
    <3>3. /\ flush' \in [Flushers -> FlushRecord \cup {Idle}]
          /\ \A g \in Flushers : FlushOK(flush'[g])
      BY <1>0, <3>1, <3>2
    <3> QED
      BY <3>2, <3>3 DEF TypeOK
  <2>2. CASE ideas \cup batch = {}
    <3>1. PICK saved \in BOOLEAN : Complete(f, acked, saved)
      BY <1>2, <2>2 DEF Proceed
    <3> DEFINE left == Left(r.scope, acked)
    <3>2. left \in SUBSET Entry
      BY <1>1 DEF Left, TypeOK
    <3>3. Rearmed(r.scope, left, acked, r.timed, saved) \in BOOLEAN
      BY <1>1 DEF Rearmed, TypeOK
    <3>4. /\ items' = [items EXCEPT ![r.scope] = left]
          /\ Save(r.scope, left, saved)
          /\ Fault(~saved)
          /\ timer' = [timer EXCEPT ![r.scope] = Rearmed(r.scope, left, acked, r.timed, saved)]
          /\ flush' = [flush EXCEPT ![f] = Idle]
      BY <3>1 DEF Complete
    <3> HIDE DEF left, r
    <3>5. items' \in [Scopes -> SUBSET Entry] /\ timer' \in [Scopes -> BOOLEAN]
      BY <1>1, <3>2, <3>3, <3>4 DEF TypeOK
    <3>6. disk' \in [Scopes -> SUBSET Entry]
      BY <1>1, <3>2, <3>4 DEF TypeOK, Save
    <3>7. faults' \in 0 .. MaxFaults
      BY <3>4, QueueAssumption DEF TypeOK, Fault
    <3>8. /\ flush' \in [Flushers -> FlushRecord \cup {Idle}]
          /\ \A g \in Flushers : FlushOK(flush'[g])
      BY <1>0, <3>4, IdleOK
    <3> QED
      BY <3>5, <3>6, <3>7, <3>8
  <2> QED
    BY <2>1, <2>2
<1>3. CASE r.pc = "idea"
  <2>1. Proceed(f, r.ideas \ Request(f), r.batch, acked)
    BY <1>3 DEF AfterRequest
  <2> QED
    BY <1>1, <1>2, <2>1
<1>4. CASE r.pc = "batch"
  <2>1. Proceed(f, {}, {}, acked)
    BY <1>4 DEF AfterRequest
  <2> QED
    BY <1>2, <2>1
<1> QED
  BY <1>1, <1>3, <1>4

\* Ids number the captures made so far.
LEMMA IdsType ==
    ASSUME NEW S \in SUBSET Entry
    PROVE  Ids(S) \subseteq 1 .. MaxPushes
BY DEF Ids, Entry, Entries

\* A load brings in what is in memory, or part of the file.
LEMMA LoadTypes ==
    ASSUME TypeOK, NEW s \in Scopes, NEW mem, Load(s, mem)
    PROVE  /\ mem \in SUBSET Entry
           /\ loaded[s] => mem = items[s]
           /\ ~loaded[s] => mem \subseteq disk[s]
           /\ loaded' \in [Scopes -> BOOLEAN]
           /\ dropped' \subseteq 1 .. MaxPushes
<1>0. items[s] \in SUBSET Entry /\ disk[s] \in SUBSET Entry
  BY DEF TypeOK
<1>1. loaded[s] => mem = items[s]
  BY DEF Load, LoadResults
<1>2. ~loaded[s] => mem \subseteq disk[s]
  BY DEF Load, LoadResults
<1>3. Ids(disk[s] \ mem) \subseteq 1 .. MaxPushes
  BY <1>0, IdsType
<1>4. dropped' \subseteq 1 .. MaxPushes
  BY <1>3 DEF Load, TypeOK
<1>5. loaded' \in [Scopes -> BOOLEAN]
  BY DEF Load, TypeOK
<1> QED
  BY <1>0, <1>1, <1>2, <1>4, <1>5

\* pushCaptureForLater keeps the types.
LEMMA PushTypes ==
    ASSUME TypeOK, NEW kind \in Kinds, NEW size \in Sizes, NEW saved \in BOOLEAN,
           Push(kind, size, saved)
    PROVE  TypeOK'
<1> DEFINE s == token.scope
           entry == [id |-> pushes + 1, kind |-> kind, size |-> size]
<1>1. s \in Scopes
  BY DEF Push, TypeOK, Tokens
<1>2. pushes' \in 0 .. MaxPushes /\ pushes + 1 \in 1 .. MaxPushes
  BY QueueAssumption DEF Push, TypeOK
<1>3. entry \in Entry /\ entry.id \in 1 .. MaxPushes
  BY <1>2 DEF Entry, Entries
<1>4. PICK mem \in LoadResults(s) :
         /\ Load(s, mem)
         /\ Fault(LostOnLoad(s, mem) \/ ~saved)
         /\ items' = [items EXCEPT ![s] = Trimmed(mem \cup {entry})]
         /\ evicted' = evicted \cup Ids((mem \cup {entry}) \ Trimmed(mem \cup {entry}))
         /\ Save(s, Trimmed(mem \cup {entry}), saved)
  BY DEF Push
<1> DEFINE kept == Trimmed(mem \cup {entry})
<1>5. /\ mem \in SUBSET Entry
      /\ loaded' \in [Scopes -> BOOLEAN] /\ dropped' \subseteq 1 .. MaxPushes
  BY <1>1, <1>4, LoadTypes
<1>6. kept \subseteq mem \cup {entry}
  BY TrimmedSubset
<1>7. kept \in SUBSET Entry /\ (mem \cup {entry}) \ kept \in SUBSET Entry
  BY <1>3, <1>5, <1>6
<1>8. Ids((mem \cup {entry}) \ kept) \subseteq 1 .. MaxPushes
  BY <1>7, IdsType
<1> HIDE DEF kept, entry, s
<1>9. items' \in [Scopes -> SUBSET Entry] /\ disk' \in [Scopes -> SUBSET Entry]
  BY <1>1, <1>4, <1>7 DEF TypeOK, Save, kept
<1>10. evicted' \subseteq 1 .. MaxPushes
  BY <1>4, <1>8 DEF TypeOK, kept
<1>11. faults' \in 0 .. MaxFaults
  BY <1>4, QueueAssumption DEF TypeOK, Fault
<1>12. accepted' \subseteq 1 .. MaxPushes
  BY <1>3 DEF TypeOK, Push, entry
<1>13. timer' \in [Scopes -> BOOLEAN]
  BY <1>1 DEF TypeOK, Push, s
<1>14. UNCHANGED <<token, latched, flush, received>>
  BY DEF Push
<1> QED
  BY <1>2, <1>5, <1>9, <1>10, <1>11, <1>12, <1>13, <1>14 DEF TypeOK

\* The start of a flush keeps the flushers in order.
LEMMA LaunchTypes ==
    ASSUME TypeOK, NEW f \in Flushers, NEW s \in Scopes, NEW mem \in SUBSET Entry,
           NEW timed \in BOOLEAN, Launch(f, s, mem, timed)
    PROVE  /\ flush' \in [Flushers -> FlushRecord \cup {Idle}]
           /\ \A g \in Flushers : FlushOK(flush'[g])
<1>0. /\ \A g \in Flushers : FlushOK(flush[g])
      /\ flush \in [Flushers -> FlushRecord \cup {Idle}]
  BY DEF TypeOK, FlushOK
<1>1. CASE mem = {} \/ ~token.usable
  BY <1>0, <1>1 DEF Launch
<1>2. CASE mem # {} /\ token.usable
  <2> DEFINE taken == Snapshot(mem)
             n == Start(s, taken, timed)
  <2>1. token.scope \in Scopes
    BY <1>2 DEF TypeOK, Tokens
  <2>2. taken \in SUBSET Entry /\ taken # {}
    BY <1>2, SnapshotSubset, SnapshotNonEmpty
  <2>3. Ideas(taken) \in SUBSET Entry /\ taken \ Ideas(taken) \in SUBSET Entry
    BY <2>2 DEF Ideas
  <2>4. Ideas(taken) \cup (taken \ Ideas(taken)) # {}
    BY <2>2 DEF Ideas
  <2>5. n \in FlushRecord /\ FlushOK(n)
    BY <2>1, <2>3, <2>4, AwaitNextType, AwaitNextOK DEF Start
  <2>6. flush' = [flush EXCEPT ![f] = n]
    BY <1>2 DEF Launch
  <2> HIDE DEF n
  <2> QED
    BY <1>0, <2>5, <2>6
<1> QED
  BY <1>1, <1>2

\* The type invariant holds in every reachable state.
THEOREM Typing == Spec => []TypeOK
<1>1. Init => TypeOK
  BY QueueAssumption DEF Init, TypeOK, Idle
<1>2. TypeOK /\ [Next]_vars => TypeOK'
  <2> SUFFICES ASSUME TypeOK, [Next]_vars
               PROVE  TypeOK'
    OBVIOUS
  <2>1. ASSUME NEW kind \in Kinds, NEW size \in Sizes, NEW saved \in BOOLEAN,
               Push(kind, size, saved)
        PROVE  TypeOK'
    BY <2>1, PushTypes
  <2>2. CASE Summary
    <3> DEFINE s == token.scope
    <3>1. s \in Scopes
      BY <2>2 DEF Summary, TypeOK, Tokens
    <3>2. PICK mem \in LoadResults(s) :
             Load(s, mem) /\ Fault(LostOnLoad(s, mem)) /\ items' = [items EXCEPT ![s] = mem]
      BY <2>2 DEF Summary
    <3>3. /\ mem \in SUBSET Entry
          /\ loaded' \in [Scopes -> BOOLEAN] /\ dropped' \subseteq 1 .. MaxPushes
      BY <3>1, <3>2, LoadTypes
    <3>4. items' \in [Scopes -> SUBSET Entry] /\ faults' \in 0 .. MaxFaults
      BY <3>1, <3>2, <3>3, QueueAssumption DEF TypeOK, Fault
    <3> QED
      BY <2>2, <3>3, <3>4 DEF Summary, TypeOK
  <2>3. ASSUME NEW f \in Flushers, FlushNow(f)
        PROVE  TypeOK'
    <3> DEFINE s == token.scope
    <3>1. s \in Scopes
      BY <2>3 DEF FlushNow, TypeOK, Tokens
    <3>2. PICK mem \in LoadResults(s) :
             /\ Load(s, mem) /\ Fault(LostOnLoad(s, mem))
             /\ items' = [items EXCEPT ![s] = mem]
             /\ Launch(f, s, mem, FALSE)
      BY <2>3 DEF FlushNow
    <3>3. /\ mem \in SUBSET Entry
          /\ loaded' \in [Scopes -> BOOLEAN] /\ dropped' \subseteq 1 .. MaxPushes
      BY <3>1, <3>2, LoadTypes
    <3>4. items' \in [Scopes -> SUBSET Entry] /\ faults' \in 0 .. MaxFaults
      BY <3>1, <3>2, <3>3, QueueAssumption DEF TypeOK, Fault
    <3>5. /\ flush' \in [Flushers -> FlushRecord \cup {Idle}]
          /\ \A g \in Flushers : FlushOK(flush'[g])
      BY <3>1, <3>2, <3>3, LaunchTypes
    <3> QED
      BY <2>3, <3>3, <3>4, <3>5 DEF FlushNow, TypeOK, FlushOK
  <2>4. ASSUME NEW s \in Scopes, NEW f \in Flushers, TimerFires(s, f)
        PROVE  TypeOK'
    <3>1. items[s] \in SUBSET Entry /\ Launch(f, s, items[s], TRUE)
      BY <2>4 DEF TimerFires, TypeOK
    <3>2. /\ flush' \in [Flushers -> FlushRecord \cup {Idle}]
          /\ \A g \in Flushers : FlushOK(flush'[g])
      BY <3>1, LaunchTypes
    <3> QED
      BY <2>4, <3>2 DEF TimerFires, TypeOK, FlushOK
  <2>5. ASSUME NEW f \in Flushers, NEW acked \in SUBSET Nat, flush[f].pc # "idle",
               AfterRequest(f, acked), latched' \in [Scopes -> BOOLEAN]
        PROVE  TypeOK'
    <3>1. /\ items' \in [Scopes -> SUBSET Entry] /\ timer' \in [Scopes -> BOOLEAN]
          /\ disk' \in [Scopes -> SUBSET Entry] /\ faults' \in 0 .. MaxFaults
          /\ flush' \in [Flushers -> FlushRecord \cup {Idle}]
          /\ \A g \in Flushers : FlushOK(flush'[g])
      BY <2>5, AfterRequestTypes
    <3> QED
      BY <2>5, <3>1 DEF AfterRequest, TypeOK, FlushOK
  <2>6. ASSUME NEW f \in Flushers, Answer(f)
        PROVE  TypeOK'
    <3>1. flush[f].pc # "idle"
      BY <2>6 DEF Answer, Accepted, PartlyAccepted, Unanswered, Unauthorized
    <3>2. /\ Request(f) \in SUBSET Entry /\ flush[f].acked \in SUBSET Nat
          /\ flush[f].scope \in Scopes
      BY <3>1, RequestSubset DEF TypeOK, FlushOK, FlushRecord
    <3>3. flush[f].acked \cup Ids(Request(f)) \in SUBSET Nat
      BY <3>2, IdsType
    <3>4. \/ AfterRequest(f, flush[f].acked \cup Ids(Request(f)))
          \/ AfterRequest(f, flush[f].acked)
      BY <2>6 DEF Answer, Accepted, PartlyAccepted, Unanswered, Unauthorized
    <3>5. latched' \in [Scopes -> BOOLEAN]
      BY <2>6, <3>2 DEF TypeOK, Answer, Accepted, PartlyAccepted, Unanswered, Unauthorized
    <3> QED
      BY <2>5, <3>1, <3>2, <3>3, <3>4, <3>5
  <2>7. ASSUME NEW f \in Flushers, Serve(f)
        PROVE  TypeOK'
    <3>1. PICK taken \in SUBSET Request(f) :
             /\ flush' = [flush EXCEPT ![f].served = TRUE, ![f].taken = taken]
             /\ received' = [received EXCEPT ![flush[f].as] = @ \cup Ids(taken)]
      BY <2>7 DEF Serve
    <3>2. flush[f] \in FlushRecord /\ taken \in SUBSET Entry
      BY <2>7, <3>1, RequestSubset DEF Serve, TypeOK, FlushOK
    <3>3. Ids(taken) \in SUBSET Nat /\ flush[f].as \in Scopes
      BY <3>2, IdsType DEF FlushRecord
    <3>4. received' \in [Scopes -> SUBSET Nat]
      BY <3>1, <3>3 DEF TypeOK
    <3>5. [flush[f] EXCEPT !.served = TRUE, !.taken = taken] \in FlushRecord
      BY <3>2 DEF FlushRecord
    <3>6. flush' \in [Flushers -> FlushRecord \cup {Idle}]
      BY <3>1, <3>5 DEF TypeOK
    <3>7. \A g \in Flushers : /\ flush'[g].pc = flush[g].pc
                              /\ flush'[g].pc # "idle" => /\ flush'[g].ideas = flush[g].ideas
                                                          /\ flush'[g].batch = flush[g].batch
      BY <3>1, <3>2 DEF TypeOK, FlushRecord
    <3> QED
      BY <2>7, <3>4, <3>6, <3>7 DEF Serve, TypeOK
  <2>8. CASE ChangeToken
    BY <2>8 DEF ChangeToken, TypeOK
  <2>9. CASE Restart
    BY <2>9 DEF Restart, TypeOK, Idle
  <2>10. CASE UNCHANGED vars
    BY <2>10 DEF vars, TypeOK
  <2> QED
    BY <2>1, <2>2, <2>3, <2>4, <2>6, <2>7, <2>8, <2>9, <2>10 DEF Next, Work, Capture
<1> QED
  BY <1>1, <1>2, PTL DEF Spec

-----------------------------------------------------------------------------
(* Durability.  A flush acknowledges only what the backend has recorded,   *)
(* so filtering by acknowledged id, trimming and loading remove from the   *)
(* memory only captures that are settled; and the file differs from the    *)
(* memory by settled captures only.  Then no write can forget one.         *)

(* A service with a timer or a flush has loaded its file.                  *)
ScheduledIsLoaded ==
    /\ \A s \in Scopes : timer[s] => loaded[s]
    /\ \A f \in Flushers : flush[f].pc # "idle" => loaded[flush[f].scope]

(* What a flush has acknowledged, and what its request is answered with,   *)
(* the backend has.                                                        *)
Confirmed ==
    \A f \in Flushers : flush[f].pc # "idle" =>
        flush[f].acked \cup Ids(flush[f].taken) \subseteq received[flush[f].as]

DurableInv ==
    /\ ScheduledIsLoaded
    /\ Confirmed
    /\ FileIsAccountedFor
    /\ AcceptedIsDurable

(* What the service of s knows before a step that may load its file. *)
Known(s) == IF loaded[s] THEN items[s] ELSE disk[s]

SettledStays == \A id : Settled(id) => Settled(id)'

\* What is settled stays so while evicted, dropped and received only grow.
LEMMA SettledGrows ==
    ASSUME evicted \subseteq evicted', dropped \subseteq dropped',
           \A s \in Scopes : received[s] \subseteq received'[s]
    PROVE  SettledStays
BY DEF SettledStays, Settled

(* The contract every step that changes a service's memory or file keeps.  *)
Rewrites(s) ==
    /\ \A a \in Scopes \ {s} : items'[a] = items[a] /\ disk'[a] = disk[a] /\ loaded'[a] = loaded[a]
    /\ loaded'[s]
    /\ \A e \in Known(s) : e \in items'[s] \/ Settled(e.id)'
    /\ disk'[s] = disk[s] \/ disk'[s] = items'[s]

\* A step that keeps the contract leaves every file accounted for, and takes
\* from a file only what is settled.
LEMMA RewriteKeepsFiles ==
    ASSUME NEW s \in Scopes, Rewrites(s), SettledStays, FileIsAccountedFor
    PROVE  /\ FileIsAccountedFor'
           /\ \A a \in Scopes : \A e \in disk[a] : e \in disk'[a] \/ Settled(e.id)'
<1>1. \A e \in disk[s] : e \in items'[s] \/ Settled(e.id)'
  BY DEF Rewrites, Known, SettledStays, FileIsAccountedFor
<1>2. ASSUME NEW a \in Scopes, loaded'[a], NEW e \in disk'[a]
      PROVE  e \in items'[a] \/ Settled(e.id)'
  <2>1. CASE a = s
    BY <1>1, <1>2, <2>1 DEF Rewrites
  <2>2. CASE a # s
    BY <1>2, <2>2 DEF Rewrites, SettledStays, FileIsAccountedFor
  <2> QED
    BY <2>1, <2>2
<1>3. ASSUME NEW a \in Scopes, NEW e \in disk[a]
      PROVE  e \in disk'[a] \/ Settled(e.id)'
  BY <1>1, <1>3 DEF Rewrites
<1> QED
  BY <1>2, <1>3 DEF FileIsAccountedFor

\* Then no accepted capture is lost.
LEMMA DurableFromFiles ==
    ASSUME SettledStays, AcceptedIsDurable,
           \A a \in Scopes : \A e \in disk[a] : e \in disk'[a] \/ Settled(e.id)',
           \A id \in accepted' \ accepted :
               Settled(id)' \/ \E a \in Scopes : id \in Ids(disk'[a])
    PROVE  AcceptedIsDurable'
<1> SUFFICES ASSUME NEW id \in accepted'
             PROVE  Settled(id)' \/ \E a \in Scopes : id \in Ids(disk'[a])
  BY DEF AcceptedIsDurable
<1>1. CASE id \in accepted
  <2>1. Settled(id) \/ \E a \in Scopes : \E e \in disk[a] : e.id = id
    BY <1>1 DEF AcceptedIsDurable, Ids
  <2> QED
    BY <2>1 DEF SettledStays, Ids
<1>2. CASE id \notin accepted
  BY <1>2
<1> QED
  BY <1>1, <1>2

(* Loading loses only what it lists as dropped. *)
LEMMA LoadKeeps ==
    ASSUME TypeOK, NEW s \in Scopes, NEW mem, Load(s, mem)
    PROVE  /\ \A e \in Known(s) : e \in mem \/ e.id \in dropped'
           /\ dropped \subseteq dropped'
           /\ loaded'[s]
           /\ \A a \in Scopes \ {s} : loaded'[a] = loaded[a]
<1>1. \A e \in Known(s) : e \in mem \/ e.id \in dropped'
  <2>1. CASE loaded[s]
    BY <2>1 DEF Known, Load, LoadResults
  <2>2. CASE ~loaded[s]
    BY <2>2 DEF Known, Load, Ids
  <2> QED
    BY <2>1, <2>2
<1>2. dropped \subseteq dropped'
  BY DEF Load
<1> QED
  BY <1>1, <1>2 DEF Load, TypeOK

\* A flush in progress runs for an account, under an account.
LEMMA FlushingScope ==
    ASSUME TypeOK
    PROVE  \A f \in Flushers : flush[f].pc # "idle" =>
               flush[f].scope \in Scopes /\ flush[f].as \in Scopes
BY RequestSubset DEF TypeOK, FlushOK, FlushRecord

\* pushCaptureForLater loses nothing.
LEMMA PushDurable ==
    ASSUME TypeOK, DurableInv, NEW kind \in Kinds, NEW size \in Sizes, NEW saved \in BOOLEAN,
           Push(kind, size, saved)
    PROVE  DurableInv'
<1> DEFINE s == token.scope
           entry == [id |-> pushes + 1, kind |-> kind, size |-> size]
<1>1. s \in Scopes
  BY DEF Push, TypeOK, Tokens
<1>2. PICK mem \in LoadResults(s) :
         /\ Load(s, mem)
         /\ items' = [items EXCEPT ![s] = Trimmed(mem \cup {entry})]
         /\ evicted' = evicted \cup Ids((mem \cup {entry}) \ Trimmed(mem \cup {entry}))
         /\ Save(s, Trimmed(mem \cup {entry}), saved)
  BY DEF Push
<1> DEFINE kept == Trimmed(mem \cup {entry})
<1>3. /\ \A e \in Known(s) : e \in mem \/ e.id \in dropped'
      /\ dropped \subseteq dropped' /\ loaded'[s]
      /\ \A a \in Scopes \ {s} : loaded'[a] = loaded[a]
  BY <1>1, <1>2, LoadKeeps
<1>4. UNCHANGED <<flush, received>> /\ evicted \subseteq evicted'
  BY <1>2 DEF Push
<1>5. SettledStays
  BY <1>3, <1>4, SettledGrows
<1>6. \A e \in mem \cup {entry} : e \in kept \/ e.id \in evicted'
  BY <1>2 DEF Ids
<1> HIDE DEF kept
<1>7. items'[s] = kept /\ \A a \in Scopes \ {s} : items'[a] = items[a]
  BY <1>1, <1>2 DEF TypeOK, kept
<1>8. /\ disk'[s] = IF saved THEN kept ELSE disk[s]
      /\ \A a \in Scopes \ {s} : disk'[a] = disk[a]
  BY <1>1, <1>2 DEF TypeOK, Save, kept
<1>9. \A e \in Known(s) : e \in items'[s] \/ Settled(e.id)'
  BY <1>3, <1>6, <1>7 DEF Settled
<1>10. Rewrites(s)
  BY <1>3, <1>7, <1>8, <1>9 DEF Rewrites
<1>11. /\ FileIsAccountedFor'
       /\ \A a \in Scopes : \A e \in disk[a] : e \in disk'[a] \/ Settled(e.id)'
  BY <1>1, <1>5, <1>10, RewriteKeepsFiles DEF DurableInv
<1>12. \A id \in accepted' \ accepted :
          Settled(id)' \/ \E a \in Scopes : id \in Ids(disk'[a])
  <2> SUFFICES ASSUME NEW id \in accepted' \ accepted
               PROVE  Settled(id)' \/ \E a \in Scopes : id \in Ids(disk'[a])
    OBVIOUS
  <2>1. saved /\ id = entry.id
    BY DEF Push
  <2>2. CASE entry \in kept
    BY <1>1, <1>8, <2>1, <2>2 DEF Ids
  <2>3. CASE entry \notin kept
    BY <1>6, <2>1, <2>3 DEF Settled
  <2> QED
    BY <2>2, <2>3
<1>13. AcceptedIsDurable'
  BY <1>5, <1>11, <1>12, DurableFromFiles DEF DurableInv
<1>14. Confirmed'
  BY <1>4 DEF DurableInv, Confirmed
<1>15. ScheduledIsLoaded'
  <2>1. \A a \in Scopes : loaded[a] => loaded'[a]
    BY <1>3
  <2>2. timer' = [timer EXCEPT ![s] = saved \/ timer[s]]
    BY DEF Push
  <2>3. \A a \in Scopes : timer'[a] => loaded'[a]
    BY <1>1, <1>3, <2>1, <2>2 DEF DurableInv, ScheduledIsLoaded, TypeOK
  <2>4. \A f \in Flushers : flush[f].pc # "idle" => flush[f].scope \in Scopes
    BY FlushingScope
  <2> QED
    BY <1>4, <2>1, <2>3, <2>4 DEF DurableInv, ScheduledIsLoaded
<1> QED
  BY <1>11, <1>13, <1>14, <1>15 DEF DurableInv

(* A step that at most loads a file and starts a flush. *)
LEMMA LoadDurable ==
    ASSUME TypeOK, DurableInv, NEW s \in Scopes, NEW mem, Load(s, mem),
           items' = [items EXCEPT ![s] = mem],
           UNCHANGED <<disk, received, accepted, evicted>>,
           Confirmed',
           ScheduledIsLoaded'
    PROVE  DurableInv'
<1>1. /\ \A e \in Known(s) : e \in mem \/ e.id \in dropped'
      /\ dropped \subseteq dropped' /\ loaded'[s]
      /\ \A a \in Scopes \ {s} : loaded'[a] = loaded[a]
  BY LoadKeeps
<1>2. SettledStays
  BY <1>1, SettledGrows
<1>3. items'[s] = mem /\ \A a \in Scopes \ {s} : items'[a] = items[a]
  BY DEF TypeOK
<1>4. \A e \in Known(s) : e \in items'[s] \/ Settled(e.id)'
  BY <1>1, <1>3 DEF Settled
<1>5. Rewrites(s)
  BY <1>1, <1>3, <1>4 DEF Rewrites
<1>6. FileIsAccountedFor'
  BY <1>2, <1>5, RewriteKeepsFiles DEF DurableInv
<1>7. AcceptedIsDurable'
  BY <1>2, DurableFromFiles DEF DurableInv
<1> QED
  BY <1>6, <1>7 DEF DurableInv

\* A flush starts with nothing acknowledged.
LEMMA LaunchAcknowledges ==
    ASSUME TypeOK, Confirmed, NEW f \in Flushers, NEW s, NEW mem, NEW timed,
           Launch(f, s, mem, timed), UNCHANGED received
    PROVE  Confirmed'
<1>1. \/ flush' = flush
      \/ flush' = [flush EXCEPT ![f] = Start(s, Snapshot(mem), timed)]
  BY DEF Launch
<1>2. /\ Start(s, Snapshot(mem), timed).acked = {}
      /\ Ids(Start(s, Snapshot(mem), timed).taken) = {}
  BY DEF Start, AwaitNext, Pending, Ids
<1> QED
  BY <1>1, <1>2 DEF Confirmed, TypeOK

\* The run after an answer loses nothing, if it acknowledges only what was received.
LEMMA AfterRequestDurable ==
    ASSUME TypeOK, DurableInv, NEW f \in Flushers, flush[f].pc # "idle",
           NEW acked \in SUBSET Nat, acked \subseteq received[flush[f].as],
           AfterRequest(f, acked)
    PROVE  DurableInv'
<1> DEFINE s == flush[f].scope
<1>0. s \in Scopes /\ flush[f].as \in Scopes
  BY RequestSubset DEF TypeOK, FlushOK, FlushRecord
<1>1. UNCHANGED <<loaded, received, accepted, evicted, dropped>>
  BY DEF AfterRequest
<1>2. SettledStays
  BY <1>1, SettledGrows
<1>3. ASSUME NEW ideas, NEW batch, Proceed(f, ideas, batch, acked)
      PROVE  DurableInv'
  <2>1. CASE ideas \cup batch # {}
    <3> DEFINE n == AwaitNext(s, flush[f].as, flush[f].timed, ideas, batch, acked)
    <3>1. flush' = [flush EXCEPT ![f] = n] /\ UNCHANGED <<items, timer, disk>>
      BY <1>3, <2>1 DEF Proceed
    <3>2. n.acked = acked /\ n.as = flush[f].as /\ n.scope = s
          /\ Ids(n.taken) = {}
      BY DEF AwaitNext, Pending, Ids
    <3> HIDE DEF n
    <3>3. Confirmed'
      BY <1>1, <3>1, <3>2 DEF DurableInv, Confirmed, TypeOK
    <3>4. ScheduledIsLoaded'
      BY <1>1, <3>1, <3>2 DEF DurableInv, ScheduledIsLoaded, TypeOK
    <3> QED
      BY <1>1, <3>1, <3>3, <3>4 DEF DurableInv, FileIsAccountedFor, AcceptedIsDurable, Settled
  <2>2. CASE ideas \cup batch = {}
    <3>1. PICK saved \in BOOLEAN : Complete(f, acked, saved)
      BY <1>3, <2>2 DEF Proceed
    <3> DEFINE left == Left(s, acked)
    <3>2. /\ items' = [items EXCEPT ![s] = left]
          /\ Save(s, left, saved)
          /\ flush' = [flush EXCEPT ![f] = Idle]
      BY <3>1 DEF Complete
    <3>3. \A e \in items[s] : e \in left \/ e.id \in acked
      BY DEF Left
    <3> HIDE DEF left
    <3>4. Confirmed'
      BY <1>1, <3>2 DEF DurableInv, Confirmed, TypeOK, Idle
    <3>5. /\ items'[s] = left /\ disk'[s] = IF saved THEN left ELSE disk[s]
          /\ \A a \in Scopes \ {s} : items'[a] = items[a] /\ disk'[a] = disk[a]
      BY <1>0, <3>2 DEF TypeOK, Save
    <3>6. loaded[s]
      BY DEF DurableInv, ScheduledIsLoaded
    <3>7. ScheduledIsLoaded'
      BY <1>0, <1>1, <3>1, <3>2, <3>6 DEF DurableInv, ScheduledIsLoaded, Complete, TypeOK, Idle
    <3>8. DurableInv'
      <4>1. \A e \in Known(s) : e \in items'[s] \/ Settled(e.id)'
        BY <1>0, <1>1, <3>3, <3>5, <3>6 DEF Known, Settled
      <4>2. Rewrites(s)
        BY <1>1, <3>5, <3>6, <4>1 DEF Rewrites
      <4>3. /\ FileIsAccountedFor'
            /\ \A a \in Scopes : \A e \in disk[a] : e \in disk'[a] \/ Settled(e.id)'
        BY <1>0, <1>2, <4>2, RewriteKeepsFiles DEF DurableInv
      <4>4. AcceptedIsDurable'
        BY <1>1, <1>2, <4>3, DurableFromFiles DEF DurableInv
      <4> QED
        BY <3>4, <3>7, <4>3, <4>4 DEF DurableInv
    <3> QED
      BY <3>8
  <2> QED
    BY <2>1, <2>2
<1> QED
  BY <1>3 DEF AfterRequest

\* The backend's work loses nothing.
LEMMA ServeDurable ==
    ASSUME TypeOK, DurableInv, NEW f \in Flushers, Serve(f)
    PROVE  DurableInv'
<1>1. PICK taken \in SUBSET Request(f) :
         /\ flush' = [flush EXCEPT ![f].served = TRUE, ![f].taken = taken]
         /\ received' = [received EXCEPT ![flush[f].as] = @ \cup Ids(taken)]
  BY DEF Serve
<1>2. flush[f] \in FlushRecord
  BY RequestSubset DEF Serve, TypeOK, FlushOK
<1>3. \A g \in Flushers : /\ flush'[g].pc = flush[g].pc
                          /\ flush'[g].pc # "idle" => /\ flush'[g].acked = flush[g].acked
                                                      /\ flush'[g].as = flush[g].as
                                                      /\ flush'[g].scope = flush[g].scope
  BY <1>1, <1>2 DEF TypeOK, FlushRecord
<1>4. \A s \in Scopes : received[s] \subseteq received'[s]
  BY <1>1 DEF TypeOK
<1>5. UNCHANGED <<loaded, items, timer, disk, accepted, evicted, dropped>>
  BY DEF Serve
<1>6. SettledStays
  BY <1>4, <1>5, SettledGrows
<1>7. Confirmed'
  <2>1. ASSUME NEW g \in Flushers \ {f}
        PROVE  flush'[g] = flush[g]
    BY <1>1, <2>1 DEF TypeOK
  <2>2. /\ flush'[f].taken = taken /\ flush[f].as \in Scopes
        /\ received'[flush[f].as] = received[flush[f].as] \cup Ids(taken)
    BY <1>1, <1>2 DEF TypeOK, FlushRecord
  <2> QED
    BY <1>3, <1>4, <2>1, <2>2, FlushingScope DEF DurableInv, Confirmed
<1>8. ScheduledIsLoaded'
  BY <1>3, <1>5 DEF DurableInv, ScheduledIsLoaded
<1>9. FileIsAccountedFor' /\ AcceptedIsDurable'
  BY <1>5, <1>6 DEF DurableInv, FileIsAccountedFor, AcceptedIsDurable, SettledStays
<1> QED
  BY <1>7, <1>8, <1>9 DEF DurableInv

\* Only loaded services have a flush due or running.
LEMMA LaunchLoaded ==
    ASSUME TypeOK, ScheduledIsLoaded, NEW f \in Flushers, NEW s \in Scopes, NEW mem, NEW timed,
           Launch(f, s, mem, timed), loaded'[s],
           \A a \in Scopes : (loaded[a] => loaded'[a]) /\ (timer'[a] => timer[a])
    PROVE  ScheduledIsLoaded'
<1>1. \/ flush' = flush
      \/ flush' = [flush EXCEPT ![f] = Start(s, Snapshot(mem), timed)]
  BY DEF Launch
<1>2. Start(s, Snapshot(mem), timed).scope = s
  BY DEF Start, AwaitNext, Pending
<1> QED
  BY <1>1, <1>2, FlushingScope DEF ScheduledIsLoaded, TypeOK

\* A flush on demand loses nothing as it starts.
LEMMA FlushNowDurable ==
    ASSUME TypeOK, DurableInv, NEW f \in Flushers, FlushNow(f)
    PROVE  DurableInv'
<1> DEFINE s == token.scope
<1>1. s \in Scopes
  BY DEF FlushNow, TypeOK, Tokens
<1>2. PICK mem \in LoadResults(s) :
         Load(s, mem) /\ items' = [items EXCEPT ![s] = mem] /\ Launch(f, s, mem, FALSE)
  BY DEF FlushNow
<1>3. UNCHANGED <<timer, disk, received, accepted, evicted>>
  BY DEF FlushNow
<1>4. Confirmed'
  BY <1>2, <1>3, LaunchAcknowledges DEF DurableInv
<1>5. loaded'[s] /\ \A a \in Scopes : loaded[a] => loaded'[a]
  BY <1>1, <1>2, LoadKeeps
<1>6. ScheduledIsLoaded'
  BY <1>1, <1>2, <1>3, <1>5, LaunchLoaded DEF DurableInv
<1> QED
  BY <1>1, <1>2, <1>3, <1>4, <1>6, LoadDurable

\* Nor does the timer's.
LEMMA TimerDurable ==
    ASSUME TypeOK, DurableInv, NEW s \in Scopes, NEW f \in Flushers, TimerFires(s, f)
    PROVE  DurableInv'
<1>1. /\ Launch(f, s, items[s], TRUE) /\ timer' = [timer EXCEPT ![s] = FALSE] /\ timer[s]
      /\ UNCHANGED <<loaded, items, disk, received, accepted, evicted, dropped>>
  BY DEF TimerFires
<1>2. Confirmed'
  BY <1>1, LaunchAcknowledges DEF DurableInv
<1>3. loaded'[s] /\ \A a \in Scopes : (loaded[a] => loaded'[a]) /\ (timer'[a] => timer[a])
  BY <1>1 DEF DurableInv, ScheduledIsLoaded, TypeOK
<1>4. ScheduledIsLoaded'
  BY <1>1, <1>3, LaunchLoaded DEF DurableInv
<1> QED
  BY <1>1, <1>2, <1>4 DEF DurableInv, FileIsAccountedFor, AcceptedIsDurable, Settled

\* Whatever the answer, what a flush has acknowledged after it was received.
LEMMA AnswerAcknowledges ==
    ASSUME TypeOK, DurableInv, NEW f \in Flushers, Answer(f)
    PROVE  /\ flush[f].pc # "idle"
           /\ \E acked \in SUBSET Nat :
                 acked \subseteq received[flush[f].as] /\ AfterRequest(f, acked)
<1> DEFINE all == flush[f].acked \cup Ids(Request(f))
<1>1. flush[f].pc # "idle"
  BY DEF Answer, Accepted, PartlyAccepted, Unanswered, Unauthorized
<1>2. /\ flush[f] \in FlushRecord /\ Request(f) \in SUBSET Entry
  BY <1>1, RequestSubset DEF TypeOK, FlushOK
<1>3. flush[f].acked \in SUBSET Nat /\ flush[f].acked \subseteq received[flush[f].as]
  BY <1>1, <1>2 DEF FlushRecord, DurableInv, Confirmed
<1>4. CASE Accepted(f)
  <2>1. flush[f].taken = Request(f) /\ AfterRequest(f, all)
    BY <1>4 DEF Accepted, FullyTaken
  <2>2. Ids(flush[f].taken) \subseteq received[flush[f].as]
    BY <1>1 DEF DurableInv, Confirmed
  <2>3. all \in SUBSET Nat
    BY <1>2, <1>3, IdsType
  <2> QED
    BY <1>1, <1>3, <2>1, <2>2, <2>3
<1>5. CASE AfterRequest(f, flush[f].acked)
  BY <1>1, <1>3, <1>5
<1> QED
  BY <1>4, <1>5 DEF Answer, PartlyAccepted, Unanswered, Unauthorized

\* The inductive invariant behind durability holds in every reachable state.
THEOREM Durability == Spec => []DurableInv
<1>1. Init => DurableInv
  BY DEF Init, DurableInv, ScheduledIsLoaded, Confirmed, FileIsAccountedFor,
         AcceptedIsDurable, Idle
<1>2. TypeOK /\ DurableInv /\ [Next]_vars => DurableInv'
  <2> SUFFICES ASSUME TypeOK, DurableInv, [Next]_vars
               PROVE  DurableInv'
    OBVIOUS
  <2>1. ASSUME NEW kind \in Kinds, NEW size \in Sizes, NEW saved \in BOOLEAN,
               Push(kind, size, saved)
        PROVE  DurableInv'
    BY <2>1, PushDurable
  <2>2. CASE Summary
    <3> DEFINE s == token.scope
    <3>1. s \in Scopes
      BY <2>2 DEF Summary, TypeOK, Tokens
    <3>2. PICK mem \in LoadResults(s) : Load(s, mem) /\ items' = [items EXCEPT ![s] = mem]
      BY <2>2 DEF Summary
    <3>3. UNCHANGED <<timer, flush, disk, received, accepted, evicted>>
      BY <2>2 DEF Summary
    <3>4. \A a \in Scopes : loaded[a] => loaded'[a]
      BY <3>1, <3>2, LoadKeeps
    <3>5. Confirmed' /\ ScheduledIsLoaded'
      BY <3>3, <3>4, FlushingScope DEF DurableInv, Confirmed, ScheduledIsLoaded
    <3> QED
      BY <3>1, <3>2, <3>3, <3>5, LoadDurable
  <2>3. ASSUME NEW f \in Flushers, FlushNow(f)
        PROVE  DurableInv'
    BY <2>3, FlushNowDurable
  <2>4. ASSUME NEW s \in Scopes, NEW f \in Flushers, TimerFires(s, f)
        PROVE  DurableInv'
    BY <2>4, TimerDurable
  <2>5. ASSUME NEW f \in Flushers, Answer(f)
        PROVE  DurableInv'
    BY <2>5, AnswerAcknowledges, AfterRequestDurable
  <2>6. ASSUME NEW f \in Flushers, Serve(f)
        PROVE  DurableInv'
    BY <2>6, ServeDurable
  <2>7. CASE ChangeToken
    BY <2>7 DEF ChangeToken, DurableInv, ScheduledIsLoaded, Confirmed,
                FileIsAccountedFor, AcceptedIsDurable, Settled
  <2>8. CASE Restart
    BY <2>8 DEF Restart, DurableInv, ScheduledIsLoaded, Confirmed,
                FileIsAccountedFor, AcceptedIsDurable, Settled, Idle
  <2>9. CASE UNCHANGED vars
    BY <2>9 DEF vars, DurableInv, ScheduledIsLoaded, Confirmed,
                FileIsAccountedFor, AcceptedIsDurable, Settled
  <2> QED
    BY <2>1, <2>2, <2>3, <2>4, <2>5, <2>6, <2>7, <2>8, <2>9 DEF Next, Work, Capture
<1> QED
  BY <1>1, <1>2, Typing, PTL DEF Spec

(* A capture that push accepted never vanishes, wherever the process stops. *)
THEOREM AcceptedSurvives == Spec => []AcceptedIsDurable
BY Durability, PTL DEF DurableInv

(* A flush deletes nothing the backend has not recorded under its account.  *)
THEOREM OnlyReceivedIsDeleted == Spec => []AcknowledgedIsReceived
<1>1. DurableInv => AcknowledgedIsReceived
  BY DEF DurableInv, Confirmed, AcknowledgedIsReceived
<1> QED
  BY <1>1, Durability, PTL

(* A file that differs from the memory does so by settled captures only.    *)
THEOREM FilesAreAccountedFor == Spec => []FileIsAccountedFor
BY Durability, PTL DEF DurableInv

-----------------------------------------------------------------------------
(* The limits. *)

\* Sets of captures that are told apart by their ids are queues.
LEMMA EntriesAreQueue ==
    ASSUME NEW S \in SUBSET Entry, IsFiniteSet(S), \A a, b \in S : a.id = b.id => a = b
    PROVE  IsQueue(S)
<1>1. 1 .. MaxPushes \subseteq Nat /\ Sizes \subseteq Nat
  BY QueueAssumption
<1>2. Entry \subseteq Entries(Nat, Nat)
  BY <1>1, Zenon DEF Entry, Entries
<1> QED
  BY <1>2 DEF IsQueue

(* A queue whose captures are told apart by their ids, all given out, and  *)
(* that is within the limits: both the memory and the file are such queues. *)
Bounded(S, last) ==
    /\ IsFiniteSet(S) /\ Cardinality(S) <= MaxItems
    /\ Bytes(S) <= MaxBytes \/ Cardinality(S) <= 1
    /\ \A a, b \in S : a.id = b.id => a = b
    /\ \A a \in S : a.id <= last

LimitInv == \A s \in Scopes : Bounded(items[s], pushes) /\ Bounded(disk[s], pushes)

\* A part of a bounded queue is bounded.
LEMMA BoundedSubset ==
    ASSUME NEW S \in SUBSET Entry, NEW T \in SUBSET S, NEW last, Bounded(S, last)
    PROVE  Bounded(T, last)
<1>1. /\ IsFiniteSet(T) /\ Cardinality(T) <= Cardinality(S)
      /\ Cardinality(T) \in Nat /\ Cardinality(S) \in Nat
  BY FS_Subset, FS_CardinalityType DEF Bounded
<1>2. Sized(S) /\ Sized(T)
  BY EntriesAreQueue, QueueSized, SizedSubset DEF Bounded
<1>3. Bytes(T) <= Bytes(S) /\ Bytes(T) \in Nat /\ Bytes(S) \in Nat
  BY <1>2, BytesMonotone, BytesType
<1>4. Bytes(T) <= MaxBytes \/ Cardinality(T) <= 1
  BY <1>1, <1>3, LimitsAssumption DEF Bounded
<1> QED
  BY <1>1, <1>4, LimitsAssumption DEF Bounded

\* The empty queue is bounded.
LEMMA EmptyBounded == \A last : Bounded({}, last)
BY FS_EmptySet, LimitsAssumption DEF Bounded

\* A bounded queue stays so when more captures have been made.
LEMMA BoundedLater ==
    ASSUME NEW S \in SUBSET Entry, NEW n \in Nat, Bounded(S, n)
    PROVE  Bounded(S, n + 1)
<1>1. \A a \in S : a.id \in Nat
  BY DEF Entry, Entries
<1> QED
  BY <1>1 DEF Bounded

\* A bounded queue is bounded again after a push has added an entry and trimmed it.
LEMMA TrimmedBounded ==
    ASSUME NEW S \in SUBSET Entry, NEW n \in Nat, Bounded(S, n),
           NEW entry \in Entry, entry.id = n + 1
    PROVE  Bounded(Trimmed(S \cup {entry}), n + 1)
<1> DEFINE all == S \cup {entry}
<1>1. all \in SUBSET Entry /\ IsFiniteSet(all)
  BY FS_AddElement DEF Bounded
<1>2. \A a \in S : a.id \in Nat /\ a.id <= n
  BY DEF Bounded, Entry, Entries
<1>3. \A a, b \in all : a.id = b.id => a = b
  BY <1>2 DEF Bounded
<1>4. \A a \in all : a.id <= n + 1
  BY <1>2
<1> HIDE DEF all
<1>5. IsQueue(WithinCount(all)) /\ Cardinality(WithinCount(all)) <= MaxItems
  BY <1>1, <1>3, EntriesAreQueue, WithinCountBounded
<1>6. Trimmed(all) \in SUBSET WithinCount(all) /\ Trimmed(all) \in SUBSET all
  BY TrimmedSubset
<1>7. IsFiniteSet(WithinCount(all))
  BY <1>5 DEF IsQueue
<1>8. /\ IsFiniteSet(Trimmed(all)) /\ Cardinality(Trimmed(all)) <= Cardinality(WithinCount(all))
      /\ Cardinality(Trimmed(all)) \in Nat /\ Cardinality(WithinCount(all)) \in Nat
  BY <1>6, <1>7, FS_Subset, FS_CardinalityType
<1>9. Bytes(Trimmed(all)) <= MaxBytes \/ Cardinality(Trimmed(all)) <= 1
  BY <1>5, WithinBytesBounded DEF Trimmed
<1>10. Cardinality(Trimmed(all)) <= MaxItems
  BY <1>5, <1>8, LimitsAssumption
<1> QED
  BY <1>3, <1>4, <1>6, <1>8, <1>9, <1>10 DEF Bounded, all

\* What a load brings in is bounded.
LEMMA LoadedBounded ==
    ASSUME TypeOK, LimitInv, NEW s \in Scopes, NEW mem, Load(s, mem)
    PROVE  mem \in SUBSET Entry /\ Bounded(mem, pushes)
<1>1. mem \in SUBSET Entry /\ (mem = items[s] \/ mem \in SUBSET disk[s])
  BY LoadTypes
<1>2. disk[s] \in SUBSET Entry
  BY DEF TypeOK
<1> QED
  BY <1>1, <1>2, BoundedSubset DEF LimitInv

\* pushCaptureForLater keeps every queue and file bounded.
LEMMA PushLimit ==
    ASSUME TypeOK, LimitInv, NEW kind \in Kinds, NEW size \in Sizes, NEW saved \in BOOLEAN,
           Push(kind, size, saved)
    PROVE  LimitInv'
<1> DEFINE s == token.scope
           entry == [id |-> pushes + 1, kind |-> kind, size |-> size]
<1>1. s \in Scopes /\ pushes \in Nat /\ pushes + 1 \in 1 .. MaxPushes /\ pushes' = pushes + 1
  BY QueueAssumption DEF Push, TypeOK, Tokens
<1>2. entry \in Entry /\ entry.id = pushes + 1
  BY <1>1 DEF Entry, Entries
<1>3. PICK mem : /\ Load(s, mem)
                 /\ items' = [items EXCEPT ![s] = Trimmed(mem \cup {entry})]
                 /\ Save(s, Trimmed(mem \cup {entry}), saved)
  BY DEF Push
<1>4. Bounded(Trimmed(mem \cup {entry}), pushes')
  BY <1>1, <1>2, <1>3, LoadedBounded, TrimmedBounded
<1>5. \A a \in Scopes : Bounded(items[a], pushes') /\ Bounded(disk[a], pushes')
  BY <1>1, BoundedLater DEF LimitInv, TypeOK
<1> HIDE DEF entry, s
<1> QED
  BY <1>1, <1>3, <1>4, <1>5 DEF LimitInv, Save, TypeOK

\* So does the run after an answer.
LEMMA AfterRequestLimit ==
    ASSUME TypeOK, LimitInv, NEW f \in Flushers, flush[f].pc # "idle", NEW acked,
           AfterRequest(f, acked)
    PROVE  LimitInv'
<1> DEFINE s == flush[f].scope
<1>1. s \in Scopes /\ pushes' = pushes
  BY FlushingScope DEF AfterRequest
<1>2. \/ UNCHANGED <<items, disk>>
      \/ \E saved \in BOOLEAN : Complete(f, acked, saved)
  BY DEF AfterRequest, Proceed
<1>3. CASE UNCHANGED <<items, disk>>
  BY <1>1, <1>3 DEF LimitInv
<1>4. ASSUME NEW saved \in BOOLEAN, Complete(f, acked, saved)
      PROVE  LimitInv'
  <2> DEFINE left == Left(s, acked)
  <2>1. items' = [items EXCEPT ![s] = left] /\ Save(s, left, saved)
    BY <1>4 DEF Complete
  <2>2. left \in SUBSET items[s]
    BY DEF Left
  <2>3. Bounded(left, pushes)
    BY <1>1, <2>2, BoundedSubset DEF LimitInv, TypeOK
  <2> HIDE DEF left, s
  <2> QED
    BY <1>1, <2>1, <2>3 DEF LimitInv, Save, TypeOK
<1> QED
  BY <1>2, <1>3, <1>4

\* Every memory and every file is such a queue.
THEOREM QueuesAreBounded == Spec => []LimitInv
<1>1. Init => LimitInv
  BY EmptyBounded DEF Init, LimitInv
<1>2. TypeOK /\ LimitInv /\ [Next]_vars => LimitInv'
  <2> SUFFICES ASSUME TypeOK, LimitInv, [Next]_vars
               PROVE  LimitInv'
    OBVIOUS
  <2>1. ASSUME NEW kind \in Kinds, NEW size \in Sizes, NEW saved \in BOOLEAN,
               Push(kind, size, saved)
        PROVE  LimitInv'
    BY <2>1, PushLimit
  <2>2. ASSUME NEW s \in Scopes, NEW mem, Load(s, mem), items' = [items EXCEPT ![s] = mem],
               UNCHANGED <<disk, pushes>>
        PROVE  LimitInv'
    <3>1. Bounded(mem, pushes)
      BY <2>2, LoadedBounded
    <3> QED
      BY <2>2, <3>1 DEF LimitInv, TypeOK
  <2>3. token.scope # NoScope => token.scope \in Scopes
    BY DEF TypeOK, Tokens
  <2>4. CASE Summary
    BY <2>2, <2>3, <2>4 DEF Summary
  <2>5. ASSUME NEW f \in Flushers, FlushNow(f)
        PROVE  LimitInv'
    BY <2>2, <2>3, <2>5 DEF FlushNow
  <2>6. ASSUME NEW s \in Scopes, NEW f \in Flushers, TimerFires(s, f)
        PROVE  LimitInv'
    BY <2>6 DEF TimerFires, LimitInv
  <2>7. ASSUME NEW f \in Flushers, Answer(f)
        PROVE  LimitInv'
    BY <2>7, AfterRequestLimit DEF Answer, Accepted, PartlyAccepted, Unanswered, Unauthorized
  <2>8. ASSUME NEW f \in Flushers, Serve(f)
        PROVE  LimitInv'
    BY <2>8 DEF Serve, LimitInv
  <2>9. CASE ChangeToken
    BY <2>9 DEF ChangeToken, LimitInv
  <2>10. CASE Restart
    BY <2>10, EmptyBounded DEF Restart, LimitInv
  <2>11. CASE UNCHANGED vars
    BY <2>11 DEF vars, LimitInv
  <2> QED
    BY <2>1, <2>4, <2>5, <2>6, <2>7, <2>8, <2>9, <2>10, <2>11 DEF Next, Work, Capture
<1> QED
  BY <1>1, <1>2, Typing, PTL DEF Spec

(* No queue and no file ever holds more than MaxItems entries. *)
THEOREM Limits == Spec => []ItemLimit
<1>1. LimitInv => ItemLimit
  BY DEF LimitInv, Bounded, ItemLimit
<1> QED
  BY <1>1, QueuesAreBounded, PTL

(* Nor more than MaxBytes of them, but for a single one that is larger.    *)
THEOREM ByteLimits == Spec => []ByteLimit
<1>1. LimitInv => ByteLimit
  BY DEF LimitInv, Bounded, ByteLimit
<1> QED
  BY <1>1, QueuesAreBounded, PTL

(* In every state a push finds, the loops of the code leave exactly what   *)
(* the closed form of the model keeps.                                     *)
THEOREM TrimIsTheLoop == Spec => []TrimMatchesLoop
<1>1. TypeOK /\ LimitInv => TrimMatchesLoop
  <2> SUFFICES ASSUME TypeOK, LimitInv, NEW s \in Scopes, NEW kind \in Kinds, NEW size \in Sizes
               PROVE  TrimLoop(Pushed(s, kind, size)) =
                          AsArray(Trimmed(ToSet(Pushed(s, kind, size))))
    BY DEF TrimMatchesLoop
  <2> DEFINE new == [id |-> pushes + 1, kind |-> kind, size |-> size]
  <2>1. pushes \in Nat /\ items[s] \in SUBSET Entry /\ Bounded(items[s], pushes)
    BY QueueAssumption DEF TypeOK, LimitInv
  <2>2. IsQueue(items[s])
    BY <2>1, EntriesAreQueue DEF Bounded
  <2>3. AsArray(items[s]) \in Arrays /\ ToSet(AsArray(items[s])) = items[s]
    BY <2>2, AsArrayType
  <2>4. new \in Entries(Nat, Nat)
    BY <2>1, QueueAssumption DEF Entries
  <2>5. \A o \in items[s] : o.id < new.id
    <3>1. \A o \in items[s] : o.id \in Nat /\ o.id <= pushes
      BY <2>1 DEF Bounded, Entry, Entries
    <3> QED
      BY <2>1, <3>1
  <2> HIDE DEF new
  <2>6. Append(AsArray(items[s]), new) \in Arrays
    BY <2>3, <2>4, <2>5, AppendArray
  <2> QED
    BY <2>6, TrimLoopIsTrimmed DEF Pushed, new
<1> QED
  BY <1>1, Typing, QueuesAreBounded, PTL

-----------------------------------------------------------------------------
(* Why entries leave a queue. *)

\* A push evicts what it takes out, and ideas only in favour of ideas.
LEMMA PushRemoves ==
    ASSUME TypeOK, LimitInv, NEW kind \in Kinds, NEW size \in Sizes, NEW saved \in BOOLEAN,
           Push(kind, size, saved)
    PROVE  Removal
<1> DEFINE s == token.scope
           entry == [id |-> pushes + 1, kind |-> kind, size |-> size]
<1>1. s \in Scopes /\ pushes \in Nat /\ pushes + 1 \in 1 .. MaxPushes
  BY QueueAssumption DEF Push, TypeOK, Tokens
<1>2. entry \in Entry /\ entry.id = pushes + 1
  BY <1>1 DEF Entry, Entries
<1>3. PICK mem : /\ Load(s, mem)
                 /\ items' = [items EXCEPT ![s] = Trimmed(mem \cup {entry})]
                 /\ evicted' = evicted \cup Ids((mem \cup {entry}) \ Trimmed(mem \cup {entry}))
  BY DEF Push
<1> DEFINE all == mem \cup {entry}
<1>4. mem \in SUBSET Entry /\ Bounded(mem, pushes) /\ (loaded[s] => mem = items[s])
  BY <1>1, <1>3, LoadedBounded, LoadTypes
<1>5. IsQueue(all)
  <2>1. all \in SUBSET Entry /\ IsFiniteSet(all)
    BY <1>2, <1>4, FS_AddElement DEF Bounded
  <2>2. \A a \in mem : a.id # entry.id
    <3>1. \A a \in mem : a.id \in Nat /\ a.id <= pushes
      BY <1>4 DEF Bounded, Entry, Entries
    <3> QED
      BY <1>1, <1>2, <3>1
  <2>3. \A a, b \in all : a.id = b.id => a = b
    BY <1>4, <2>2 DEF Bounded
  <2> QED
    BY <2>1, <2>3, EntriesAreQueue
<1> HIDE DEF s, entry
<1>6. ASSUME NEW e \in all \ Trimmed(all)
      PROVE  e.id \in evicted' /\ (IsIdea(e) => \A o \in Trimmed(all) : IsIdea(o))
  BY <1>3, <1>5, <1>6, IdeasAreEvictedLast DEF Ids
<1>7. items'[s] = Trimmed(all) /\ \A a \in Scopes \ {s} : items'[a] = items[a]
  BY <1>1, <1>3 DEF TypeOK
<1> QED
  BY <1>4, <1>6, <1>7 DEF Removal

\* The run after an answer takes out what was acknowledged.
LEMMA AfterRequestRemoves ==
    ASSUME TypeOK, NEW f \in Flushers, flush[f].pc # "idle",
           NEW acked, acked \subseteq received[flush[f].as], AfterRequest(f, acked)
    PROVE  Removal
<1> DEFINE s == flush[f].scope
<1>1. s \in Scopes /\ flush[f].as \in Scopes
  BY FlushingScope
<1>2. \/ UNCHANGED items
      \/ items' = [items EXCEPT ![s] = Left(s, acked)]
  BY DEF AfterRequest, Proceed, Complete
<1>3. \A a \in Scopes : \A e \in items[a] \ items'[a] : e.id \in acked
  BY <1>1, <1>2 DEF Left, TypeOK
<1> QED
  BY <1>1, <1>3 DEF Removal

(* What leaves the memory of a running service was received by the backend *)
(* or evicted, ideas only when nothing else is left.                       *)
THEOREM RemovalsAreJustified == Spec => EntriesLeaveForAReason
<1>1. TypeOK /\ DurableInv /\ LimitInv /\ [Next]_vars => [Removal]_vars
  <2> SUFFICES ASSUME TypeOK, DurableInv, LimitInv, Next
               PROVE  Removal
    OBVIOUS
  <2>1. ASSUME NEW kind \in Kinds, NEW size \in Sizes, NEW saved \in BOOLEAN,
               Push(kind, size, saved)
        PROVE  Removal
    BY <2>1, PushRemoves
  <2>2. ASSUME NEW s \in Scopes, NEW mem, Load(s, mem), items' = [items EXCEPT ![s] = mem]
        PROVE  Removal
    <3>1. loaded[s] => mem = items[s]
      BY <2>2, LoadTypes
    <3> QED
      BY <2>2, <3>1 DEF Removal, TypeOK
  <2>3. token.scope # NoScope => token.scope \in Scopes
    BY DEF TypeOK, Tokens
  <2>4. CASE Summary
    BY <2>2, <2>3, <2>4 DEF Summary
  <2>5. ASSUME NEW f \in Flushers, FlushNow(f)
        PROVE  Removal
    BY <2>2, <2>3, <2>5 DEF FlushNow
  <2>6. ASSUME NEW f \in Flushers, Answer(f)
        PROVE  Removal
    BY <2>6, AnswerAcknowledges, AfterRequestRemoves
  <2>7. CASE UNCHANGED items
    BY <2>7 DEF Removal
  <2>8. CASE Restart
    BY <2>8 DEF Restart, Removal
  <2> QED
    BY <2>1, <2>4, <2>5, <2>6, <2>7, <2>8 DEF Next, Work, Capture, TimerFires, Serve, ChangeToken
<1> QED
  BY <1>1, Typing, Durability, QueuesAreBounded, PTL DEF Spec, EntriesLeaveForAReason

-----------------------------------------------------------------------------
(* Wake-ups. *)

\* Flushes in progress stay so, and only an end of one can disarm a timer.
LEMMA ScheduleStays ==
    ASSUME NEW s \in Scopes, Scheduled(s), timer[s] => timer'[s],
           \A f \in Flushers : flush[f].pc # "idle" =>
               flush'[f].pc # "idle" /\ flush'[f].scope = flush[f].scope
    PROVE  Scheduled(s)'
BY DEF Scheduled, Flushing

\* The start of a flush disturbs no other, and keeps the service scheduled
\* unless there is nothing to send or no token to send it with.
LEMMA LaunchSchedules ==
    ASSUME TypeOK, NEW f \in Flushers, NEW s \in Scopes, NEW mem, NEW timed,
           Launch(f, s, mem, timed)
    PROVE  /\ \A g \in Flushers : flush[g].pc # "idle" => flush'[g] = flush[g]
           /\ mem # {} /\ token.usable => Flushing(s)'
<1> DEFINE n == Start(s, Snapshot(mem), timed)
<1>1. n.pc # "idle" /\ n.scope = s
  BY DEF Start, AwaitNext, Pending
<1>2. flush[f].pc = "idle" /\ (flush' = flush \/ flush' = [flush EXCEPT ![f] = n])
  BY DEF Launch
<1>3. mem # {} /\ token.usable => flush' = [flush EXCEPT ![f] = n]
  BY DEF Launch
<1>4. DOMAIN flush = Flushers
  BY DEF TypeOK
<1> HIDE DEF n
<1>5. \A g \in Flushers : flush[g].pc # "idle" => flush'[g] = flush[g]
  BY <1>2, <1>4
<1>6. ASSUME mem # {}, token.usable
      PROVE  Flushing(s)'
  <2>1. flush'[f] = n
    BY <1>3, <1>4, <1>6
  <2> QED
    BY <1>1, <2>1 DEF Flushing
<1> QED
  BY <1>5, <1>6

\* The run after an answer goes on, or arms the timer if anything is left.
LEMMA AfterRequestSchedules ==
    ASSUME TypeOK, NEW f \in Flushers, flush[f].pc # "idle", NEW acked, AfterRequest(f, acked)
    PROVE  KeepsSchedule
<1> DEFINE s == flush[f].scope
<1>1. s \in Scopes /\ DOMAIN flush = Flushers /\ DOMAIN timer = Scopes /\ DOMAIN items = Scopes
  BY FlushingScope DEF TypeOK
<1>2. ASSUME NEW ideas, NEW batch,
             flush' = [flush EXCEPT ![f] = AwaitNext(s, flush[f].as, flush[f].timed, ideas, batch, acked)],
             UNCHANGED timer
      PROVE  KeepsSchedule
  <2> DEFINE n == AwaitNext(s, flush[f].as, flush[f].timed, ideas, batch, acked)
  <2>1. n.pc # "idle" /\ n.scope = s
    BY DEF AwaitNext, Pending
  <2> HIDE DEF n
  <2>2. \A g \in Flushers : flush[g].pc # "idle" =>
            flush'[g].pc # "idle" /\ flush'[g].scope = flush[g].scope
    BY <1>1, <1>2, <2>1 DEF n
  <2> QED
    BY <1>2, <2>2, ScheduleStays DEF KeepsSchedule
<1>3. ASSUME NEW saved \in BOOLEAN, Complete(f, acked, saved)
      PROVE  KeepsSchedule
  <2>1. /\ items' = [items EXCEPT ![s] = Left(s, acked)]
        /\ timer' = [timer EXCEPT ![s] = Rearmed(s, Left(s, acked), acked, flush[f].timed, saved)]
        /\ flush' = [flush EXCEPT ![f] = Idle]
        /\ faults' = IF ~saved THEN faults + 1 ELSE faults
    BY <1>3 DEF Complete, Fault
  <2>2. ASSUME NEW a \in Scopes, a # s, Scheduled(a)
        PROVE  Scheduled(a)'
    BY <1>1, <2>1, <2>2 DEF Scheduled, Flushing
  <2>3. CASE ~saved
    <3>1. faults' > faults
      BY <2>1, <2>3 DEF TypeOK
    <3> QED
      BY <3>1 DEF KeepsSchedule
  <2>4. CASE saved
    <3>1. items'[s] # {} => timer'[s]
      BY <1>1, <2>1, <2>4 DEF Rearmed
    <3> QED
      BY <2>2, <3>1 DEF KeepsSchedule, Scheduled
  <2> QED
    BY <2>3, <2>4
<1> QED
  BY <1>2, <1>3 DEF AfterRequest, Proceed

(* A service that is scheduled and holds something stays scheduled, but for *)
(* a timer that finds no usable token and a write that fails.               *)
THEOREM WakeUpsAreKept == Spec => NoLostWakeUp
<1>1. TypeOK /\ [Next]_vars => [KeepsSchedule]_vars
  <2> SUFFICES ASSUME TypeOK, Next
               PROVE  KeepsSchedule
    OBVIOUS
  <2>1. ASSUME NEW kind \in Kinds, NEW size \in Sizes, NEW saved \in BOOLEAN,
               Push(kind, size, saved)
        PROVE  KeepsSchedule
    <3>1. \A s \in Scopes : timer[s] => timer'[s]
      BY <2>1 DEF Push, TypeOK
    <3>2. UNCHANGED flush
      BY <2>1 DEF Push
    <3> QED
      BY <3>1, <3>2, ScheduleStays DEF KeepsSchedule
  <2>2. ASSUME NEW f \in Flushers, FlushNow(f)
        PROVE  KeepsSchedule
    <3>1. token.scope \in Scopes
      BY <2>2 DEF FlushNow, TypeOK, Tokens
    <3>2. /\ \A g \in Flushers : flush[g].pc # "idle" => flush'[g] = flush[g]
          /\ UNCHANGED timer
      BY <2>2, <3>1, LaunchSchedules DEF FlushNow
    <3> QED
      BY <3>2, ScheduleStays DEF KeepsSchedule
  <2>3. ASSUME NEW s \in Scopes, NEW f \in Flushers, TimerFires(s, f)
        PROVE  KeepsSchedule
    <3>1. /\ \A g \in Flushers : flush[g].pc # "idle" => flush'[g] = flush[g]
          /\ items[s] # {} /\ token.usable => Flushing(s)'
          /\ UNCHANGED items
          /\ timer' = [timer EXCEPT ![s] = FALSE]
      BY <2>3, LaunchSchedules DEF TimerFires
    <3>2. ASSUME NEW a \in Scopes, a # s, Scheduled(a)
          PROVE  Scheduled(a)'
      BY <3>1, <3>2, ScheduleStays DEF TypeOK
    <3> QED
      BY <3>1, <3>2 DEF KeepsSchedule, Scheduled
  <2>4. ASSUME NEW f \in Flushers, Answer(f)
        PROVE  KeepsSchedule
    BY <2>4, AfterRequestSchedules DEF Answer, Accepted, PartlyAccepted, Unanswered, Unauthorized
  <2>5. ASSUME NEW f \in Flushers, Serve(f)
        PROVE  KeepsSchedule
    <3>1. UNCHANGED timer
      BY <2>5 DEF Serve
    <3>2. \A g \in Flushers : flush'[g].pc = flush[g].pc /\ flush'[g].scope = flush[g].scope
      <4>1. PICK taken : flush' = [flush EXCEPT ![f].served = TRUE, ![f].taken = taken]
        BY <2>5 DEF Serve
      <4>2. flush[f] \in FlushRecord /\ DOMAIN flush = Flushers
        BY <2>5, RequestSubset DEF Serve, TypeOK, FlushOK
      <4> QED
        BY <4>1, <4>2 DEF FlushRecord
    <3> QED
      BY <3>1, <3>2, ScheduleStays DEF KeepsSchedule
  <2>6. CASE UNCHANGED <<timer, flush>>
    BY <2>6, ScheduleStays DEF KeepsSchedule
  <2>7. CASE Restart
    BY <2>7 DEF Restart, KeepsSchedule
  <2> QED
    BY <2>1, <2>2, <2>3, <2>4, <2>5, <2>6, <2>7 DEF Next, Work, Capture, Summary, ChangeToken
<1> QED
  BY <1>1, Typing, PTL DEF Spec, NoLostWakeUp
-----------------------------------------------------------------------------
(* Memory and file. *)

\* Faults are counted and never forgotten.
LEMMA Faultless ==
    ASSUME TypeOK, NEW failed, Fault(failed), faults' = 0
    PROVE  faults = 0 /\ ~failed
BY DEF Fault, TypeOK

\* A load that leaves nothing out brings in the file.
LEMMA LoadIsFile ==
    ASSUME MemoryIsFile, faults = 0, NEW s \in Scopes, NEW mem, Load(s, mem), ~LostOnLoad(s, mem)
    PROVE  mem = disk[s]
BY DEF MemoryIsFile, Load, LoadResults, LostOnLoad

\* Push and write: memory and file become the same.
LEMMA PushIsFile ==
    ASSUME TypeOK, MemoryIsFile, NEW kind \in Kinds, NEW size \in Sizes, NEW saved \in BOOLEAN,
           Push(kind, size, saved)
    PROVE  MemoryIsFile'
<1> DEFINE s == token.scope
           entry == [id |-> pushes + 1, kind |-> kind, size |-> size]
<1> SUFFICES ASSUME faults' = 0
             PROVE  \A a \in Scopes : loaded'[a] => items'[a] = disk'[a]
  BY DEF MemoryIsFile
<1>1. PICK mem : /\ Load(s, mem)
                 /\ Fault(LostOnLoad(s, mem) \/ ~saved)
                 /\ items' = [items EXCEPT ![s] = Trimmed(mem \cup {entry})]
                 /\ Save(s, Trimmed(mem \cup {entry}), saved)
  BY DEF Push
<1>2. faults = 0 /\ saved
  BY <1>1, Faultless
<1> DEFINE kept == Trimmed(mem \cup {entry})
<1>3. /\ items' = [items EXCEPT ![s] = kept]
      /\ disk' = [disk EXCEPT ![s] = kept]
      /\ loaded' = [loaded EXCEPT ![s] = TRUE]
  BY <1>1, <1>2 DEF Save, Load
<1> HIDE DEF kept, s
<1> QED
  BY <1>2, <1>3 DEF MemoryIsFile, TypeOK

(* The memory of a running service is its file, until a read leaves        *)
(* something out or a write fails.                                         *)
THEOREM MemoryMatchesFile == Spec => []MemoryIsFile
<1>1. Init => MemoryIsFile
  BY DEF Init, MemoryIsFile
<1>2. TypeOK /\ MemoryIsFile /\ [Next]_vars => MemoryIsFile'
  <2> SUFFICES ASSUME TypeOK, MemoryIsFile, [Next]_vars
               PROVE  MemoryIsFile'
    OBVIOUS
  <2>1. ASSUME NEW kind \in Kinds, NEW size \in Sizes, NEW saved \in BOOLEAN,
               Push(kind, size, saved)
        PROVE  MemoryIsFile'
    BY <2>1, PushIsFile
  <2>2. ASSUME NEW s \in Scopes, NEW mem, Load(s, mem), items' = [items EXCEPT ![s] = mem],
               Fault(LostOnLoad(s, mem)), UNCHANGED disk
        PROVE  MemoryIsFile'
    <3> SUFFICES ASSUME faults' = 0
                 PROVE  \A a \in Scopes : loaded'[a] => items'[a] = disk'[a]
      BY DEF MemoryIsFile
    <3>1. faults = 0 /\ mem = disk[s]
      BY <2>2, Faultless, LoadIsFile
    <3>2. loaded' = [loaded EXCEPT ![s] = TRUE]
      BY <2>2 DEF Load
    <3> QED
      BY <2>2, <3>1, <3>2 DEF MemoryIsFile, TypeOK
  <2>3. token.scope # NoScope => token.scope \in Scopes
    BY DEF TypeOK, Tokens
  <2>4. CASE Summary
    BY <2>2, <2>3, <2>4 DEF Summary
  <2>5. ASSUME NEW f \in Flushers, FlushNow(f)
        PROVE  MemoryIsFile'
    BY <2>2, <2>3, <2>5 DEF FlushNow
  <2>6. ASSUME NEW f \in Flushers, Answer(f)
        PROVE  MemoryIsFile'
    <3>1. PICK acked : AfterRequest(f, acked) /\ flush[f].pc # "idle"
      BY <2>6 DEF Answer, Accepted, PartlyAccepted, Unanswered, Unauthorized
    <3>2. flush[f].scope \in Scopes /\ UNCHANGED loaded
      BY <3>1, FlushingScope DEF AfterRequest
    <3>3. CASE UNCHANGED <<items, disk, faults>>
      BY <3>2, <3>3 DEF MemoryIsFile
    <3>4. ASSUME NEW saved \in BOOLEAN, Complete(f, acked, saved)
          PROVE  MemoryIsFile'
      <4> DEFINE s == flush[f].scope
                 left == Left(s, acked)
      <4> SUFFICES ASSUME faults' = 0
                   PROVE  \A a \in Scopes : loaded'[a] => items'[a] = disk'[a]
        BY DEF MemoryIsFile
      <4>1. /\ items' = [items EXCEPT ![s] = left]
            /\ Save(s, left, saved) /\ Fault(~saved)
        BY <3>4 DEF Complete
      <4>2. faults = 0 /\ saved
        BY <4>1, Faultless
      <4>3. disk' = [disk EXCEPT ![s] = left]
        BY <4>1, <4>2 DEF Save
      <4> HIDE DEF left, s
      <4> QED
        BY <3>2, <4>1, <4>2, <4>3 DEF MemoryIsFile, TypeOK
    <3> QED
      BY <3>1, <3>3, <3>4 DEF AfterRequest, Proceed
  <2>7. CASE UNCHANGED <<loaded, items, disk, faults>>
    BY <2>7 DEF MemoryIsFile
  <2>8. CASE Restart
    BY <2>8 DEF Restart, MemoryIsFile
  <2> QED
    BY <2>1, <2>4, <2>5, <2>6, <2>7, <2>8
       DEF Next, Work, Capture, TimerFires, Serve, ChangeToken, vars
<1> QED
  BY <1>1, <1>2, Typing, PTL DEF Spec

-----------------------------------------------------------------------------
(* A new idea. *)

\* Trimming keeps the idea that comes last.
LEMMA NewestIdeaOutlasts ==
    ASSUME NEW S, NEW e \in S, IsIdea(e), e.id \in Nat,
           \A o \in S : o.id \in Nat /\ o.id <= e.id, MaxItems > 0
    PROVE  e \in Trimmed(S)
<1>1. Outlasting(S, e) = {}
  BY DEF Outlasting, EvictedBefore
<1>2. e \in WithinCount(S)
  BY <1>1, FS_EmptySet DEF WithinCount
<1>3. Outlasting(WithinCount(S), e) = {}
  BY <1>1 DEF Outlasting, WithinCount
<1> QED
  BY <1>2, <1>3 DEF Trimmed, WithinBytes

(* The push of an idea never evicts that idea.                             *)
THEOREM NewIdeasStay == Spec => NewIdeaStays
<1> DEFINE Stays == MaxItems > 0 => \A size \in Sizes, saved \in BOOLEAN :
                        Push("idea", size, saved) => pushes' \in Ids(items'[token.scope])
<1>1. TypeOK /\ LimitInv /\ [Next]_vars => [Stays]_vars
  <2> SUFFICES ASSUME TypeOK, LimitInv, MaxItems > 0, NEW size \in Sizes, NEW saved \in BOOLEAN,
                      Push("idea", size, saved)
               PROVE  pushes' \in Ids(items'[token.scope])
    OBVIOUS
  <2> DEFINE s == token.scope
             entry == [id |-> pushes + 1, kind |-> "idea", size |-> size]
  <2>1. s \in Scopes /\ pushes \in Nat /\ pushes' = pushes + 1
    BY QueueAssumption DEF Push, TypeOK, Tokens
  <2>2. PICK mem : Load(s, mem) /\ items' = [items EXCEPT ![s] = Trimmed(mem \cup {entry})]
    BY DEF Push
  <2>3. \A o \in mem : o.id \in Nat /\ o.id <= pushes
    BY <2>1, <2>2, LoadedBounded DEF Bounded, Entry, Entries
  <2>4. /\ entry.id = pushes + 1 /\ entry.id \in Nat /\ IsIdea(entry)
        /\ \A o \in mem \cup {entry} : o.id \in Nat /\ o.id <= entry.id
    BY <2>1, <2>3 DEF IsIdea
  <2> HIDE DEF entry, s
  <2>5. entry \in Trimmed(mem \cup {entry})
    BY <2>4, NewestIdeaOutlasts
  <2>6. items'[s] = Trimmed(mem \cup {entry})
    BY <2>1, <2>2 DEF TypeOK
  <2> QED
    BY <2>1, <2>4, <2>5, <2>6 DEF Ids, s
<1> QED
  BY <1>1, Typing, QueuesAreBounded, PTL DEF Spec, NewIdeaStays

-----------------------------------------------------------------------------
(* The course of a flush: it sends no more than it took, ideas and other   *)
(* captures apart, and each answer leaves it less to send.                 *)

Sorted(ideas, batch) ==
    /\ IsFiniteSet(ideas \cup batch) /\ Cardinality(ideas \cup batch) <= BatchSize
    /\ \A e \in ideas : IsIdea(e)
    /\ \A e \in batch : ~IsIdea(e)

FlushInv == \A f \in Flushers : flush[f].pc # "idle" => Sorted(flush[f].ideas, flush[f].batch)

\* What is sorted stays so when less is left to send.
LEMMA SortedSubset ==
    ASSUME NEW ideas, NEW batch, Sorted(ideas, batch), NEW rest \in SUBSET ideas
    PROVE  Sorted(rest, batch)
<1>1. /\ IsFiniteSet(rest \cup batch)
      /\ Cardinality(rest \cup batch) <= Cardinality(ideas \cup batch)
      /\ Cardinality(rest \cup batch) \in Nat /\ Cardinality(ideas \cup batch) \in Nat
  <2>1. rest \cup batch \subseteq ideas \cup batch
    OBVIOUS
  <2> QED
    BY <2>1, FS_Subset, FS_CardinalityType DEF Sorted
<1> QED
  BY <1>1, LimitsAssumption DEF Sorted

\* A flush starts with the first entries of the memory, sorted.
LEMMA LaunchSorted ==
    ASSUME TypeOK, FlushInv, NEW f \in Flushers, NEW s, NEW mem \in SUBSET Entry, NEW timed,
           Launch(f, s, mem, timed), Bounded(mem, pushes)
    PROVE  /\ FlushInv'
           /\ \A g \in Flushers : flush[g].pc # "idle" => flush'[g] = flush[g]
<1> DEFINE taken == Snapshot(mem)
           n == Start(s, taken, timed)
<1>1. n.ideas = Ideas(taken) /\ n.batch = taken \ Ideas(taken)
  BY DEF Start, AwaitNext, Pending
<1>2. IsQueue(mem)
  BY EntriesAreQueue DEF Bounded
<1>3. IsFiniteSet(taken) /\ Cardinality(taken) <= BatchSize
  BY <1>2, SnapshotBounded
<1>4. Ideas(taken) \cup (taken \ Ideas(taken)) = taken
  BY DEF Ideas
<1> HIDE DEF taken
<1>5. Sorted(Ideas(taken), taken \ Ideas(taken))
  BY <1>3, <1>4 DEF Sorted, Ideas
<1>6. flush[f].pc = "idle" /\ (flush' = flush \/ flush' = [flush EXCEPT ![f] = n])
  BY DEF Launch, taken
<1> HIDE DEF n
<1> QED
  BY <1>1, <1>5, <1>6 DEF FlushInv, TypeOK

\* An answer ends the flush, or leaves one idea fewer.
LEMMA AnswerShrinks ==
    ASSUME TypeOK, FlushInv, NEW f \in Flushers, Answer(f)
    PROVE  /\ \A g \in Flushers \ {f} : flush'[g] = flush[g]
           /\ flush'[f].pc # "idle" =>
                /\ flush'[f].ideas \subseteq flush[f].ideas /\ flush'[f].batch = flush[f].batch
                /\ ToSend(f)' # ToSend(f)
<1>1. PICK acked : AfterRequest(f, acked) /\ flush[f].pc # "idle"
  BY DEF Answer, Accepted, PartlyAccepted, Unanswered, Unauthorized
<1> DEFINE rest == flush[f].ideas \ Request(f)
           n == AwaitNext(flush[f].scope, flush[f].as, flush[f].timed, rest, flush[f].batch, acked)
<1>2. \/ flush' = [flush EXCEPT ![f] = Idle]
      \/ flush[f].pc = "idea" /\ flush' = [flush EXCEPT ![f] = n]
  BY <1>1 DEF AfterRequest, Proceed, Complete
<1>3. n.ideas = rest /\ n.batch = flush[f].batch
  BY DEF AwaitNext, Pending
<1>4. DOMAIN flush = Flushers
  BY DEF TypeOK
<1>5. flush[f].pc = "idea" => rest \cup flush[f].batch # flush[f].ideas \cup flush[f].batch
  <2> SUFFICES ASSUME flush[f].pc = "idea"
               PROVE  rest \cup flush[f].batch # flush[f].ideas \cup flush[f].batch
    OBVIOUS
  <2> DEFINE first == Oldest(flush[f].ideas)
  <2>1. Request(f) = {first}
    BY DEF Request
  <2>2. Request(f) \subseteq flush[f].ideas
    BY RequestSubset DEF TypeOK, FlushOK
  <2> HIDE DEF first
  <2>3. first \in flush[f].ideas /\ first \notin rest
    BY <2>1, <2>2
  <2>4. first \notin flush[f].batch
    BY <1>1, <2>3 DEF FlushInv, Sorted
  <2> QED
    BY <2>3, <2>4
<1> HIDE DEF n
<1>6. \A g \in Flushers \ {f} : flush'[g] = flush[g]
  BY <1>2, <1>4
<1>7. Idle.pc = "idle"
  BY DEF Idle
<1>8. flush'[f].pc # "idle" => flush'[f] = n /\ flush[f].pc = "idea"
  BY <1>2, <1>4, <1>7
<1> QED
  BY <1>3, <1>5, <1>6, <1>8 DEF ToSend

\* The backend's work leaves what is still to be sent as it is.
LEMMA ServeShrinksNothing ==
    ASSUME TypeOK, NEW f \in Flushers, Serve(f)
    PROVE  \A g \in Flushers : flush'[g].pc = flush[g].pc
               /\ (flush[g].pc # "idle" =>
                      flush'[g].ideas = flush[g].ideas /\ flush'[g].batch = flush[g].batch)
<1>1. PICK taken : flush' = [flush EXCEPT ![f].served = TRUE, ![f].taken = taken]
  BY DEF Serve
<1>2. flush[f] \in FlushRecord /\ DOMAIN flush = Flushers
  BY RequestSubset DEF Serve, TypeOK, FlushOK
<1> QED
  BY <1>1, <1>2 DEF FlushRecord

\* What every step does to the flushes in progress.
LEMMA FlushStep ==
    ASSUME TypeOK, LimitInv, FlushInv, Next
    PROVE  /\ FlushInv'
           /\ \A f \in Flushers : flush[f].pc # "idle" /\ flush'[f].pc # "idle" =>
                 ToSend(f)' \subseteq ToSend(f) /\ (Answer(f) => ToSend(f)' # ToSend(f))
<1> DEFINE Advances(f) == flush[f].pc # "idle" /\ flush'[f].pc # "idle" =>
               ToSend(f)' \subseteq ToSend(f) /\ (Answer(f) => ToSend(f)' # ToSend(f))
           Goal == FlushInv' /\ \A f \in Flushers : Advances(f)
           Kept == \A g \in Flushers : flush[g].pc # "idle" => flush'[g] = flush[g]
<1>1. ASSUME NEW f \in Flushers, Answer(f)
      PROVE  flush[f].pc # "idle" /\ (flush'[f].pc # "idle" => ToSend(f)' # ToSend(f))
  BY <1>1, AnswerShrinks DEF Answer, Accepted, PartlyAccepted, Unanswered, Unauthorized
<1>2. ASSUME FlushInv', Kept
      PROVE  Goal
  <2>1. \A f \in Flushers : flush[f].pc # "idle" => ToSend(f)' = ToSend(f)
    BY <1>2 DEF ToSend
  <2> QED
    BY <1>1, <1>2, <2>1
<1>3. ASSUME UNCHANGED flush
      PROVE  Goal
  BY <1>2, <1>3 DEF FlushInv
<1>4. ASSUME NEW f \in Flushers, NEW s \in Scopes, NEW mem, Load(s, mem), Launch(f, s, mem, FALSE)
      PROVE  Goal
  BY <1>2, <1>4, LoadedBounded, LaunchSorted
<1>5. token.scope # NoScope => token.scope \in Scopes
  BY DEF TypeOK, Tokens
<1>6. ASSUME NEW f \in Flushers, FlushNow(f)
      PROVE  Goal
  <2> HIDE DEF Goal
  <2> QED
    BY <1>4, <1>5, <1>6 DEF FlushNow
<1>7. ASSUME NEW s \in Scopes, NEW f \in Flushers, TimerFires(s, f)
      PROVE  Goal
  <2>1. items[s] \in SUBSET Entry /\ Bounded(items[s], pushes)
    BY DEF TypeOK, LimitInv
  <2> QED
    BY <1>2, <1>7, <2>1, LaunchSorted DEF TimerFires
<1>8. ASSUME NEW f \in Flushers, Answer(f)
      PROVE  Goal
  <2>1. FlushInv'
    BY <1>1, <1>8, AnswerShrinks, SortedSubset DEF FlushInv
  <2>2. \A g \in Flushers : Advances(g)
    BY <1>1, <1>8, AnswerShrinks DEF ToSend
  <2> QED
    BY <2>1, <2>2
<1>9. ASSUME NEW f \in Flushers, Serve(f)
      PROVE  Goal
  <2>1. FlushInv'
    BY <1>9, ServeShrinksNothing DEF FlushInv
  <2>2. \A g \in Flushers : flush[g].pc # "idle" => ToSend(g)' = ToSend(g)
    BY <1>9, ServeShrinksNothing DEF ToSend
  <2> QED
    BY <1>1, <2>1, <2>2
<1>10. ASSUME Restart
       PROVE  Goal
  <2>1. \A g \in Flushers : flush'[g].pc = "idle"
    BY <1>10 DEF Restart, Idle
  <2> QED
    BY <2>1 DEF FlushInv
<1>11. Goal
  <2> HIDE DEF Goal
  <2> QED
    BY <1>3, <1>6, <1>7, <1>8, <1>9, <1>10 DEF Next, Work, Capture, Push, Summary, ChangeToken
<1> QED
  BY <1>11

\* The inductive invariant of the flushes holds in every reachable state.
THEOREM FlushesAreSorted == Spec => []FlushInv
<1>1. Init => FlushInv
  BY DEF Init, FlushInv, Idle
<1>2. TypeOK /\ LimitInv /\ FlushInv /\ [Next]_vars => FlushInv'
  <2>1. CASE UNCHANGED vars
    BY <2>1 DEF FlushInv, vars
  <2> QED
    BY <2>1, FlushStep
<1> QED
  BY <1>1, <1>2, Typing, QueuesAreBounded, PTL DEF Spec

(* No flush ever has more than BatchSize entries to send ...               *)
THEOREM FlushesAreBounded == Spec => []FlushIsBounded
<1>1. FlushInv => FlushIsBounded
  BY DEF FlushInv, Sorted, FlushIsBounded, ToSend
<1> QED
  BY <1>1, FlushesAreSorted, PTL

(* ... and every answer leaves it fewer.                                   *)
THEOREM FlushesAdvance == Spec => FlushAdvances
<1> DEFINE A == \A f \in Flushers : flush[f].pc # "idle" /\ flush'[f].pc # "idle" =>
                    ToSend(f)' \subseteq ToSend(f) /\ (Answer(f) => ToSend(f)' # ToSend(f))
<1>1. TypeOK /\ LimitInv /\ FlushInv /\ [Next]_vars => [A]_vars
  BY FlushStep
<1> QED
  BY <1>1, Typing, QueuesAreBounded, FlushesAreSorted, PTL DEF Spec, FlushAdvances
=============================================================================
