---------------------------- MODULE CaptureQueue ----------------------------
(***************************************************************************)
(* The offline capture queue: src/main/captureQueue.js behind the routing  *)
(* by account of src/main/scopedCaptureQueue.js.  Each scope (organisation *)
(* and user, derived from the access token) has a service of its own, with *)
(* its memory, its flush timer and its file; the token is the agent's only *)
(* one, shared by all services.                                            *)
(*                                                                         *)
(* JavaScript runs one callback at a time, so an action is a whole run     *)
(* from one await to the next.  A flush is a process of several such runs: *)
(* nothing in the code keeps two flushes of one service apart.             *)
(***************************************************************************)
EXTENDS CaptureLimits

CONSTANTS Scopes,     \* accounts that have used this machine
          NoScope,    \* no token, or one that names no account
          Sizes,      \* sizes a capture may have
          Flushers,   \* bounds the flushes that are in progress together
          MaxPushes,  \* bounds the captures of a behaviour
          MaxFaults   \* bounds the reads and writes of the file that fail

ASSUME QueueAssumption ==
    /\ NoScope \notin Scopes
    /\ Sizes \subseteq Nat \ {0}
    /\ MaxPushes \in Nat
    /\ MaxFaults \in Nat

VARIABLES
    token,       \* the account of the current token, and whether it is usable
    loaded,      \* [scope]: captureQueue is not null
    items,       \* [scope]: captureQueue.items, in memory
    timer,       \* [scope]: captureQueueFlushTimer is armed
    latched,     \* [scope]: authExpirationHandled
    disk,        \* [scope]: capture-queue.json
    flush,       \* [flusher]: a flush in progress, between two of its awaits
    received,    \* [scope]: ids the backend has recorded under that account
    pushes,      \* captures so far; numbers the next one
    faults,      \* failed reads and writes so far
    accepted,    \* ids for which push returned true
    evicted,     \* ids trimmed by a push
    dropped      \* ids a load did not bring back: too old, or unreadable file

vars == <<token, loaded, items, timer, latched, disk, flush, received,
          pushes, faults, accepted, evicted, dropped>>

Entry == Entries(1 .. MaxPushes, Sizes)

Tokens == {t \in [scope : Scopes \cup {NoScope}, usable : BOOLEAN] :
              t.scope = NoScope => ~t.usable}

Ids(S) == {e.id : e \in S}

Ideas(S) == {e \in S : IsIdea(e)}

-----------------------------------------------------------------------------
(* A flush between two awaits has one request out: for the oldest of the   *)
(* ideas it still has to post, or for the batch of everything else.        *)

Idle == [pc |-> "idle"]

FlushRecord ==
    [pc : {"idea", "batch"},
     scope : Scopes,            \* the service it belongs to
     as : Scopes,               \* the account of currentTok, read at its start
     ideas : SUBSET Entry,      \* brainDumps still to post
     batch : SUBSET Entry,      \* activityEvents, until they are answered
     acked : SUBSET Nat,        \* flushedIds
     timed : BOOLEAN,           \* called by the timer, which acts on the result
     served : BOOLEAN,          \* the backend has processed the request
     taken : SUBSET Entry]      \* what it recorded of the request

Request(f) == IF flush[f].pc = "idea" THEN {Oldest(flush[f].ideas)} ELSE flush[f].batch

Flushing(s) == \E f \in Flushers : flush[f].pc # "idle" /\ flush[f].scope = s

Scheduled(s) == timer[s] \/ Flushing(s)

Pending(s, as, timed, pc, ideas, batch, acked) ==
    [pc |-> pc, scope |-> s, as |-> as, ideas |-> ideas, batch |-> batch,
     acked |-> acked, timed |-> timed, served |-> FALSE, taken |-> {}]

\* A slip: the endpoint of the ideas is used for whatever remains.
AwaitIdea(s, as, timed, ideas, batch, acked) ==
    Pending(s, as, timed, "idea", ideas, batch, acked)

\* Post the next idea, or else the batch.
AwaitNext(s, as, timed, ideas, batch, acked) ==
    Pending(s, as, timed, IF ideas # {} THEN "idea" ELSE "batch", ideas, batch, acked)

Start(s, taken, timed) ==
    AwaitNext(s, token.scope, timed, Ideas(taken), taken \ Ideas(taken), {})

-----------------------------------------------------------------------------
(* The file.  Both operations are synchronous; a write goes to a temporary *)
(* file that is then renamed, so it happens entirely or not at all.        *)

\* What loadCaptureQueueIfNeeded may bring into memory: the file without the
\* entries older than the retention (a prefix), or nothing if it is unreadable.
LoadResults(s) ==
    IF loaded[s] THEN {items[s]}
    ELSE {disk[s]} \cup {{e \in disk[s] : e.id > limit} : limit \in Ids(disk[s])}

Load(s, mem) ==
    /\ mem \in LoadResults(s)
    /\ loaded' = [loaded EXCEPT ![s] = TRUE]
    /\ dropped' = IF loaded[s] THEN dropped ELSE dropped \cup Ids(disk[s] \ mem)

\* A slip: one file for all accounts.
SaveForAll(s, mem, saved) == disk' = IF saved THEN [a \in Scopes |-> mem] ELSE disk

Save(s, mem, saved) == disk' = IF saved THEN [disk EXCEPT ![s] = mem] ELSE disk

Fault(failed) ==
    /\ faults' = IF failed THEN faults + 1 ELSE faults
    /\ faults' <= MaxFaults

LostOnLoad(s, mem) == ~loaded[s] /\ mem # disk[s]

-----------------------------------------------------------------------------
(* pushCaptureForLater.  Memory is changed before the file: if the write   *)
(* throws, push returns false and schedules nothing, yet keeps the entry.  *)

Push(kind, size, saved) ==
    LET s == token.scope
        entry == [id |-> pushes + 1, kind |-> kind, size |-> size]
    IN
    /\ s # NoScope
    /\ pushes < MaxPushes
    /\ pushes' = pushes + 1
    /\ \E mem \in LoadResults(s) :
         LET kept == Trimmed(mem \cup {entry})
         IN /\ Load(s, mem)
            /\ Fault(LostOnLoad(s, mem) \/ ~saved)
            /\ items' = [items EXCEPT ![s] = kept]
            /\ evicted' = evicted \cup Ids((mem \cup {entry}) \ kept)
            /\ Save(s, kept, saved)
    /\ timer' = [timer EXCEPT ![s] = saved \/ timer[s]]
    /\ accepted' = IF saved THEN accepted \cup {entry.id} ELSE accepted
    /\ UNCHANGED <<token, latched, flush, received>>

\* getCaptureQueueSummary, for the diagnostics export: it may be what loads.
Summary ==
    LET s == token.scope
    IN
    /\ s # NoScope
    /\ ~loaded[s]
    /\ \E mem \in LoadResults(s) :
         /\ Load(s, mem)
         /\ Fault(LostOnLoad(s, mem))
         /\ items' = [items EXCEPT ![s] = mem]
    /\ UNCHANGED <<token, timer, latched, disk, flush, received, pushes, accepted, evicted>>

-----------------------------------------------------------------------------
(* flushCaptureQueueIfPossible, up to its first await.                     *)

Launch(f, s, mem, timed) ==
    /\ flush[f].pc = "idle"
    /\ flush' = IF mem = {} \/ ~token.usable THEN flush
                ELSE [flush EXCEPT ![f] = Start(s, Snapshot(mem), timed)]

\* The tray's "synchronise", or a token refresh that succeeded.
FlushNow(f) ==
    LET s == token.scope
    IN
    /\ s # NoScope
    /\ \E mem \in LoadResults(s) :
         /\ Load(s, mem)
         /\ Fault(LostOnLoad(s, mem))
         /\ items' = [items EXCEPT ![s] = mem]
         /\ Launch(f, s, mem, FALSE)
    /\ UNCHANGED <<token, timer, latched, disk, received, pushes, accepted, evicted>>

\* The timer's callback.  It asks for the current token, whosever it is, and
\* gives up without rescheduling if there is none.
TimerFires(s, f) ==
    /\ timer[s]
    /\ timer' = [timer EXCEPT ![s] = FALSE]
    /\ Launch(f, s, items[s], TRUE)
    /\ UNCHANGED <<token, loaded, items, latched, disk, received, pushes, faults,
                   accepted, evicted, dropped>>

-----------------------------------------------------------------------------
(* The end of a flush: what was acknowledged leaves the queue as it now    *)
(* is.  If the write throws, the exception skips the rescheduling; only    *)
(* the timer's callback catches it and schedules again.                    *)

\* Slips: the queue consumed as a prefix; the filtered array never assigned.
LeftByPosition(s, acked) ==
    {e \in items[s] : Cardinality({o \in items[s] : o.id < e.id}) >= Cardinality(acked)}
LeftUnfiltered(s, acked) == items[s]

\* captureQueue.items.filter((it) => !flushedIds.has(it.id))
Left(s, acked) == {e \in items[s] : e.id \notin acked}

\* A slip: nothing but the timer's callback reschedules.
RearmedByTimerOnly(s, left, acked, timed, saved) ==
    IF ~saved THEN timed \/ timer[s] ELSE timed /\ (acked # {} \/ left # {})

\* Whether the timer is armed when a flush and its caller are done.
Rearmed(s, left, acked, timed, saved) ==
    IF ~saved THEN timed \/ timer[s] ELSE left # {} \/ (timed /\ acked # {})

Complete(f, acked, saved) ==
    LET s == flush[f].scope
        left == Left(s, acked)
    IN
    /\ items' = [items EXCEPT ![s] = left]
    /\ Save(s, left, saved)
    /\ Fault(~saved)
    /\ timer' = [timer EXCEPT ![s] = Rearmed(s, left, acked, flush[f].timed, saved)]
    /\ flush' = [flush EXCEPT ![f] = Idle]

\* The run after an answer: to the next request, or to the end of the flush.
Proceed(f, ideas, batch, acked) ==
    IF ideas \cup batch # {}
    THEN /\ flush' = [flush EXCEPT ![f] = 
                             AwaitNext(flush[f].scope, flush[f].as, flush[f].timed, ideas, batch, acked)]
         /\ UNCHANGED <<items, timer, disk, faults>>
    ELSE \E saved \in BOOLEAN : Complete(f, acked, saved)

AfterRequest(f, acked) ==
    /\ IF flush[f].pc = "idea"
       THEN Proceed(f, flush[f].ideas \ Request(f), flush[f].batch, acked)
       ELSE Proceed(f, {}, {}, acked)
    /\ UNCHANGED <<token, loaded, received, pushes, accepted, evicted, dropped>>

\* The status is 2xx and the answer lists no failed event.
FullyTaken(f) == flush[f].served /\ flush[f].taken = Request(f)

\* The whole request is acknowledged.
Accepted(f) ==
    /\ flush[f].pc # "idle"
    /\ FullyTaken(f)
    /\ AfterRequest(f, flush[f].acked \cup Ids(Request(f)))
    /\ UNCHANGED latched

\* A 2xx answer to the batch that lists failed events: none is acknowledged.
PartlyAccepted(f) ==
    /\ flush[f].pc = "batch" /\ flush[f].served
    /\ ~FullyTaken(f)
    /\ AfterRequest(f, flush[f].acked)
    /\ UNCHANGED latched

\* A slip: flushedIds.add before the answer is there to be checked.
AcknowledgedUnanswered(f) ==
    /\ flush[f].pc # "idle"
    /\ AfterRequest(f, flush[f].acked \cup Ids(Request(f)))
    /\ UNCHANGED latched

\* No answer in 15 s, whatever became of the request, or no connection.
Unanswered(f) ==
    /\ flush[f].pc # "idle"
    /\ AfterRequest(f, flush[f].acked)
    /\ UNCHANGED latched

\* A 401: the session is told, once in the life of the service.
Unauthorized(f) ==
    /\ flush[f].pc # "idle" /\ ~flush[f].served
    /\ AfterRequest(f, flush[f].acked)
    /\ latched' = [latched EXCEPT ![flush[f].scope] = TRUE]

-----------------------------------------------------------------------------
(* The environment.                                                        *)

\* The backend processes a request under the account of its cookie.  It files
\* an idea under its client_capture_id, so a replay makes no second record.
Serve(f) ==
    /\ flush[f].pc # "idle" /\ ~flush[f].served
    /\ \E taken \in SUBSET Request(f) :
         /\ flush[f].pc = "idea" => taken = Request(f)
         /\ flush' = [flush EXCEPT ![f].served = TRUE, ![f].taken = taken]
         /\ received' = [received EXCEPT ![flush[f].as] = @ \cup Ids(taken)]
    /\ UNCHANGED <<token, loaded, items, timer, latched, disk, pushes, faults,
                   accepted, evicted, dropped>>

\* Login, logout, expiry, refresh: the session is a module of its own.
ChangeToken ==
    /\ token' \in Tokens \ {token}
    /\ UNCHANGED <<loaded, items, timer, latched, disk, flush, received, pushes,
                   faults, accepted, evicted, dropped>>

\* The process ends, by a quit (stop() clears the timers) or a crash, and starts anew.
Restart ==
    /\ loaded' = [s \in Scopes |-> FALSE]
    /\ items' = [s \in Scopes |-> {}]
    /\ timer' = [s \in Scopes |-> FALSE]
    /\ latched' = [s \in Scopes |-> FALSE]
    /\ flush' = [f \in Flushers |-> Idle]
    /\ UNCHANGED <<token, disk, received, pushes, faults, accepted, evicted, dropped>>

Init ==
    /\ token \in Tokens
    /\ loaded = [s \in Scopes |-> FALSE]
    /\ items = [s \in Scopes |-> {}]
    /\ timer = [s \in Scopes |-> FALSE]
    /\ latched = [s \in Scopes |-> FALSE]
    /\ disk = [s \in Scopes |-> {}]
    /\ flush = [f \in Flushers |-> Idle]
    /\ received = [s \in Scopes |-> {}]
    /\ pushes = 0
    /\ faults = 0
    /\ accepted = {}
    /\ evicted = {}
    /\ dropped = {}

Answer(f) == Accepted(f) \/ PartlyAccepted(f) \/ Unanswered(f) \/ Unauthorized(f)

Capture == \E kind \in Kinds, size \in Sizes, saved \in BOOLEAN : Push(kind, size, saved)

Work ==
    \/ Capture
    \/ Summary
    \/ \E f \in Flushers :
         \/ FlushNow(f)
         \/ \E s \in Scopes : TimerFires(s, f)
         \/ Answer(f)
         \/ Serve(f)

Next == Work \/ ChangeToken \/ Restart

Spec == Init /\ [][Next]_vars

(* What the environment owes: a timer that is due fires, a request ends,   *)
(* and a backend asked over and over does process it and answer in time.   *)
ServeAll(f) == Serve(f) /\ flush'[f].taken = Request(f)

Fairness ==
    /\ \A s \in Scopes : WF_vars(\E f \in Flushers : TimerFires(s, f))
    /\ \A f \in Flushers :
         WF_vars(Answer(f)) /\ SF_vars(ServeAll(f)) /\ SF_vars(Accepted(f))

FairSpec == Spec /\ Fairness

-----------------------------------------------------------------------------
(* Properties *)

\* Every variable has its type; a request in progress always has something
\* to send, and an idle flusher keeps nothing of its last flush.
TypeOK ==
    /\ token \in Tokens
    /\ loaded \in [Scopes -> BOOLEAN]
    /\ items \in [Scopes -> SUBSET Entry]
    /\ timer \in [Scopes -> BOOLEAN]
    /\ latched \in [Scopes -> BOOLEAN]
    /\ disk \in [Scopes -> SUBSET Entry]
    /\ flush \in [Flushers -> FlushRecord \cup {Idle}]
    /\ \A f \in Flushers :
         /\ flush[f].pc = "idea" => flush[f].ideas # {}
         /\ flush[f].pc = "batch" => flush[f].ideas = {} /\ flush[f].batch # {}
    /\ received \in [Scopes -> SUBSET Nat]
    /\ pushes \in 0 .. MaxPushes
    /\ faults \in 0 .. MaxFaults
    /\ accepted \subseteq 1 .. MaxPushes
    /\ evicted \subseteq 1 .. MaxPushes
    /\ dropped \subseteq 1 .. MaxPushes

\* However pushes, flushes, failed writes and restarts interleave, neither the
\* memory nor the file of an account ever exceeds the item limit ...
ItemLimit ==
    \A s \in Scopes : Cardinality(items[s]) <= MaxItems /\ Cardinality(disk[s]) <= MaxItems

\* ... and one that exceeds the byte limit holds a single entry.
ByteLimit ==
    \A s \in Scopes : \A S \in {items[s], disk[s]} :
        Bytes(S) <= MaxBytes \/ Cardinality(S) <= 1

Settled(id) == id \in evicted \cup dropped \/ \E s \in Scopes : id \in received[s]

\* A capture whose push returned true is never just gone: it is in the file,
\* or was recorded by the backend, or made room for another, or was too old or
\* unreadable at a restart.  So a crash at any await loses nothing else.
AcceptedIsDurable ==
    \A id \in accepted : Settled(id) \/ \E s \in Scopes : id \in Ids(disk[s])

\* What the file of a running service holds beyond its memory (a write failed)
\* is settled, so that the next write, which replaces it, forgets nothing.
FileIsAccountedFor ==
    \A s \in Scopes : loaded[s] => \A e \in disk[s] : e \in items[s] \/ Settled(e.id)

\* A flush acknowledges, and so deletes, only what the backend has recorded
\* under the account the flush runs for; also with two flushes of one service
\* sending the same entries, and failures in between.
AcknowledgedIsReceived ==
    \A f \in Flushers :
        flush[f].pc # "idle" => flush[f].acked \subseteq received[flush[f].as]

\* An entry leaves the memory of a running service only by an acknowledgement
\* or an eviction, and an idea is evicted only if all that survives is ideas.
Removal ==
    \A s \in Scopes : loaded[s] /\ loaded'[s] =>
        \A e \in items[s] \ items'[s] :
            \/ \E a \in Scopes : e.id \in received[a]
            \/ /\ e.id \in evicted'
               /\ IsIdea(e) => \A o \in items'[s] : IsIdea(o)

EntriesLeaveForAReason == [][Removal]_vars

\* The memory of a running service is what its file holds, so that a crash at any
\* await loses nothing of it, until a read leaves something out or a write fails.
MemoryIsFile == faults = 0 => \A s \in Scopes : loaded[s] => items[s] = disk[s]

\* An idea is never evicted by its own push, however large it is and however
\* many ideas there are: what the user has just written is in the queue.
NewIdeaStays ==
    [][MaxItems > 0 => \A size \in Sizes, saved \in BOOLEAN :
          Push("idea", size, saved) => pushes' \in Ids(items'[token.scope])]_vars

\* What a flush has still to send.
ToSend(f) == flush[f].ideas \cup flush[f].batch

\* A flush has at most BatchSize entries to send, whatever is pushed, loaded or
\* sent by others meanwhile ...
FlushIsBounded ==
    \A f \in Flushers : flush[f].pc # "idle" => Cardinality(ToSend(f)) <= BatchSize

\* ... and each answer, good or bad, leaves it fewer, and nothing adds any: it is
\* over after a bounded number of answers.
FlushAdvances ==
    [][\A f \in Flushers : flush[f].pc # "idle" /\ flush'[f].pc # "idle" =>
          ToSend(f)' \subseteq ToSend(f) /\ (Answer(f) => ToSend(f)' # ToSend(f))]_vars

\* Nothing mixes the captures of two accounts: an entry is in the memory, the
\* file and the flushes of one service only, so that what one account pushes or
\* loads evicts nothing of another, whoever is signed in while a flush runs.
Holdings(s) ==
    items[s] \cup disk[s] \cup UNION {flush[f].ideas \cup flush[f].batch :
        f \in {g \in Flushers : flush[g].pc # "idle" /\ flush[g].scope = s}}

AccountsAreApart ==
    \A s, t \in Scopes : s # t => Ids(Holdings(s)) \cap Ids(Holdings(t)) = {}

(* What is promised to those who push: the captures for which push returned *)
(* true, of which the file is what counts, not the memory.                  *)
Recorded == accepted \cap UNION {received[s] : s \in Scopes}
Owed == [s \in Scopes |-> {id \in accepted \cap Ids(disk[s]) : ~Settled(id)}]
Forgone == (accepted \cap (evicted \cup dropped)) \ Recorded

Promise == INSTANCE CapturePromise WITH
               Accounts <- Scopes, Captures <- 1 .. MaxPushes,
               owed <- Owed, recorded <- Recorded, forgone <- Forgone

\* The queue implements CapturePromise: whatever a step does to memories, files
\* and requests, to those who push it is the taking of a capture, the loss of
\* some of one account to a limit or a load, their arrival at the backend, or
\* nothing at all.  A crash, a lost answer and a failed write are nothing.
KeepsPromise == Promise!Spec

\* No wake-up is lost: once a flush of a non-empty queue is due or running,
\* one stays due, unless the timer found no usable token or a write failed.
KeepsSchedule ==
    \A s \in Scopes : Scheduled(s) /\ items'[s] # {} /\ ~Scheduled(s)' =>
        ~token.usable \/ faults' > faults

NoLostWakeUp == [][KeepsSchedule]_vars

\* A scheduled queue is drained if the token stays usable, the process alive and
\* no write fails, whatever overlaps and is answered late or not at all.
Drains ==
    \A s \in Scopes :
        (Scheduled(s) /\ items[s] # {})
            ~> \/ items[s] = {} \/ ~token.usable \/ ~loaded[s]
               \/ faults > 0 /\ ~Scheduled(s)

-----------------------------------------------------------------------------
(* What the documents of the repository say and the code does not keep: TLC *)
(* finds each of these violated when a configuration names it (README, 3). *)

\* "rejouee plus tard" (README): whatever was accepted reaches the backend once
\* the token is usable for good.  Under FairSpec.
Replayed ==
    <>[](token.usable) =>
        \A id \in 1 .. MaxPushes :
            id \in accepted ~> Settled(id)

\* The same with a backend whose endpoint for ideas owes nothing.
BatchFairSpec ==
    /\ Spec
    /\ \A s \in Scopes : WF_vars(\E f \in Flushers : TimerFires(s, f))
    /\ \A f \in Flushers :
         /\ WF_vars(Answer(f))
         /\ SF_vars(flush[f].pc = "batch" /\ ServeAll(f))
         /\ SF_vars(flush[f].pc = "batch" /\ Accepted(f))

\* "l'echec d'un flux ne bloque plus l'autre" (README): activities are drained
\* whatever becomes of the ideas.  Under BatchFairSpec.
StreamsAreIndependent ==
    \A s \in Scopes :
        (Scheduled(s) /\ items[s] \ Ideas(items[s]) # {})
            ~> items[s] \subseteq Ideas(items[s]) \/ ~token.usable \/ ~loaded[s]

\* "aucune file locale ne peut etre rejouee sous une autre organisation"
\* (docs/DESKTOP_AGENT_V1_CLOSURE.md): a flush runs under the account whose
\* queue it sends.
NoForeignReplay ==
    \A f \in Flushers : flush[f].pc # "idle" => flush[f].as = flush[f].scope

\* "keep failed items for retry" (captureQueue.js): of a batch the backend
\* accepted in part, what it accepted leaves the queue.
OnlyFailedAreKept ==
    [][\A f \in Flushers : PartlyAccepted(f) =>
          flush[f].taken \cap items'[flush[f].scope] = {}]_vars

\* "les captures d'idees sont exemptees de l'eviction FIFO" (README).
IdeasAreExempt ==
    [][\A s \in Scopes : loaded[s] /\ loaded'[s] =>
          \A e \in Ideas(items[s]) : e.id \notin evicted' \ evicted]_vars
=============================================================================
