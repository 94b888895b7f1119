------------------------------ MODULE BrainDump ------------------------------
(***************************************************************************)
(* An idea typed into the Brain Dump widget: the handler of the IPC        *)
(* send-brain-dump in src/main/ipcHandlers.js, and what then becomes of    *)
(* the idea.  It is posted at once, and pushed to the capture queue when   *)
(* that fails; the push may fail too, which the handler does not look at.  *)
(* Of the queue this module has its memory and its file, with the writes   *)
(* that fail.  Evictions, the retention and files that cannot be read are  *)
(* left to CaptureQueue.                                                   *)
(***************************************************************************)
EXTENDS Integers

CONSTANTS Ideas,
          MaxRecords   \* bounds the records of one idea that are counted

ASSUME IdeasAssumption == MaxRecords \in Nat /\ MaxRecords > 2

VARIABLES
    session,   \* no token, one that is not usable, or a usable one
    stage,     \* [idea]: how far the handler is with it
    queue,     \* ideas in the capture queue, as it has them in memory
    file,      \* ideas in the file of the queue
    sending,   \* ideas that a flush of the queue is posting
    records,   \* [idea]: how many records of it the backend has made
    keyed      \* ideas it has recorded under their client_capture_id

vars == <<session, stage, queue, file, sending, records, keyed>>

Sessions == {"none", "expired", "usable"}

\* Typed; posted; posted and processed by the backend; answered queued: false,
\* or queued: true, and then with the idea written to the file, in memory only
\* since the write failed, or in neither; or the process ended before the answer.
Stages ==
    {"typed", "posted", "processed", "sent", "queued", "unsaved", "refused", "cut"}

\* What the renderer was told.
Answered(i) == stage[i] \in {"sent", "queued", "unsaved", "refused"}

Counted(n) == IF n > MaxRecords THEN MaxRecords ELSE n

\* persistCaptureQueue: the whole memory over the file, or nothing if it throws.
Persist(saved) == file' = IF saved THEN queue' ELSE file

\* pushCaptureForLater returns true; or false, as the write failed after memory
\* was changed; or false, as the directory of an unused queue cannot be made.
Push(i, saved) ==
    /\ queue' = queue \cup {i}
    /\ Persist(saved)
    /\ stage' = [stage EXCEPT ![i] = IF saved THEN "queued" ELSE "unsaved"]

PushRefused(i) ==
    /\ stage' = [stage EXCEPT ![i] = "refused"]
    /\ UNCHANGED <<queue, file>>

\* A slip: the push is taken to succeed once the idea is in memory.
QueueForLaterUnwritten(i) ==
    IF session = "none" THEN PushRefused(i)
    ELSE \E saved \in BOOLEAN :
           /\ queue' = queue \cup {i}
           /\ Persist(saved)
           /\ stage' = [stage EXCEPT ![i] = "queued"]

\* queueForLater.  Without a token there is no scope, and the queue refuses; the
\* handler does not look at what it returned.
QueueForLater(i) ==
    \/ session # "none" /\ \E saved \in BOOLEAN : Push(i, saved)
    \/ (session = "none" \/ queue \cup file = {}) /\ PushRefused(i)

\* The handler, up to its post.
SendBrainDump(i) ==
    /\ stage[i] = "typed"
    /\ IF session = "usable"
       THEN stage' = [stage EXCEPT ![i] = "posted"] /\ UNCHANGED <<queue, file>>
       ELSE QueueForLater(i)
    /\ UNCHANGED <<session, sending, records, keyed>>

\* The backend records the idea.  The direct post bears no client_capture_id.
Process(i) ==
    /\ stage[i] = "posted"
    /\ stage' = [stage EXCEPT ![i] = "processed"]
    /\ records' = [records EXCEPT ![i] = Counted(@ + 1)]
    /\ UNCHANGED <<session, queue, file, sending, keyed>>

\* A 2xx.
PostSucceeds(i) ==
    /\ stage[i] = "processed"
    /\ stage' = [stage EXCEPT ![i] = "sent"]
    /\ UNCHANGED <<session, queue, file, sending, records, keyed>>

\* Any other status, no connection, or no answer within ten seconds, whether or
\* not the backend has the idea.
PostFails(i) ==
    /\ stage[i] \in {"posted", "processed"}
    /\ QueueForLater(i)
    /\ UNCHANGED <<session, sending, records, keyed>>

-----------------------------------------------------------------------------
(* The queue replays it under its key.  Two flushes may post the same idea: *)
(* the second request changes nothing, and is left out.                    *)

\* A slip: an idea is dequeued as it is posted.
ReplayDequeued(i) ==
    /\ i \in queue \ sending
    /\ session = "usable"
    /\ sending' = sending \cup {i}
    /\ queue' = queue \ {i}
    /\ Persist(TRUE)
    /\ UNCHANGED <<session, stage, records, keyed>>

\* A slip: every replay is given a new id, which the backend cannot know.
ReplayRekeyed(i) ==
    /\ i \in queue \ sending
    /\ session = "usable"
    /\ sending' = sending \cup {i}
    /\ keyed' = keyed \ {i}
    /\ UNCHANGED <<session, stage, queue, file, records>>

Replay(i) ==
    /\ i \in queue \ sending
    /\ session = "usable"
    /\ sending' = sending \cup {i}
    /\ UNCHANGED <<session, stage, queue, file, records, keyed>>

\* The backend makes one record of a key.
ProcessReplay(i) ==
    /\ i \in sending
    /\ records' = IF i \in keyed THEN records ELSE [records EXCEPT ![i] = Counted(@ + 1)]
    /\ keyed' = keyed \cup {i}
    /\ UNCHANGED <<session, stage, queue, file, sending>>

\* The flush ends: what was acknowledged leaves the memory, which is written.
ReplaySucceeds(i) ==
    /\ i \in sending \cap keyed
    /\ sending' = sending \ {i}
    /\ queue' = queue \ {i}
    /\ \E saved \in BOOLEAN : Persist(saved)
    /\ UNCHANGED <<session, stage, records, keyed>>

ReplayFails(i) ==
    /\ i \in sending
    /\ sending' = sending \ {i}
    /\ UNCHANGED <<session, stage, queue, records, keyed>>
    /\ \E saved \in BOOLEAN : Persist(saved)

-----------------------------------------------------------------------------

\* A capture of tracking is pushed: its write has the ideas along.
PushCapture ==
    /\ session # "none"
    /\ UNCHANGED <<session, stage, queue, sending, records, keyed>>
    /\ Persist(TRUE)

ChangeSession ==
    /\ session' \in Sessions \ {session}
    /\ UNCHANGED <<stage, queue, file, sending, records, keyed>>

\* The process ends with the ideas that await an answer, and the queue is as its
\* file has it; a token that has expired does not survive it.
Restart ==
    /\ stage' = [i \in Ideas |->
                    IF stage[i] \in {"posted", "processed"} THEN "cut" ELSE stage[i]]
    /\ session' = IF session = "expired" THEN "none" ELSE session
    /\ sending' = {}
    /\ queue' = file
    /\ UNCHANGED <<file, records, keyed>>

Init ==
    /\ session \in Sessions
    /\ stage = [i \in Ideas |-> "typed"]
    /\ queue = {}
    /\ file = {}
    /\ sending = {}
    /\ records = [i \in Ideas |-> 0]
    /\ keyed = {}

Next ==
    \/ \E i \in Ideas :
         \/ SendBrainDump(i)
         \/ Process(i) \/ PostSucceeds(i) \/ PostFails(i)
         \/ Replay(i) \/ ProcessReplay(i) \/ ReplaySucceeds(i) \/ ReplayFails(i)
    \/ PushCapture
    \/ ChangeSession
    \/ Restart

Spec == Init /\ [][Next]_vars

-----------------------------------------------------------------------------
(* Properties *)

\* Every variable has its type, and what is being replayed is still queued.
TypeOK ==
    /\ session \in Sessions
    /\ stage \in [Ideas -> Stages]
    /\ queue \in SUBSET Ideas
    /\ file \in SUBSET Ideas
    /\ sending \in SUBSET queue
    /\ records \in [Ideas -> 0 .. MaxRecords]
    /\ keyed \in SUBSET Ideas

\* An idea that was sent, or whose push returned true, is recorded or in the
\* file, from which a restart takes it up: whatever else was written over the
\* file or failed to be, however often its replay was cut off, and whatever
\* became of the session.
AcceptedIdeaIsKept ==
    \A i \in Ideas : stage[i] \in {"sent", "queued"} => records[i] > 0 \/ i \in file

\* The backend never has an idea more than twice, and twice only if the first
\* post was recorded and its answer lost: replays add nothing.
AtMostOneReplayIsRecorded ==
    \A i \in Ideas :
        /\ records[i] <= 2
        /\ records[i] = 2 => stage[i] \in {"queued", "unsaved"} /\ i \in keyed

Remembered(i) == records[i] > 0 \/ i \in queue \cup file

\* What a failed write costs: an idea that is recorded or in the queue is
\* forgotten in one way only, by a restart before any later write, and only if
\* its own push returned false (which the handler has answered with queued: true).
Vanishing ==
    \A i \in Ideas :
        Remembered(i) /\ ~Remembered(i)' =>
            Restart /\ stage[i] = "unsaved" /\ i \in queue \ file

VanishesOnlyUnsaved == [][Vanishing]_vars

\* The ideas whose push returned true.
Accepted == {i \in Ideas : stage[i] = "queued"}

\* The file as this module has it keeps what CapturePromise promises (which
\* CaptureQueue implements) of the accepted ideas: none is ever given up.
Queue == INSTANCE CapturePromise WITH
             Accounts <- {"user"}, Captures <- Ideas,
             owed <- [a \in {"user"} |-> (file \cap Accepted) \ keyed],
             recorded <- keyed \cap Accepted,
             forgone <- {}

QueueKeepsPromise == Queue!Spec

-----------------------------------------------------------------------------
(* What the documents of the repository say and the code does not keep: TLC *)
(* finds each of these violated when a configuration names it (README, 3). *)

\* "Aucun echec ne doit faire disparaitre l'idee : session expiree, ..." (comment
\* in ipcHandlers.js): an idea that the user was told is queued is kept.
NoIdeaVanishes == \A i \in Ideas : Answered(i) => Remembered(i)

\* "rejouee plus tard avec une cle d'idempotence pour ne pas creer de doublon"
\* (README).
NoDuplicate == \A i \in Ideas : records[i] <= 1
=============================================================================
