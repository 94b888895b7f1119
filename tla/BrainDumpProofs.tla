--------------------------- MODULE BrainDumpProofs ---------------------------
(* What holds of BrainDump for any ideas.                                    *)
EXTENDS BrainDump, TLAPS

\* What the stage of an idea says of the records of it: those its direct post
\* made, and one under its key; and where one is that was pushed.
Tallied ==
    \A i \in Ideas :
        /\ stage[i] \in {"typed", "posted"} => records[i] = 0
        /\ stage[i] \in {"processed", "sent"} => records[i] = 1
        /\ i \in queue \cup file \cup keyed => stage[i] \in {"queued", "unsaved"}
        /\ stage[i] = "queued" => i \in file \cup keyed
        /\ i \in file \ queue => i \in keyed
        /\ i \in keyed => records[i] \in {1, 2}
        /\ i \notin keyed => records[i] \in {0, 1}

\* A first and a second record are counted as such.
LEMMA Counts == \A n \in {0, 1} : Counted(n + 1) = n + 1
BY IdeasAssumption DEF Counted

\* The count of records stays in its range.
LEMMA CountedTypes ==
    ASSUME NEW n \in 0 .. MaxRecords
    PROVE  Counted(n + 1) \in 0 .. MaxRecords
BY IdeasAssumption DEF Counted

\* The steps about one idea keep the types.
LEMMA IdeaTypes ==
    ASSUME TypeOK, NEW i \in Ideas,
           \/ SendBrainDump(i) \/ Process(i) \/ PostSucceeds(i) \/ PostFails(i)
           \/ Replay(i) \/ ProcessReplay(i) \/ ReplaySucceeds(i) \/ ReplayFails(i)
    PROVE  TypeOK'
<1> USE DEF TypeOK, Stages
<1>1. CASE SendBrainDump(i) \/ PostFails(i)
  BY <1>1 DEF SendBrainDump, PostFails, QueueForLater, Push, PushRefused, Persist
<1>2. CASE Process(i)
  BY <1>2, CountedTypes DEF Process
<1>3. CASE PostSucceeds(i)
  BY <1>3 DEF PostSucceeds
<1>4. CASE Replay(i)
  BY <1>4 DEF Replay
<1>5. CASE ProcessReplay(i)
  BY <1>5, CountedTypes DEF ProcessReplay
<1>6. CASE ReplaySucceeds(i)
  BY <1>6 DEF ReplaySucceeds, Persist
<1>7. CASE ReplayFails(i)
  BY <1>7 DEF ReplayFails, Persist
<1> QED  BY <1>1, <1>2, <1>3, <1>4, <1>5, <1>6, <1>7

\* The type invariant holds in every reachable state.
THEOREM Typing == Spec => []TypeOK
<1>1. Init => TypeOK
  BY IdeasAssumption DEF Init, TypeOK, Stages
<1>2. TypeOK /\ [Next]_vars => TypeOK'
  <2> SUFFICES ASSUME TypeOK, [Next]_vars PROVE TypeOK'
    OBVIOUS
  <2>1. CASE ChangeSession
    BY <2>1 DEF ChangeSession, TypeOK
  <2>2. CASE Restart
    BY <2>2 DEF Restart, TypeOK, Sessions, Stages
  <2>3. CASE PushCapture
    BY <2>3 DEF PushCapture, Persist, TypeOK
  <2>4. CASE UNCHANGED vars
    BY <2>4 DEF vars, TypeOK
  <2> QED  BY <2>1, <2>2, <2>3, <2>4, IdeaTypes DEF Next
<1> QED  BY <1>1, <1>2, PTL DEF Spec

\* A push of an idea that is in no queue yet keeps the tally: what it writes over
\* the file without was recorded.
LEMMA PushTallies ==
    ASSUME TypeOK, Tallied, NEW i \in Ideas, QueueForLater(i), UNCHANGED <<records, keyed>>,
           stage[i] \in {"typed", "posted", "processed"}
    PROVE  Tallied'
<1>1. i \notin queue \cup file \cup keyed /\ records[i] \in {0, 1}
  BY DEF TypeOK, Tallied
<1>2. CASE PushRefused(i)
  BY <1>1, <1>2 DEF PushRefused, TypeOK, Tallied
<1>3. ASSUME NEW saved \in BOOLEAN, Push(i, saved)
      PROVE  Tallied'
  <2>1. CASE saved
    BY <1>1, <1>3, <2>1 DEF Push, Persist, TypeOK, Tallied
  <2>2. CASE ~saved
    BY <1>1, <1>3, <2>2 DEF Push, Persist, TypeOK, Tallied
  <2> QED  BY <2>1, <2>2
<1> QED  BY <1>2, <1>3 DEF QueueForLater

\* So does the handler as a whole.
LEMMA HandlerTallies ==
    ASSUME TypeOK, Tallied, NEW i \in Ideas,
           SendBrainDump(i) \/ Process(i) \/ PostSucceeds(i) \/ PostFails(i)
    PROVE  Tallied'
<1>1. CASE SendBrainDump(i)
  <2>1. CASE session = "usable"
    BY <1>1, <2>1 DEF SendBrainDump, TypeOK, Tallied
  <2>2. CASE session # "usable"
    BY <1>1, <2>2, PushTallies DEF SendBrainDump
  <2> QED  BY <2>1, <2>2
<1>2. CASE Process(i)
  <2>1. records[i] = 0
    BY <1>2 DEF Process, Tallied
  <2>2. Counted(records[i] + 1) = 1
    BY <2>1, Counts
  <2>3. records' = [records EXCEPT ![i] = 1]
    BY <1>2, <2>2 DEF Process
  <2> QED  BY <1>2, <2>3 DEF Process, TypeOK, Tallied
<1>3. CASE PostSucceeds(i)
  BY <1>3 DEF PostSucceeds, TypeOK, Tallied
<1>4. CASE PostFails(i)
  BY <1>4, PushTallies DEF PostFails
<1> QED  BY <1>1, <1>2, <1>3, <1>4

\* So does the queue: a key makes one record, and what a write leaves out has one.
LEMMA ReplayTallies ==
    ASSUME TypeOK, Tallied, NEW i \in Ideas,
           Replay(i) \/ ProcessReplay(i) \/ ReplaySucceeds(i) \/ ReplayFails(i)
    PROVE  Tallied'
<1>1. CASE Replay(i) \/ ReplayFails(i)
  BY <1>1 DEF Replay, ReplayFails, Persist, Tallied
<1>2. CASE ProcessReplay(i)
  <2>1. stage[i] \in {"queued", "unsaved"}
    BY <1>2 DEF ProcessReplay, TypeOK, Tallied
  <2>2. CASE i \in keyed
    BY <1>2, <2>2 DEF ProcessReplay, Tallied
  <2>3. CASE i \notin keyed
    <3>1. records[i] \in {0, 1}
      BY <2>3 DEF TypeOK, Tallied
    <3>2. Counted(records[i] + 1) = records[i] + 1
      BY <3>1, Counts
    <3>3. /\ records' = [records EXCEPT ![i] = records[i] + 1]
          /\ keyed' = keyed \cup {i} /\ UNCHANGED <<stage, queue, file>>
      BY <1>2, <2>3, <3>2 DEF ProcessReplay
    <3> QED  BY <2>1, <3>1, <3>3 DEF TypeOK, Tallied
  <2> QED  BY <2>2, <2>3
<1>3. CASE ReplaySucceeds(i)
  BY <1>3 DEF ReplaySucceeds, Persist, TypeOK, Tallied
<1> QED  BY <1>1, <1>2, <1>3

\* The tally is right in every reachable state.
THEOREM Tally == Spec => []Tallied
<1>1. Init => Tallied
  <2> SUFFICES ASSUME Init, NEW i \in Ideas
               PROVE  records[i] = 0 /\ stage[i] = "typed" /\ i \notin queue \cup file \cup keyed
    BY DEF Tallied
  <2> QED  BY DEF Init
<1>2. TypeOK /\ Tallied /\ [Next]_vars => Tallied'
  <2> SUFFICES ASSUME TypeOK, Tallied, [Next]_vars PROVE Tallied'
    OBVIOUS
  <2>1. CASE ChangeSession
    BY <2>1 DEF ChangeSession, Tallied
  <2>2. CASE Restart
    BY <2>2 DEF Restart, TypeOK, Tallied
  <2>3. CASE PushCapture
    BY <2>3 DEF PushCapture, Persist, Tallied
  <2>4. CASE UNCHANGED vars
    BY <2>4 DEF vars, Tallied
  <2> QED  BY <2>1, <2>2, <2>3, <2>4, HandlerTallies, ReplayTallies DEF Next
<1> QED  BY <1>1, <1>2, Typing, PTL DEF Spec

\* An idea whose push was accepted outlives the process, although later pushes
\* and flushes write over the file or fail to.
THEOREM AcceptedIdeasAreKept == Spec => []AcceptedIdeaIsKept
<1>1. TypeOK /\ Tallied => AcceptedIdeaIsKept
  BY DEF TypeOK, Tallied, AcceptedIdeaIsKept
<1> QED  BY <1>1, Typing, Tally, PTL

\* The steps about one idea forget none: what a write leaves out of the file is
\* recorded.
LEMMA IdeaStepsForgetNone ==
    ASSUME TypeOK, Tallied, NEW i \in Ideas, NEW j \in Ideas, Remembered(j),
           \/ SendBrainDump(i) \/ Process(i) \/ PostSucceeds(i) \/ PostFails(i)
           \/ Replay(i) \/ ProcessReplay(i) \/ ReplaySucceeds(i) \/ ReplayFails(i)
    PROVE  Remembered(j)'
<1>1. j \in keyed => records[j] > 0
  BY DEF TypeOK, Tallied
<1>2. CASE SendBrainDump(i) \/ PostFails(i)
  <2>1. records' = records /\ queue \subseteq queue'
    BY <1>2 DEF SendBrainDump, PostFails, QueueForLater, Push, PushRefused
  <2>2. j \in file \ queue => records[j] > 0
    BY <1>1 DEF Tallied
  <2> QED  BY <2>1, <2>2 DEF Remembered
<1>3. CASE Process(i) \/ ProcessReplay(i)
  <2>1. UNCHANGED <<queue, file>>
    BY <1>3 DEF Process, ProcessReplay
  <2>2. Counted(records[i] + 1) > 0
    BY IdeasAssumption DEF Counted, TypeOK
  <2>3. records[j] > 0 => records'[j] > 0
    BY <1>3, <2>2 DEF Process, ProcessReplay, TypeOK
  <2> QED  BY <2>1, <2>3 DEF Remembered
<1>4. CASE PostSucceeds(i) \/ Replay(i)
  BY <1>4 DEF PostSucceeds, Replay, Remembered
<1>5. CASE ReplaySucceeds(i)
  <2>1. /\ records' = records /\ queue' = queue \ {i} /\ i \in keyed
    BY <1>5 DEF ReplaySucceeds
  <2>2. j \in file \ queue => records[j] > 0
    BY <1>1 DEF Tallied
  <2> QED  BY <1>1, <2>1, <2>2 DEF Remembered
<1>6. CASE ReplayFails(i)
  <2>1. records' = records /\ queue' = queue
    BY <1>6 DEF ReplayFails
  <2>2. j \in file \ queue => records[j] > 0
    BY <1>1 DEF Tallied
  <2> QED  BY <2>1, <2>2 DEF Remembered
<1> QED  BY <1>2, <1>3, <1>4, <1>5, <1>6

\* Only a restart forgets an idea, and only one that no write has got into the file.
THEOREM OnlyUnsavedVanish == Spec => VanishesOnlyUnsaved
<1>1. TypeOK /\ Tallied /\ [Next]_vars => [Vanishing]_vars
  <2> SUFFICES ASSUME TypeOK, Tallied, [Next]_vars, NEW i \in Ideas,
                      Remembered(i), ~Remembered(i)'
               PROVE  Restart /\ stage[i] = "unsaved" /\ i \in queue \ file
    BY DEF Vanishing
  <2>1. i \in file \ queue => records[i] > 0
    BY DEF TypeOK, Tallied
  <2>2. CASE Restart
    <3>1. ~(records[i] > 0) /\ i \notin file /\ i \in queue
      BY <2>2 DEF Restart, Remembered
    <3>2. i \notin keyed
      BY <3>1 DEF TypeOK, Tallied
    <3> QED  BY <2>2, <3>1, <3>2 DEF Tallied
  <2>3. CASE PushCapture
    BY <2>1, <2>3 DEF PushCapture, Remembered
  <2>4. CASE ChangeSession \/ UNCHANGED vars
    BY <2>4 DEF ChangeSession, vars, Remembered
  <2> QED  BY <2>2, <2>3, <2>4, IdeaStepsForgetNone DEF Next
<1> QED  BY <1>1, Typing, Tally, PTL DEF Spec, VanishesOnlyUnsaved

\* However often an idea is replayed, it is recorded under its key once.
THEOREM ReplaysAreIdempotent == Spec => []AtMostOneReplayIsRecorded
<1>1. Tallied => AtMostOneReplayIsRecorded
  <2> SUFFICES ASSUME Tallied, NEW i \in Ideas
               PROVE  records[i] <= 2 /\ (records[i] = 2 => stage[i] \in {"queued", "unsaved"} /\ i \in keyed)
    BY DEF AtMostOneReplayIsRecorded
  <2>1. CASE i \in keyed
    BY <2>1 DEF Tallied
  <2>2. CASE i \notin keyed
    BY <2>2 DEF Tallied
  <2> QED  BY <2>1, <2>2
<1> QED  BY <1>1, Tally, PTL

\* Accepted ideas are owed until the backend has one under their key: writes that
\* fail, and replays that are cut off, repeated or answered late give nothing up.
THEOREM QueueImplements == Spec => QueueKeepsPromise
<1> DEFINE owed == (file \cap Accepted) \ keyed
           Step == [Queue!Next]_(Queue!promiseVars)
           Same == UNCHANGED <<owed, keyed \cap Accepted>>
<1>1. Init => Queue!Init
  BY DEF Init, Queue!Init, Accepted
<1>2. ASSUME Same
      PROVE  Step
  BY <1>2 DEF Queue!promiseVars
\* A write of the memory changes nothing of what is owed: an accepted idea that
\* is not keyed is both in memory and in the file.
<1>3. ASSUME TypeOK, Tallied, UNCHANGED <<stage, keyed>>,
             file' \in {queue', file}, queue \ keyed \subseteq queue', queue' \subseteq queue
      PROVE  Step
  <2>1. Accepted' = Accepted
    BY <1>3 DEF Accepted
  <2>2. \A i \in Accepted \ keyed : i \in file /\ i \in queue
    BY <1>3 DEF Accepted, Tallied
  <2>3. owed' = owed
    <3>1. CASE file' = file
      BY <1>3, <2>1, <3>1
    <3>2. CASE file' = queue'
      BY <1>3, <2>1, <2>2, <3>2
    <3> QED  BY <1>3, <3>1, <3>2
  <2> QED  BY <1>2, <1>3, <2>1, <2>3
<1>4. ASSUME NEW i \in Ideas, QueueForLater(i), UNCHANGED keyed, TypeOK, Tallied,
             stage[i] \in {"typed", "posted", "processed"}
      PROVE  Step
  <2>1. i \notin queue \cup file \cup keyed /\ i \notin Accepted
    BY <1>4 DEF Tallied, Accepted
  <2>2. \A j \in Accepted \ keyed : j \in file /\ j \in queue
    BY <1>4 DEF Accepted, Tallied
  <2>3. CASE PushRefused(i)
    <3>1. Accepted' = Accepted
      BY <1>4, <2>1, <2>3 DEF PushRefused, Accepted, TypeOK
    <3> QED  BY <1>2, <1>4, <2>3, <3>1 DEF PushRefused
  <2>4. CASE Push(i, FALSE)
    <3>1. Accepted' = Accepted
      BY <1>4, <2>1, <2>4 DEF Push, Accepted, TypeOK
    <3> QED  BY <1>2, <1>4, <2>4, <3>1 DEF Push, Persist
  <2>5. CASE Push(i, TRUE)
    <3>1. Accepted' = Accepted \cup {i}
      BY <1>4, <2>5 DEF Push, Accepted, TypeOK
    <3>2. file' = queue \cup {i} /\ keyed' = keyed
      BY <1>4, <2>5 DEF Push, Persist
    <3>3. owed' = owed \cup {i}
      BY <2>1, <2>2, <3>1, <3>2
    <3>4. (keyed \cap Accepted)' = keyed \cap Accepted
      BY <2>1, <3>1, <3>2
    <3>5. i \notin Queue!Taken
      BY <2>1 DEF Queue!Taken
    <3>6. {} \in SUBSET (([a \in {"user"} |-> owed]["user"]) \cup {i})
      OBVIOUS
    <3>7. [a \in {"user"} |-> owed'] =
            [[a \in {"user"} |-> owed] EXCEPT !["user"] = (owed \cup {i}) \ {}]
      BY <3>3
    <3>8. Queue!Take("user", i)
      BY <3>4, <3>5, <3>6, <3>7 DEF Queue!Take
    <3> QED  BY <3>8 DEF Queue!Next
  <2> QED  BY <1>4, <2>3, <2>4, <2>5 DEF QueueForLater
<1>5. ASSUME NEW i \in Ideas, ProcessReplay(i), TypeOK, Tallied
      PROVE  Step
  <2>1. /\ i \in queue /\ keyed' = keyed \cup {i} /\ file' = file /\ Accepted' = Accepted
    BY <1>5 DEF ProcessReplay, TypeOK, Accepted
  <2>2. CASE i \in keyed \/ i \notin Accepted
    BY <1>2, <2>1, <2>2
  <2>3. CASE i \notin keyed /\ i \in Accepted
    <3>1. i \in owed
      BY <1>5, <2>3 DEF Tallied, Accepted
    <3>2. {i} \in (SUBSET (([a \in {"user"} |-> owed]["user"]) \cup {})) \ {{}}
      BY <3>1
    <3>3. [a \in {"user"} |-> owed'] =
            [[a \in {"user"} |-> owed] EXCEPT !["user"] = owed \ {i}]
      BY <2>1
    <3>4. (keyed \cap Accepted)' = (keyed \cap Accepted) \cup {i}
      BY <2>1, <2>3
    <3>5. Queue!HandOver("user")
      BY <3>2, <3>3, <3>4 DEF Queue!HandOver
    <3> QED  BY <3>5 DEF Queue!Next
  <2> QED  BY <2>2, <2>3
<1>6. TypeOK /\ Tallied /\ [Next]_vars => Step
  <2> SUFFICES ASSUME TypeOK, Tallied, [Next]_vars PROVE Step
    OBVIOUS
  <2>1. ASSUME NEW i \in Ideas, SendBrainDump(i) \/ PostFails(i)
        PROVE  Step
    <3>1. CASE QueueForLater(i)
      BY <1>4, <2>1, <3>1 DEF SendBrainDump, PostFails
    <3>2. CASE ~QueueForLater(i)
      <4>1. /\ UNCHANGED <<file, keyed>> /\ stage[i] = "typed"
            /\ stage' = [stage EXCEPT ![i] = "posted"]
        BY <2>1, <3>2 DEF SendBrainDump, PostFails
      <4>2. Accepted' = Accepted
        BY <4>1 DEF Accepted, TypeOK
      <4> QED  BY <1>2, <4>1, <4>2
    <3> QED  BY <3>1, <3>2
  <2>2. ASSUME NEW i \in Ideas, Process(i) \/ PostSucceeds(i)
        PROVE  Step
    <3>1. UNCHANGED <<file, keyed>> /\ Accepted' = Accepted
      BY <2>2 DEF Process, PostSucceeds, Accepted, TypeOK
    <3> QED  BY <1>2, <3>1
  <2>3. ASSUME NEW i \in Ideas, Replay(i) \/ ReplaySucceeds(i) \/ ReplayFails(i)
        PROVE  Step
    BY <1>3, <2>3 DEF Replay, ReplaySucceeds, ReplayFails, Persist
  <2>4. CASE PushCapture
    BY <1>3, <2>4 DEF PushCapture, Persist
  <2>5. CASE Restart
    <3>1. UNCHANGED <<file, keyed>> /\ Accepted' = Accepted
      BY <2>5 DEF Restart, Accepted, TypeOK
    <3> QED  BY <1>2, <3>1
  <2>6. CASE ChangeSession \/ UNCHANGED vars
    <3>1. UNCHANGED <<file, keyed>> /\ Accepted' = Accepted
      BY <2>6 DEF ChangeSession, vars, Accepted
    <3> QED  BY <1>2, <3>1
  <2> HIDE DEF Step, owed
  <2> QED
    BY <1>5, <2>1, <2>2, <2>3, <2>4, <2>5, <2>6 DEF Next
<1> QED
  BY <1>1, <1>6, Typing, Tally, PTL DEF Spec, QueueKeepsPromise, Queue!Spec
=============================================================================
