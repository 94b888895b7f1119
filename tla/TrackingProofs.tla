---------------------------- MODULE TrackingProofs ----------------------------
(* What holds of Tracking for any accounts, windows, timers and throttle.    *)
EXTENDS Tracking, TLAPS

-----------------------------------------------------------------------------
(* Types                                                                     *)

\* The count of scans stays in its range.
LEMMA UpToTypes ==
    ASSUME NEW n \in 0 .. Throttle
    PROVE  UpTo(n + 1) \in 0 .. Throttle /\ UpTo(n + 1) >= n
BY TrackingAssumption DEF UpTo

\* The constants 0 and Resting have the types of the variables that hold them.
LEMMA Zero == 0 \in 0 .. Throttle /\ Resting \in Ticks
BY TrackingAssumption DEF Ticks

\* stopTracking leaves well-typed variables.
LEMMA HaltTypes ==
    ASSUME TypeOK, Halt
    PROVE  /\ interval' \in Timers \cup {NoTimer} /\ timers' \in SUBSET Timers
           /\ listed' \in SUBSET Windows /\ counter' \in 0 .. Throttle
           /\ owner' \in Users \cup {NoUser} /\ scans' \in 0 .. Throttle /\ silent' \in Nat
BY Zero DEF TypeOK, Halt

\* So does the step up to the question for the open windows.
LEMMA AskTypes ==
    ASSUME TypeOK, NEW i \in Timers, NEW u \in Users, AskWindows(i, u)
    PROVE  ticks' \in [Timers -> Ticks]
<1> DEFINE asking == IF presence = "away" THEN Resting ELSE AtWindows(u, ignored)
<1>1. asking \in Ticks
  BY Zero DEF TypeOK, Ticks
<1>2. ticks' = [ticks EXCEPT ![i] = asking]
  BY DEF AskWindows
<1> HIDE DEF asking
<1> QED  BY <1>1, <1>2 DEF TypeOK

\* A tick that awaits an answer names the account it began under.
LEMMA TickFields ==
    ASSUME TypeOK, NEW i \in Timers, ticks[i].pc \in {"activity", "windows"}
    PROVE  /\ ticks[i].user \in Users
           /\ ticks[i].pc = "windows" => ticks[i].ignored \in SUBSET Windows
<1>1. ticks[i] \in Ticks
  BY DEF TypeOK
<1>2. ticks[i] # Resting
  BY DEF Resting
<1>3. CASE \E u \in Users : ticks[i] = AtActivity(u)
  BY <1>3 DEF AtActivity
<1>4. CASE \E u \in Users, S \in SUBSET Windows : ticks[i] = AtWindows(u, S)
  BY <1>4 DEF AtWindows
<1> QED  BY <1>1, <1>2, <1>3, <1>4 DEF Ticks

\* What is handed to the capture queue is a capture.
LEMMA CaptureTypes ==
    ASSUME TypeOK, NEW u \in Users, NEW S \in SUBSET Windows
    PROVE  Nothing \in Captures /\ Report(u, S) \in Captures
BY DEF TypeOK, Captures, Report

\* An activity is a capture too.
LEMMA ActivityTypes ==
    ASSUME TypeOK, NEW u \in Users, NEW w \in Windows
    PROVE  Activity(u, w) \in Captures
BY DEF TypeOK, Captures, Activity

\* The steps of a tick keep the types.
LEMMA TickTypes ==
    ASSUME TypeOK, NEW i \in Timers, Tick(i)
    PROVE  TypeOK'
<1> USE DEF surroundings, reports
<1>1. CASE TickBegins(i)
  <2>1. CASE account = NoUser
    BY <1>1, <2>1, HaltTypes DEF TickBegins, TypeOK, Captures
  <2>2. CASE account # NoUser
    <3>1. account \in Users
      BY <2>2 DEF TypeOK
    <3>2. ticks' \in [Timers -> Ticks]
      <4>1. CASE presence = "present"
        <5>1. AtActivity(account) \in Ticks
          BY <3>1 DEF Ticks
        <5>2. ticks' = [ticks EXCEPT ![i] = AtActivity(account)]
          BY <1>1, <2>2, <4>1 DEF TickBegins
        <5> QED  BY <5>1, <5>2 DEF TypeOK
      <4>2. CASE presence # "present"
        BY <1>1, <2>2, <3>1, <4>2, AskTypes DEF TickBegins
      <4> QED  BY <4>1, <4>2
    <3> QED  BY <1>1, <2>2, <3>2 DEF TickBegins, TypeOK, Captures
  <2> QED  BY <2>1, <2>2
<1>2. ASSUME NEW w \in Windows \cup {NoWindow}, ActivityArrives(i, w)
      PROVE  TypeOK'
  <2> DEFINE u == ticks[i].user
  <2>1. u \in Users
    BY <1>2, TickFields DEF ActivityArrives
  <2>2. sent' \in Captures /\ last' \in Users \cup {NoUser}
    <3>1. Captured(u, w)
      BY <1>2 DEF ActivityArrives
    <3> HIDE DEF u
    <3>3. CASE w = NoWindow \/ w \in ignored
      BY <3>1, <3>3 DEF Captured, TypeOK, Captures
    <3>4. CASE ~(w = NoWindow \/ w \in ignored)
      BY <2>1, <3>1, <3>4, ActivityTypes DEF Captured, TypeOK
    <3> QED  BY <3>3, <3>4
  <2>3. CASE account = NoUser
    <3>1. ticks' = [ticks EXCEPT ![i] = Resting] /\ Halt
      BY <1>2, <2>3 DEF ActivityArrives
    <3>2. ticks' \in [Timers -> Ticks]
      BY <3>1, Zero DEF TypeOK
    <3> QED  BY <1>2, <2>2, <3>1, <3>2, HaltTypes DEF ActivityArrives, TypeOK
  <2>4. CASE account # NoUser
    <3>1. AskWindows(i, u)
      BY <1>2, <2>4 DEF ActivityArrives
    <3> HIDE DEF u
    <3>2. ticks' \in [Timers -> Ticks]
      BY <2>1, <3>1, AskTypes
    <3> QED  BY <1>2, <2>2, <2>4, <3>2 DEF ActivityArrives, TypeOK
  <2> QED  BY <2>3, <2>4
<1>3. CASE ActivityFails(i)
  BY <1>3, Zero DEF ActivityFails, TypeOK, Captures
<1>4. ASSUME NEW seen \in SUBSET Windows, WindowsArrive(i, seen)
      PROVE  TypeOK'
  <2> DEFINE S == seen \ ticks[i].ignored
  <2>1. ticks[i].user \in Users /\ S \in SUBSET Windows
    BY <1>4, TickFields DEF WindowsArrive
  <2>2. ticks' \in [Timers -> Ticks]
    BY <1>4, Zero DEF WindowsArrive, TypeOK
  <2>3. counter' = CountAfter(S) /\ UNCHANGED <<surroundings, interval, timers, last>>
    BY <1>4 DEF WindowsArrive
  <2>4. counter' \in 0 .. Throttle
    BY <2>3, Zero, UpToTypes DEF CountAfter, TypeOK
  <2>5. CASE Due(S)
    <3>1. /\ sent' = Report(ticks[i].user, S)
          /\ listed' = S /\ owner' = account /\ scans' = 0 /\ silent' = 0
      BY <1>4, <2>5 DEF WindowsArrive
    <3> HIDE DEF S
    <3>2. sent' \in Captures
      BY <2>1, <3>1, CaptureTypes
    <3> QED  BY <2>1, <2>2, <2>3, <2>4, <3>1, <3>2, Zero DEF TypeOK
  <2>6. CASE ~Due(S)
    <3>1. /\ sent' = Nothing /\ scans' = UpTo(scans + 1) /\ UNCHANGED <<listed, owner>>
          /\ silent' \in {silent, silent + 1}
      BY <1>4, <2>6 DEF WindowsArrive
    <3>2. sent' \in Captures
      BY <3>1 DEF Captures
    <3>3. scans' \in 0 .. Throttle /\ silent' \in Nat
      BY <3>1, UpToTypes DEF TypeOK
    <3> QED  BY <2>2, <2>3, <2>4, <3>1, <3>2, <3>3 DEF TypeOK
  <2> QED  BY <2>5, <2>6
<1>5. CASE NoWindowsArrive(i)
  BY <1>5, Zero DEF NoWindowsArrive, TypeOK, Captures
<1> QED  BY <1>1, <1>2, <1>3, <1>4, <1>5 DEF Tick, ActivityAnswered, WindowsAnswered

\* Starting, stopping and what happens around keep the types.
LEMMA OtherTypes ==
    ASSUME TypeOK, (\E i \in Timers : Start(i)) \/ Stop \/ Around
    PROVE  TypeOK'
<1> USE DEF surroundings, control, reports, Captures
<1>1. ASSUME NEW i \in Timers, Start(i) PROVE TypeOK'
  BY <1>1 DEF Start, TypeOK
<1>2. CASE Stop
  BY <1>2, HaltTypes DEF Stop, TypeOK
<1>3. ASSUME NEW u \in Users \cup {NoUser}, SetToken(u) PROVE TypeOK'
  BY <1>3 DEF SetToken, TypeOK
<1>4. CASE Purge
  BY <1>4, HaltTypes DEF Purge, TypeOK
<1>5. ASSUME NEW S \in SUBSET Windows, SetIgnored(S) PROVE TypeOK'
  BY <1>5 DEF SetIgnored, TypeOK
<1>6. CASE HistoryDeleted
  BY <1>6 DEF HistoryDeleted, TypeOK
<1>7. ASSUME NEW p \in Presences, UserMoves(p) PROVE TypeOK'
  BY <1>7 DEF UserMoves, TypeOK
<1> QED  BY <1>1, <1>2, <1>3, <1>4, <1>5, <1>6, <1>7 DEF Around

\* The type invariant holds in every reachable state.
THEOREM Typing == Spec => []TypeOK
<1>1. Init => TypeOK
  BY Zero DEF Init, TypeOK, Presences, Captures
<1>2. TypeOK /\ [Next]_vars => TypeOK'
  <2> SUFFICES ASSUME TypeOK, [Next]_vars PROVE TypeOK'
    OBVIOUS
  <2>1. CASE Next
    BY <2>1, TickTypes, OtherTypes DEF Next
  <2>2. CASE UNCHANGED vars
    BY <2>2 DEF vars, TypeOK
  <2> QED  BY <2>1, <2>2
<1> QED  BY <1>1, <1>2, PTL DEF Spec

-----------------------------------------------------------------------------
(* Timers                                                                    *)

\* stopTracking leaves no timer behind.
LEMMA HaltClears ==
    ASSUME NoOrphanTimer, Halt
    PROVE  timers' = {}
BY DEF NoOrphanTimer, Halt

\* The timers change when tracking starts or stops, and at no other time.
LEMMA OnlyStartsAndHalts ==
    ASSUME [Next]_vars
    PROVE  \/ \E i \in Timers : Start(i)
           \/ Halt
           \/ UNCHANGED <<interval, timers>>
<1>1. ASSUME NEW i \in Timers, Tick(i) PROVE Halt \/ UNCHANGED <<interval, timers>>
  BY <1>1 DEF Tick, TickBegins, ActivityAnswered, ActivityArrives, ActivityFails,
              WindowsAnswered, WindowsArrive, NoWindowsArrive
<1>2. Around => Halt \/ UNCHANGED <<interval, timers>>
  BY DEF Around, SetToken, Purge, SetIgnored, HistoryDeleted, UserMoves, control
<1>3. Stop => Halt
  BY DEF Stop
<1>4. UNCHANGED vars => UNCHANGED <<interval, timers>>
  BY DEF vars
<1> QED  BY <1>1, <1>2, <1>3, <1>4 DEF Next

\* Every step leaves at most the timer of trackingInterval.
LEMMA NoOrphanStep ==
    ASSUME TypeOK, NoOrphanTimer, [Next]_vars
    PROVE  NoOrphanTimer'
<1> USE DEF NoOrphanTimer
<1>1. ASSUME NEW i \in Timers, Start(i) PROVE NoOrphanTimer'
  <2>1. timers = {}
    BY <1>1, TrackingAssumption DEF Start, TypeOK
  <2> QED  BY <1>1, <2>1 DEF Start
<1>2. CASE Halt
  BY <1>2, HaltClears
<1>3. CASE UNCHANGED <<interval, timers>>
  BY <1>3
<1> QED  BY <1>1, <1>2, <1>3, OnlyStartsAndHalts

\* No timer ever runs that stopTracking would not clear.
THEOREM EveryTimerIsCleared == Spec => []NoOrphanTimer
<1>1. Init => NoOrphanTimer
  BY DEF Init, NoOrphanTimer
<1> QED  BY <1>1, NoOrphanStep, Typing, PTL DEF Spec

\* Tracking that runs always has its timer.
THEOREM TrackingKeepsTimer == Spec => []TrackingHasTimer
<1> USE DEF TrackingHasTimer
<1>1. Init => TrackingHasTimer
  BY DEF Init
<1>2. TypeOK /\ TrackingHasTimer /\ [Next]_vars => TrackingHasTimer'
  <2> SUFFICES ASSUME TypeOK, TrackingHasTimer, [Next]_vars PROVE TrackingHasTimer'
    OBVIOUS
  <2>1. ASSUME NEW i \in Timers, Start(i) PROVE TrackingHasTimer'
    BY <2>1 DEF Start
  <2>2. CASE Halt
    BY <2>2 DEF Halt
  <2>3. CASE UNCHANGED <<interval, timers>>
    BY <2>3
  <2> QED  BY <2>1, <2>2, <2>3, OnlyStartsAndHalts
<1> QED  BY <1>1, <1>2, Typing, PTL DEF Spec

-----------------------------------------------------------------------------
(* What is in progress when tracking stops                                   *)

\* A tick waits for no more answers than before, and only that of its timer moves.
Closer(i) ==
    /\ ticks[i].pc # "rest"
    /\ \E t \in Ticks : ticks' = [ticks EXCEPT ![i] = t] /\ Awaited[t.pc] < Awaited[ticks[i].pc]

\* Each stage of a tick has its number of answers.
LEMMA AwaitedStages ==
    /\ \A t \in Ticks : t.pc \in {"rest", "windows", "activity"} /\ Awaited[t.pc] \in Nat
    /\ Awaited["rest"] = 0 /\ Awaited["windows"] = 1 /\ Awaited["activity"] = 2
<1>1. \A t \in Ticks : t.pc \in {"rest", "windows", "activity"}
  BY DEF Ticks, Resting, AtActivity, AtWindows
<1>2. Awaited["rest"] = 0 /\ Awaited["windows"] = 1 /\ Awaited["activity"] = 2
  BY DEF Awaited
<1> QED  BY <1>1, <1>2

\* An answer brings the tick that waited for it closer to its end.
LEMMA AnswersBringCloser ==
    ASSUME TypeOK, NEW i \in Timers, ActivityAnswered(i) \/ WindowsAnswered(i)
    PROVE  Closer(i)
<1>1. Resting \in Ticks /\ Resting.pc = "rest"
  BY Zero DEF Resting
<1>2. CASE ticks' = [ticks EXCEPT ![i] = Resting] /\ ticks[i].pc \in {"activity", "windows"}
  <2>1. Awaited[Resting.pc] = 0 /\ Awaited[ticks[i].pc] \in {1, 2}
    BY <1>1, <1>2, AwaitedStages
  <2>2. Awaited[Resting.pc] < Awaited[ticks[i].pc]
    BY <2>1
  <2> QED  BY <1>1, <1>2, <2>2 DEF Closer
<1>3. ASSUME NEW w, ActivityArrives(i, w), account # NoUser PROVE Closer(i)
  <2> DEFINE u == ticks[i].user
             t == IF presence = "away" THEN Resting ELSE AtWindows(u, ignored)
  <2>1. ticks[i].pc = "activity" /\ u \in Users
    BY <1>3, TickFields DEF ActivityArrives
  <2>2. ticks' = [ticks EXCEPT ![i] = t]
    BY <1>3 DEF ActivityArrives, AskWindows
  <2>3. t \in Ticks
    <3>1. AtWindows(u, ignored) \in Ticks
      BY <2>1 DEF TypeOK, Ticks
    <3> QED  BY <1>1, <3>1
  <2>4. t.pc \in {"rest", "windows"}
    BY <1>1 DEF AtWindows
  <2> HIDE DEF t
  <2>5. Awaited[t.pc] \in {0, 1} /\ Awaited[ticks[i].pc] = 2
    BY <2>1, <2>4, AwaitedStages
  <2>6. Awaited[t.pc] < Awaited[ticks[i].pc]
    BY <2>5
  <2> QED  BY <2>1, <2>2, <2>3, <2>6 DEF Closer
<1>4. ASSUME NEW w, ActivityArrives(i, w), account = NoUser PROVE Closer(i)
  BY <1>2, <1>4 DEF ActivityArrives
<1> QED
  BY <1>2, <1>3, <1>4 DEF ActivityAnswered, ActivityFails, WindowsAnswered, WindowsArrive,
                          NoWindowsArrive

\* Every other step of stopped tracking leaves the ticks and captures nothing.
LEMMA StoppedStep ==
    ASSUME TypeOK, NoOrphanTimer, interval = NoTimer, Next
    PROVE  \/ UNCHANGED ticks /\ sent' = Nothing
           \/ \E i \in Timers : Closer(i)
<1>1. timers = {}
  BY TrackingAssumption DEF TypeOK, NoOrphanTimer
<1>2. ASSUME NEW i \in Timers, Start(i) PROVE UNCHANGED ticks /\ sent' = Nothing
  BY <1>2 DEF Start
<1>3. ASSUME NEW i \in Timers, Tick(i) PROVE Closer(i)
  BY <1>1, <1>3, AnswersBringCloser DEF Tick, TickBegins
<1>4. Stop \/ Around => UNCHANGED ticks /\ sent' = Nothing
  BY DEF Stop, Around, SetToken, Purge, SetIgnored, HistoryDeleted, UserMoves, control
<1> QED  BY <1>2, <1>3, <1>4 DEF Next

\* Once stopped, tracking captures only what the ticks then in progress bring,
\* and they come to an end.
THEOREM StoppedTrackingDiesAway == Spec => StoppedDiesAway
<1>1. TypeOK /\ NoOrphanTimer /\ [Next]_vars => [DiesAway]_vars
  <2> SUFFICES ASSUME TypeOK, NoOrphanTimer, Next, interval = NoTimer
               PROVE  /\ \A i \in Timers : Awaited[ticks'[i].pc] <= Awaited[ticks[i].pc]
                      /\ sent'.kind # "none" =>
                            \E i \in Timers : Awaited[ticks'[i].pc] < Awaited[ticks[i].pc]
    BY DEF DiesAway
  <2>1. \A i \in Timers : ticks[i] \in Ticks /\ Awaited[ticks[i].pc] \in Nat
    BY AwaitedStages DEF TypeOK
  <2>2. CASE UNCHANGED ticks /\ sent' = Nothing
    BY <2>1, <2>2 DEF Nothing
  <2>3. CASE \E i \in Timers : Closer(i)
    <3>1. PICK i \in Timers : Closer(i)
      BY <2>3
    <3>2. PICK t \in Ticks : /\ ticks' = [ticks EXCEPT ![i] = t]
                             /\ Awaited[t.pc] < Awaited[ticks[i].pc]
      BY <3>1 DEF Closer
    <3>3. ticks'[i] = t /\ \A j \in Timers \ {i} : ticks'[j] = ticks[j]
      BY <3>2 DEF TypeOK
    <3>4. Awaited[t.pc] \in Nat
      BY AwaitedStages
    <3>5. Awaited[ticks'[i].pc] < Awaited[ticks[i].pc]
      BY <3>2, <3>3
    <3>6. \A j \in Timers : Awaited[ticks'[j].pc] <= Awaited[ticks[j].pc]
      BY <2>1, <3>3, <3>4, <3>5
    <3> QED  BY <3>5, <3>6
  <2> QED  BY <2>2, <2>3, StoppedStep
<1> QED  BY <1>1, Typing, EveryTimerIsCleared, PTL DEF Spec, StoppedDiesAway

-----------------------------------------------------------------------------
(* Reports.  The counter of the code counts the scans since the last report, *)
(* and so bounds those that had no excuse.                                   *)

Counted == scans = counter /\ silent <= counter /\ silent < Throttle

\* A scan that is not due leaves the counter under Throttle, or is excused.
LEMMA NotDue ==
    ASSUME TypeOK, NEW S, ~Due(S)
    PROVE  /\ UpTo(counter + 1) >= counter
           /\ presence \notin {"idle", "away"} =>
                 counter + 1 < Throttle /\ UpTo(counter + 1) = counter + 1
BY TrackingAssumption DEF TypeOK, Due, UpTo

\* A scan keeps the counts in step.
LEMMA ScanCounted ==
    ASSUME TypeOK, Counted, NEW i \in Timers, NEW seen \in SUBSET Windows,
           WindowsArrive(i, seen)
    PROVE  Counted'
<1> DEFINE S == seen \ ticks[i].ignored
<1>1. counter' = CountAfter(S)
  BY DEF WindowsArrive
<1>2. CASE Due(S)
  <2>1. scans' = 0 /\ silent' = 0
    BY <1>2 DEF WindowsArrive
  <2>2. counter' = 0
    BY <1>1, <1>2 DEF CountAfter
  <2> QED  BY <2>1, <2>2, TrackingAssumption DEF Counted
<1>3. CASE ~Due(S)
  <2>1. /\ scans' = UpTo(scans + 1)
        /\ silent' = IF presence \in {"idle", "away"} THEN silent ELSE silent + 1
    BY <1>3 DEF WindowsArrive
  <2>2. counter' = UpTo(counter + 1)
    BY <1>1, <1>3 DEF CountAfter
  <2>3. counter' \in Nat /\ counter \in Nat /\ silent \in Nat /\ Throttle \in Nat
    BY <2>2, TrackingAssumption DEF TypeOK, UpTo
  <2>4. /\ counter' >= counter
        /\ presence \notin {"idle", "away"} => counter + 1 < Throttle /\ counter' = counter + 1
    BY <1>3, <2>2, NotDue
  <2> QED  BY <2>1, <2>2, <2>3, <2>4 DEF Counted
<1> QED  BY <1>2, <1>3

\* Every step does.
LEMMA CountedStep ==
    ASSUME TypeOK, Counted, [Next]_vars
    PROVE  Counted'
<1>1. CASE Halt
  BY <1>1, TrackingAssumption DEF Halt, Counted
<1>2. CASE UNCHANGED <<counter, scans, silent>>
  BY <1>2 DEF Counted
<1>3. ASSUME NEW i \in Timers, Start(i) \/ Tick(i)
      PROVE  \/ Halt \/ UNCHANGED <<counter, scans, silent>>
             \/ \E seen \in SUBSET Windows : WindowsArrive(i, seen)
  BY <1>3 DEF Start, Tick, TickBegins, ActivityAnswered, ActivityArrives, ActivityFails,
              WindowsAnswered, NoWindowsArrive, reports
<1>4. Around \/ Stop => Halt \/ UNCHANGED <<counter, scans, silent>>
  BY DEF Around, SetToken, Purge, SetIgnored, HistoryDeleted, UserMoves, Stop, reports
<1>5. UNCHANGED vars => UNCHANGED <<counter, scans, silent>>
  BY DEF vars
<1> QED  BY <1>1, <1>2, <1>3, <1>4, <1>5, ScanCounted DEF Next

\* The counts are in step in every reachable state.
LEMMA Counting == Spec => []Counted
<1>1. Init => Counted
  BY TrackingAssumption DEF Init, Counted
<1> QED  BY <1>1, CountedStep, Typing, PTL DEF Spec

\* A present user's open windows are reported with every Throttle-th scan at least.
THEOREM EveryThrottleTicks == Spec => []WindowsAreReported
<1>1. Counted => WindowsAreReported
  BY DEF Counted, WindowsAreReported
<1> QED  BY <1>1, Counting, PTL

\* Only a scan hands over a list of windows.
LEMMA OnlyScansReport ==
    ASSUME Next, sent'.kind = "windows"
    PROVE  \E i \in Timers, seen \in SUBSET Windows : WindowsArrive(i, seen)
<1>1. sent' # Nothing
  BY DEF Nothing
<1>2. ASSUME NEW i \in Timers, NEW w, ActivityArrives(i, w) PROVE FALSE
  BY <1>1, <1>2 DEF ActivityArrives, Captured, Activity
<1> QED  BY <1>1, <1>2 DEF Next, Start, Tick, TickBegins, ActivityAnswered, ActivityFails,
              WindowsAnswered, NoWindowsArrive, Stop, Around, SetToken, Purge, SetIgnored,
              HistoryDeleted, UserMoves

\* A list is handed over anew only when Throttle scans have been counted.
LEMMA RepeatIsDue ==
    ASSUME TypeOK, Counted, Next
    PROVE  NoEarlyRepeat
<1> SUFFICES ASSUME sent'.kind = "windows", sent'.windows = listed
             PROVE  scans + 1 >= Throttle
  BY DEF NoEarlyRepeat
<1>1. PICK i \in Timers, seen \in SUBSET Windows : WindowsArrive(i, seen)
  BY OnlyScansReport
<1> DEFINE S == seen \ ticks[i].ignored
<1>2. Due(S) /\ sent' = Report(ticks[i].user, S)
  BY <1>1 DEF WindowsArrive, Nothing
<1>3. S = listed
  BY <1>2 DEF Report
<1> QED  BY <1>2, <1>3 DEF Due, Counted

\* An unchanged list of windows is never reported sooner than that.
THEOREM RepeatsWait == Spec => RepeatsAreSpaced
<1>1. TypeOK /\ Counted /\ [Next]_vars => [NoEarlyRepeat]_vars
  BY RepeatIsDue
<1> QED  BY <1>1, Typing, Counting, PTL DEF Spec, RepeatsAreSpaced

-----------------------------------------------------------------------------
(* Exclusions                                                                *)

\* A tick that ends, or goes on with settings that exclude w, is no longer unaware.
LEMMA UnawareAfter ==
    ASSUME TypeOK, NEW w, NEW i \in Timers, NEW t, ticks' = [ticks EXCEPT ![i] = t],
           t.pc = "windows" => w \in t.ignored
    PROVE  Unaware(w)' = Unaware(w) \ {i}
<1>1. ticks'[i] = t /\ \A j \in Timers \ {i} : ticks'[j] = ticks[j]
  BY DEF TypeOK
<1> QED  BY <1>1 DEF Unaware

\* Going on to the open windows takes an exclusion in.
LEMMA AskedAware ==
    ASSUME TypeOK, NEW w \in ignored, NEW i \in Timers, NEW u, AskWindows(i, u)
    PROVE  Unaware(w)' = Unaware(w) \ {i}
<1> DEFINE t == IF presence = "away" THEN Resting ELSE AtWindows(u, ignored)
<1>1. ticks' = [ticks EXCEPT ![i] = t]
  BY DEF AskWindows
<1>2. t.pc = "windows" => w \in t.ignored
  BY DEF Resting, AtWindows
<1> HIDE DEF t
<1> QED  BY <1>1, <1>2, UnawareAfter

\* So does the beginning of a tick, and the end of its wait for the active window,
\* which captures no window excluded by then.
LEMMA ActiveWindowTakesHold ==
    ASSUME TypeOK, NEW w \in ignored, NEW i \in Timers,
           TickBegins(i) \/ ActivityAnswered(i)
    PROVE  /\ Unaware(w)' \subseteq Unaware(w)
           /\ sent'.kind # "none" => w \notin sent'.windows
<1>1. ASSUME NEW u, ticks' = [ticks EXCEPT ![i] = Resting] \/ AskWindows(i, u)
                      \/ ticks' = [ticks EXCEPT ![i] = AtActivity(account)] \/ UNCHANGED ticks
      PROVE  Unaware(w)' \subseteq Unaware(w)
  <2>1. CASE ticks' = [ticks EXCEPT ![i] = Resting]
    BY <2>1, UnawareAfter DEF Resting
  <2>2. CASE ticks' = [ticks EXCEPT ![i] = AtActivity(account)]
    BY <2>2, UnawareAfter DEF AtActivity
  <2>3. CASE AskWindows(i, u)
    BY <2>3, AskedAware
  <2>4. CASE UNCHANGED ticks
    BY <2>4 DEF Unaware
  <2> QED  BY <1>1, <2>1, <2>2, <2>3, <2>4
<1>2. CASE TickBegins(i) \/ ActivityFails(i)
  BY <1>1, <1>2 DEF TickBegins, ActivityFails, Nothing
<1>3. ASSUME NEW v, ActivityArrives(i, v)
      PROVE  /\ Unaware(w)' \subseteq Unaware(w)
             /\ sent'.kind # "none" => w \notin sent'.windows
  <2>1. sent'.kind # "none" => sent'.windows = {v} /\ v \notin ignored
    BY <1>3 DEF ActivityArrives, Captured, Activity, Nothing
  <2>2. Unaware(w)' \subseteq Unaware(w)
    BY <1>1, <1>3 DEF ActivityArrives
  <2> QED  BY <2>1, <2>2
<1> QED  BY <1>2, <1>3 DEF ActivityAnswered

\* A scan whose report shows w was one that did not exclude it, and is over.
LEMMA ScanTakesHold ==
    ASSUME TypeOK, NEW w, NEW i \in Timers, WindowsAnswered(i)
    PROVE  /\ Unaware(w)' \subseteq Unaware(w)
           /\ sent'.kind # "none" /\ w \in sent'.windows => Unaware(w)' # Unaware(w)
<1>1. ticks[i].pc = "windows" /\ ticks' = [ticks EXCEPT ![i] = Resting]
  BY DEF WindowsAnswered, WindowsArrive, NoWindowsArrive
<1>2. Unaware(w)' = Unaware(w) \ {i}
  BY <1>1, UnawareAfter DEF Resting
<1>3. sent'.kind # "none" /\ w \in sent'.windows => i \in Unaware(w)
  <2>1. ASSUME NEW seen, WindowsArrive(i, seen), sent'.kind # "none", w \in sent'.windows
        PROVE  w \notin ticks[i].ignored
    <3>1. sent' = Report(ticks[i].user, seen \ ticks[i].ignored)
      BY <2>1 DEF WindowsArrive, Nothing
    <3> QED  BY <2>1, <3>1 DEF Report
  <2>2. NoWindowsArrive(i) => sent'.kind = "none"
    BY DEF NoWindowsArrive, Nothing
  <2> QED  BY <1>1, <2>1, <2>2 DEF WindowsAnswered, Unaware
<1> QED  BY <1>2, <1>3

\* An exclusion comes too late only for the scans under way, and once for each.
THEOREM ExclusionsAreRespected == Spec => ExclusionsTakeHold
<1>1. TypeOK /\ [Next]_vars => [TakeHold]_vars
  <2> SUFFICES ASSUME TypeOK, Next, NEW w \in ignored \cap ignored'
               PROVE  /\ Unaware(w)' \subseteq Unaware(w)
                      /\ sent'.kind # "none" /\ w \in sent'.windows =>
                            Unaware(w)' # Unaware(w)
    BY DEF TakeHold
  <2>1. ASSUME NEW i \in Timers, TickBegins(i) \/ ActivityAnswered(i)
        PROVE  /\ Unaware(w)' \subseteq Unaware(w)
               /\ sent'.kind # "none" => w \notin sent'.windows
    BY <2>1, ActiveWindowTakesHold
  <2>2. CASE UNCHANGED ticks /\ sent' = Nothing
    BY <2>2 DEF Unaware, Nothing
  <2>3. (\E i \in Timers : Start(i)) \/ Stop \/ Around => UNCHANGED ticks /\ sent' = Nothing
    BY DEF Start, Stop, Around, SetToken, Purge, SetIgnored, HistoryDeleted, UserMoves, control
  <2> QED  BY <2>1, <2>2, <2>3, ScanTakesHold DEF Next, Tick
<1> QED  BY <1>1, Typing, PTL DEF Spec, ExclusionsTakeHold
=============================================================================
