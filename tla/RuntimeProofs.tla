---------------------------- MODULE RuntimeProofs ----------------------------
(***************************************************************************)
(* Proofs of the safety properties of Runtime: the runtime stops once, is  *)
(* quiet ever after, the process never just ends, and a capture is lost    *)
(* only to a service that stop() has forgotten.                            *)
(*                                                                         *)
(* StopsOnce and StoppedIsQuiet are not inductive: what keeps a late       *)
(* service from arming its timer is that a process that lives on after a   *)
(* stop is one that quits (Lifecycle).  For the captures, what the memory  *)
(* of a forgotten service may write over the file is bounded by what the   *)
(* service that owns the file knows (Copies).                              *)
(***************************************************************************)
EXTENDS Runtime, TLAPS

\* The part of TypeOK that the proofs need, variable by variable.
Typing ==
    /\ windows \in [Windows -> {"none", "shown", "hidden"}]
    /\ alive \in BOOLEAN /\ slow \in BOOLEAN /\ disposed \in BOOLEAN
    /\ handled \in BOOLEAN /\ quitting \in BOOLEAN /\ asked \in BOOLEAN
    /\ closing \in {"nobody", "quit", "signal"}
    /\ stops \in Builds
    /\ services \in [Builds -> Services]
    /\ flights \subseteq Flights
    /\ disk \subseteq Captures /\ accepted \subseteq Captures /\ received \subseteq Captures
    /\ attempt \in 0 .. MaxAttempts
    /\ retry \in 0 .. MaxDelay

\* How quits, signals and stops are ordered.
Lifecycle ==
    /\ stops \in {0, 1}
    /\ handled <=> stops = 0
    /\ stops = 1 => disposed
    /\ disposed /\ stops = 0 => ~alive \/ closing # "nobody"
    /\ closing # "nobody" => disposed /\ slow /\ stops = 0
    /\ ~slow => closing = "nobody"
    /\ alive /\ closing = "quit" => quitting
    /\ alive /\ stops = 1 => quitting
    /\ alive /\ ~quitting => windows["main"] # "none"
    /\ alive /\ quitting => disposed
    /\ ~alive => disposed /\ (stops = 1 \/ slow)
    /\ asked => quitting

\* What has not been built yet, and what has been.
Generations ==
    /\ \A n \in Builds : n > stops => services[n] = Unbuilt
    /\ \A n \in Builds : services[n].timer => services[n].built
    /\ \A f \in flights : f.service <= stops /\ services[f.service].built

\* After a stop no timer is armed.
Quiet == stops = 1 => \A n \in Builds : ~services[n].timer

\* What the file holds, and what a forgotten service could write over it, is
\* known to the service that owns the file, or recorded.
Copies ==
    /\ disk \subseteq Queue(stops) \cup received
    /\ stops = 0 => services[0].queue \subseteq disk
    /\ \A n \in Builds : n < stops => services[n].queue \subseteq Queue(stops) \cup received

IInv == Typing /\ Lifecycle /\ Generations /\ Quiet /\ Copies

-----------------------------------------------------------------------------
(* The initial states, and the steps of the windows.                       *)

LEMMA InitIInv == Init => IInv
PROOF
  <1> SUFFICES ASSUME Init PROVE IInv
    OBVIOUS
  <1>1. Typing
    <2>1. services \in [Builds -> Services]
      BY DEF Init, Services, Unbuilt
    <2>2. 0 \in 0 .. MaxAttempts /\ 0 \in 0 .. MaxDelay /\ 0 \in Builds
      BY RuntimeAssumption DEF Builds
    <2>3. windows \in [Windows -> {"none", "shown", "hidden"}]
      BY DEF Init, WindowsInit
    <2>4. QED
      BY <2>1, <2>2, <2>3 DEF Init, Typing, WindowsInit
  <1>2. Lifecycle
    BY DEF Init, Lifecycle, WindowsInit, Windows
  <1>3. \A n \in Builds : services[n] = Unbuilt
    BY DEF Init
  <1>4. Generations /\ Quiet
    BY <1>3 DEF Init, Generations, Quiet, Unbuilt
  <1>5. Copies
    BY <1>3 DEF Init, Copies, Queue, Unbuilt, Builds
  <1>6. QED
    BY <1>1, <1>2, <1>4, <1>5 DEF IInv

\* What a step of the windows may change.
LEMMA WindowStepEffect ==
  ASSUME IInv, alive, WindowStep
  PROVE  /\ windows' \in [Windows -> {"none", "shown", "hidden"}]
         /\ quitting' = quitting
         /\ asked' \in BOOLEAN
         /\ asked' => asked
         /\ ~quitting => windows'["main"] # "none"
         /\ UNCHANGED <<runtimeVars, queueVars, retryVars>>
PROOF
  <1> USE DEF IInv, Typing, Lifecycle, Becomes, Open, Windows, Widgets, windowVars
  <1>1. CASE \E w \in Widgets : Toggle(w)
    BY <1>1 DEF WindowStep, Toggle
  <1>2. CASE \E w \in Windows : Close(w)
    BY <1>2 DEF WindowStep, Close
  <1>3. CASE HideBrainDump \/ ShowMain
    BY <1>3 DEF WindowStep, HideBrainDump, ShowMain
  <1>4. CASE MainWindowCloses \/ PageRefuses
    BY <1>4 DEF WindowStep, MainWindowCloses, PageRefuses
  <1>5. QED
    BY <1>1, <1>2, <1>3, <1>4 DEF WindowStep

LEMMA WindowStepIInv ==
  ASSUME IInv, alive, WindowStep
  PROVE  IInv'
PROOF
  <1>1. Typing'
    BY WindowStepEffect DEF IInv, Typing, runtimeVars, queueVars, retryVars
  <1>2. Lifecycle'
    <2>1. /\ UNCHANGED <<quitting, alive, slow, disposed, closing, stops, handled>>
          /\ ~quitting' => windows'["main"] # "none"
          /\ asked' => asked
      BY WindowStepEffect DEF runtimeVars
    <2>2. QED
      BY <2>1 DEF IInv, Lifecycle
  <1>3. Generations' /\ Quiet' /\ Copies'
    BY WindowStepEffect DEF IInv, Generations, Quiet, Copies, Queue, runtimeVars, queueVars, retryVars
  <1>4. QED
    BY <1>1, <1>2, <1>3 DEF IInv

-----------------------------------------------------------------------------
(* Facts about the services and the flushes.                               *)

\* A service replaced by a service.
LEMMA Replaced ==
  ASSUME services \in [Builds -> Services], NEW n \in Builds,
         NEW queue \in SUBSET Captures, NEW timer \in BOOLEAN
  PROVE  [services EXCEPT ![n] = Service(queue, timer)] \in [Builds -> Services]
  BY DEF Services, Service

LEMMA QueueTyped ==
  ASSUME Typing, NEW n \in Builds
  PROVE  /\ Queue(n) \in SUBSET Captures
         /\ services[n].queue \in SUBSET Captures
         /\ services[n].timer \in BOOLEAN
  BY DEF Typing, Queue, Services

\* A flush that is begun is one of the service that begins it.
LEMMA LaunchTyped ==
  ASSUME Typing, NEW n \in Builds, NEW by \in {"timer", "runtime"}, Launch(n, by)
  PROVE  /\ flights' \subseteq Flights
         /\ \A f \in flights' : f \in flights \/ f.service = n
  BY QueueTyped DEF Typing, Launch, Flights

\* A stop takes a timer from the service it forgets, and nothing else.
LEMMA StopEffect ==
  ASSUME Typing, Lifecycle, Generations, Stop
  PROVE  /\ stops' \in Builds
         /\ stops = 0 => stops' = 1
         /\ services' \in [Builds -> Services]
         /\ \A n \in Builds : /\ services'[n].built = services[n].built
                              /\ services'[n].queue = services[n].queue
                              /\ n # stops => services'[n] = services[n]
         /\ ~services'[stops].timer
         /\ retry' = 0 /\ handled' = FALSE
PROOF
  <1> USE DEF Typing, Lifecycle, Generations, Stop
  <1>1. stops' \in Builds /\ (stops = 0 => stops' = 1)
    BY DEF Builds
  <1>2. [built |-> services[stops].built, queue |-> services[stops].queue, timer |-> FALSE]
          \in Services
    BY DEF Services
  <1>3. services' \in [Builds -> Services]
    BY <1>2
  <1>4. QED
    BY <1>1, <1>3 DEF Services

\* The end of the process leaves no service.
LEMMA EndEffect ==
  ASSUME End
  PROVE  /\ alive' = FALSE /\ flights' = {} /\ attempt' = 0 /\ retry' = 0
         /\ services' \in [Builds -> Services]
         /\ \A n \in Builds : services'[n] = Unbuilt
         /\ \A n \in Builds : services'[n].queue = {} /\ ~services'[n].built
                             /\ ~services'[n].timer
  BY DEF End, Services, Unbuilt

\* When the process ends, all that is left to know is how it was asked to.
LEMMA EndIInv ==
  ASSUME IInv, End, UNCHANGED <<windows, quitting, asked, slow, disk, accepted, received>>,
         disposed' \in BOOLEAN, closing' \in {"nobody", closing}, stops' \in {0, 1},
         handled' \in BOOLEAN, handled' <=> stops' = 0, disposed', stops' = 1 \/ slow,
         closing' # "nobody" => stops' = 0, closing' # "nobody" => slow
  PROVE  IInv'
PROOF
  <1>1. Typing'
    <2>1. alive' \in BOOLEAN /\ stops' \in Builds
      BY EndEffect DEF Builds
    <2>2. attempt' \in 0 .. MaxAttempts /\ retry' \in 0 .. MaxDelay
      BY EndEffect, RuntimeAssumption
    <2>3. QED
      BY <2>1, <2>2, EndEffect DEF IInv, Typing
  <1>2. Lifecycle'
    BY EndEffect DEF IInv, Typing, Lifecycle
  <1>3. Generations' /\ Quiet'
    BY EndEffect DEF Generations, Quiet
  <1>4. stops' \in Builds /\ Queue(stops)' = disk
    BY EndEffect DEF Queue, Builds
  <1>5. Copies'
    BY <1>4, EndEffect DEF IInv, Copies, Builds
  <1>6. QED
    BY <1>1, <1>2, <1>3, <1>5 DEF IInv

\* A stop that is the first of a process that quits.
LEMMA StopIInv ==
  ASSUME IInv, alive, Stop, stops = 0, quitting', disposed', closing' = "nobody",
         windows' \in [Windows -> {"none", "shown", "hidden"}], asked' \in BOOLEAN,
         quitting' \in BOOLEAN, disposed' \in BOOLEAN,
         UNCHANGED <<alive, slow, disk, flights, accepted, received, attempt>>
  PROVE  IInv'
PROOF
  <1> USE DEF IInv
  <1>0. /\ stops' = 1 /\ stops' \in Builds
        /\ services' \in [Builds -> Services]
        /\ \A n \in Builds : /\ services'[n].built = services[n].built
                             /\ services'[n].queue = services[n].queue
                             /\ n # 0 => services'[n] = services[n]
        /\ ~services'[0].timer
        /\ retry' = 0 /\ handled' = FALSE
    BY StopEffect
  <1> USE <1>0
  <1>1. Typing'
    <2>1. retry' = 0 /\ 0 \in 0 .. MaxDelay /\ handled' = FALSE
      BY RuntimeAssumption
    <2>2. closing' \in {"nobody", "quit", "signal"}
      OBVIOUS
    <2>3. QED
      BY <2>1, <2>2 DEF Typing
  <1>2. Lifecycle'
    BY DEF Typing, Lifecycle
  <1>3. Generations'
    BY DEF Typing, Generations, Flights, Builds
  <1>4. Quiet'
    BY DEF Typing, Generations, Quiet, Builds, Unbuilt
  <1>5. Copies'
    BY DEF Typing, Generations, Copies, Queue, Builds, Unbuilt
  <1>6. QED
    BY <1>1, <1>2, <1>3, <1>4, <1>5

-----------------------------------------------------------------------------
(* The steps of the queue.                                                 *)

\* A service that is built or goes on: it may arm its timer only while no stop
\* has been made.
LEMMA Served ==
  ASSUME IInv, NEW n \in Builds, n <= stops,
         NEW queue \in SUBSET Captures, NEW timer \in BOOLEAN, stops = 1 => ~timer,
         services' = [services EXCEPT ![n] = Service(queue, timer)],
         flights' \subseteq Flights, \A f \in flights' : f \in flights \/ f.service = n,
         stops' = stops
  PROVE  /\ services' \in [Builds -> Services]
         /\ Generations' /\ Quiet'
         /\ services'[n].built /\ services'[n].queue = queue
         /\ \A m \in Builds : m # n => services'[m] = services[m]
PROOF
  <1>1. services' \in [Builds -> Services]
    BY Replaced DEF IInv, Typing
  <1>2. services'[n] = Service(queue, timer) /\ \A m \in Builds : m # n => services'[m] = services[m]
    BY DEF IInv, Typing
  <1>3. /\ services'[n].built /\ services'[n].queue = queue
        /\ services'[n].timer = timer
    BY <1>2 DEF Service
  <1>4. Generations'
    <2>1. \A m \in Builds : m > stops' => services'[m] = Unbuilt
      <3>1. \A m \in Builds : m > stops => m # n
        BY DEF Builds, IInv, Typing
      <3>2. QED
        BY <1>2, <3>1 DEF IInv, Generations
    <2>2. ASSUME NEW f \in flights'
          PROVE  f.service <= stops' /\ services'[f.service].built
      <3>1. f.service \in Builds
        BY DEF Flights
      <3>2. CASE f.service = n
        BY <1>3, <3>2
      <3>3. CASE f.service # n
        BY <1>2, <3>1, <3>3 DEF IInv, Generations
      <3>4. QED
        BY <3>2, <3>3
    <2>3. \A m \in Builds : services'[m].timer => services'[m].built
      BY <1>2, <1>3 DEF IInv, Generations
    <2>4. QED
      BY <2>1, <2>2, <2>3 DEF Generations
  <1>5. Quiet'
    BY <1>2, <1>3 DEF IInv, Quiet
  <1>6. QED
    BY <1>1, <1>2, <1>3, <1>4, <1>5

\* After a stop nothing arms a timer: the process is one that quits.
LEMMA ArmedBefore ==
  ASSUME IInv, alive, NEW timer \in BOOLEAN, stops = 1 => ~timer
  PROVE  Armed(timer) \in BOOLEAN /\ (stops = 1 => ~Armed(timer))
  BY DEF Armed, IInv, Typing, Lifecycle

\* The service of the present, and its timer.
LEMMA Present ==
  ASSUME IInv
  PROVE  /\ stops \in Builds /\ stops <= stops
         /\ Queue(stops) \in SUBSET Captures
         /\ services[stops].timer \in BOOLEAN
         /\ stops = 1 => ~services[stops].timer
  BY QueueTyped DEF IInv, Typing, Quiet, Builds

\* Copies outlive a step by which the service that owns the file is built, if
\* it was not, and nothing else changes in the queues.
LEMMA CopiesStay ==
  ASSUME IInv, NEW n \in Builds, n <= stops,
         NEW queue, queue = services[n].queue \/ (n = stops /\ queue = Queue(n)),
         services'[n].built, services'[n].queue = queue,
         services[n].built \/ n = stops,
         n = stops => queue = Queue(n),
         \A m \in Builds : m # n => services'[m] = services[m],
         stops' = stops, disk' = disk, received' = received
  PROVE  Copies'
PROOF
  <1>1. Queue(stops)' = Queue(stops)
    BY DEF Queue, IInv, Typing
  <1>2. \A m \in Builds : m < stops => services'[m].queue = services[m].queue
    BY DEF IInv, Typing, Builds
  <1>3. stops = 0 => services'[0].queue \subseteq disk
    <2>1. CASE stops = 0
      <3>1. n = 0 /\ services'[0].queue = Queue(0)
        BY <2>1 DEF Builds
      <3>2. Queue(0) \subseteq disk
        BY <2>1 DEF Queue, IInv, Copies
      <3>3. QED
        BY <3>1, <3>2
    <2>2. QED
      BY <2>1
  <1>4. QED
    BY <1>1, <1>2, <1>3 DEF IInv, Copies

LEMMA CaptureFailsIInv ==
  ASSUME IInv, alive, NEW c \in Captures, CaptureFails(c)
  PROVE  IInv'
PROOF
  <1> DEFINE queue == Queue(stops) \cup {c}
             timer == Armed(services[stops].timer)
  <1>1. /\ services' = [services EXCEPT ![stops] = Service(queue, timer)]
        /\ disk' = queue /\ accepted' = accepted \cup {c} /\ received' = received
        /\ UNCHANGED <<windowVars, runtimeVars, flights, retryVars>>
    BY DEF CaptureFails, IInv, Typing
  <1>2. queue \in SUBSET Captures
    BY Present
  <1>3. timer \in BOOLEAN /\ (stops = 1 => ~timer)
    BY Present, ArmedBefore
  <1>4. stops' = stops
    BY <1>1 DEF runtimeVars
  <1>5. flights' \subseteq Flights /\ \A f \in flights' : f \in flights \/ f.service = stops
    BY <1>1 DEF IInv, Typing
  <1> HIDE DEF queue, timer
  <1>6. /\ services' \in [Builds -> Services]
        /\ Generations' /\ Quiet'
        /\ services'[stops].built /\ services'[stops].queue = queue
        /\ \A m \in Builds : m # stops => services'[m] = services[m]
    BY <1>1, <1>2, <1>3, <1>4, <1>5, Present, Served
  <1>7. Typing'
    BY <1>1, <1>2, <1>6 DEF IInv, Typing, windowVars, runtimeVars, retryVars
  <1>8. Lifecycle'
    BY <1>1 DEF IInv, Lifecycle, windowVars, runtimeVars
  <1>9. Copies'
    <2>1. Queue(stops)' = queue
      BY <1>4, <1>6 DEF Queue
    <2>2. Queue(stops) \subseteq queue
      BY DEF queue
    <2>3. \A m \in Builds : m < stops => services'[m].queue = services[m].queue
      BY <1>6, Present DEF Builds
    <2>4. stops = 0 => services'[0].queue \subseteq disk'
      BY <1>1, <1>6
    <2>5. QED
      BY <1>1, <1>4, <2>1, <2>2, <2>3, <2>4 DEF IInv, Copies
  <1>10. QED
    BY <1>6, <1>7, <1>8, <1>9 DEF IInv

\* A flush by the runtime, whoever asks for it.
LEMMA RuntimeFlushes ==
  ASSUME IInv, alive,
         services' = [services EXCEPT ![stops] = Service(Queue(stops), services[stops].timer)],
         Launch(stops, "runtime"),
         UNCHANGED <<windowVars, runtimeVars, disk, accepted, received, attempt>>,
         retry' \in {0, retry}
  PROVE  IInv'
PROOF
  <1>1. stops' = stops
    BY DEF runtimeVars
  <1>2. flights' \subseteq Flights /\ \A f \in flights' : f \in flights \/ f.service = stops
    BY LaunchTyped, Present DEF IInv
  <1>3. /\ services' \in [Builds -> Services]
        /\ Generations' /\ Quiet'
        /\ services'[stops].built /\ services'[stops].queue = Queue(stops)
        /\ \A m \in Builds : m # stops => services'[m] = services[m]
    BY <1>1, <1>2, Present, Served
  <1>4. retry' \in 0 .. MaxDelay
    BY RuntimeAssumption DEF IInv, Typing
  <1>5. Typing'
    BY <1>2, <1>3, <1>4 DEF IInv, Typing, windowVars, runtimeVars
  <1>6. Lifecycle'
    BY DEF IInv, Lifecycle, windowVars, runtimeVars
  <1>7. Copies'
    BY <1>1, <1>3, Present, CopiesStay
  <1>8. QED
    BY <1>3, <1>5, <1>6, <1>7 DEF IInv

LEMMA FlushNowIInv ==
  ASSUME IInv, alive, FlushNow
  PROVE  IInv'
  BY RuntimeFlushes DEF FlushNow, retryVars

LEMMA RetryFiresIInv ==
  ASSUME IInv, alive, RetryFires
  PROVE  IInv'
  BY RuntimeFlushes DEF RetryFires

LEMMA ScheduleRetryIInv ==
  ASSUME IInv, alive, ScheduleRetry
  PROVE  IInv'
PROOF
  <1>1. /\ UNCHANGED <<windowVars, runtimeVars, queueVars>>
        /\ attempt' = Following(attempt)
        /\ retry' = 0 \/ retry' = RetryDelay(attempt')
    BY DEF ScheduleRetry
  <1>2. retry' \in 0 .. MaxDelay
    <2>1. RetryDelay(attempt') \in 0 .. MaxDelay
      BY RuntimeAssumption DEF RetryDelay
    <2>2. QED
      BY <1>1, <2>1, RuntimeAssumption
  <1>3. attempt' \in 0 .. MaxAttempts
    BY <1>1, RuntimeAssumption DEF Following, IInv, Typing
  <1>4. Typing'
    BY <1>1, <1>2, <1>3 DEF IInv, Typing, windowVars, runtimeVars, queueVars
  <1>5. Lifecycle'
    BY <1>1 DEF IInv, Lifecycle, windowVars, runtimeVars
  <1>6. Quiet'
    BY <1>1 DEF IInv, Quiet, runtimeVars, queueVars
  <1>7. Generations' /\ Copies'
    BY <1>1 DEF IInv, Generations, Copies, Queue, runtimeVars, queueVars
  <1>8. QED
    BY <1>4, <1>5, <1>6, <1>7 DEF IInv

LEMMA FlushTimerFiresIInv ==
  ASSUME IInv, alive, NEW n \in Builds, FlushTimerFires(n)
  PROVE  IInv'
PROOF
  <1>1. /\ services' = [services EXCEPT ![n] = Service(services[n].queue, FALSE)]
        /\ services[n].timer
        /\ UNCHANGED flights \/ Launch(n, "timer")
        /\ UNCHANGED <<windowVars, runtimeVars, disk, accepted, received, retryVars>>
    BY DEF FlushTimerFires, IInv, Typing
  <1>2. n <= stops
    BY <1>1 DEF IInv, Typing, Generations, Unbuilt, Builds
  <1>3. services[n].queue \in SUBSET Captures
    BY QueueTyped DEF IInv
  <1>4. flights' \subseteq Flights /\ \A f \in flights' : f \in flights \/ f.service = n
    BY <1>1, LaunchTyped DEF IInv, Typing
  <1>5. stops' = stops
    BY <1>1 DEF runtimeVars
  <1>6. /\ services' \in [Builds -> Services]
        /\ Generations' /\ Quiet'
        /\ services'[n].built /\ services'[n].queue = services[n].queue
        /\ \A m \in Builds : m # n => services'[m] = services[m]
    BY <1>1, <1>2, <1>3, <1>4, <1>5, Served
  <1>7. Typing'
    BY <1>1, <1>4, <1>6 DEF IInv, Typing, windowVars, runtimeVars, retryVars
  <1>8. Lifecycle'
    BY <1>1 DEF IInv, Lifecycle, windowVars, runtimeVars
  <1>9. services[n].built
    BY <1>1 DEF IInv, Generations
  <1>10. Copies'
    BY <1>1, <1>2, <1>5, <1>6, <1>9, CopiesStay DEF Queue
  <1>11. QED
    BY <1>6, <1>7, <1>8, <1>10 DEF IInv

LEMMA FlushEndsIInv ==
  ASSUME IInv, alive, NEW f \in flights, NEW done \in SUBSET f.batch, FlushEnds(f, done)
  PROVE  IInv'
PROOF
  <1> DEFINE n == f.service
             left == services[n].queue \ done
             timer == IF left # {} THEN Armed(services[n].timer)
                      ELSE f.by = "timer" /\ done # {} /\ Armed(FALSE)
  <1>1. n \in Builds /\ n <= stops /\ done \subseteq Captures /\ services[n].built
    BY DEF IInv, Typing, Flights, Generations
  <1>2. /\ services' = [services EXCEPT ![n] = Service(left, timer)]
        /\ flights' = flights \ {f}
        /\ disk' = left /\ received' = received \cup done /\ accepted' = accepted
        /\ attempt' \in {0, attempt}
        /\ UNCHANGED <<windowVars, runtimeVars, retry>>
    BY <1>1 DEF FlushEnds, IInv, Typing
  <1>3. left \in SUBSET Captures
    BY <1>1, QueueTyped DEF IInv
  <1>4. timer \in BOOLEAN /\ (stops = 1 => ~timer)
    <2>1. services[n].timer \in BOOLEAN /\ (stops = 1 => ~services[n].timer)
      BY <1>1, QueueTyped DEF IInv, Quiet
    <2>2. Armed(services[n].timer) \in BOOLEAN /\ (stops = 1 => ~Armed(services[n].timer))
      BY <2>1, ArmedBefore
    <2>3. Armed(FALSE) \in BOOLEAN /\ (stops = 1 => ~Armed(FALSE))
      BY ArmedBefore
    <2>4. QED
      BY <2>2, <2>3
  <1>5. stops' = stops
    BY <1>2 DEF runtimeVars
  <1>6. flights' \subseteq Flights /\ \A g \in flights' : g \in flights \/ g.service = n
    BY <1>2 DEF IInv, Typing
  <1> HIDE DEF n, left, timer
  <1>7. /\ services' \in [Builds -> Services]
        /\ Generations' /\ Quiet'
        /\ services'[n].built /\ services'[n].queue = left
        /\ \A m \in Builds : m # n => services'[m] = services[m]
    BY <1>1, <1>2, <1>3, <1>4, <1>5, <1>6, Served
  <1>8. Typing'
    <2>1. attempt' \in 0 .. MaxAttempts
      BY <1>2, RuntimeAssumption DEF IInv, Typing
    <2>2. disk' \subseteq Captures /\ received' \subseteq Captures /\ accepted' \subseteq Captures
      BY <1>1, <1>2, <1>3 DEF IInv, Typing
    <2>3. QED
      BY <1>2, <1>6, <1>7, <2>1, <2>2 DEF IInv, Typing, windowVars, runtimeVars
  <1>9. Lifecycle'
    BY <1>2 DEF IInv, Lifecycle, windowVars, runtimeVars
  <1>10. Copies'
    <2>1. left \subseteq services[n].queue /\ services[n].queue \subseteq left \cup received'
      BY <1>2 DEF left
    <2>2. CASE n = stops
      <3>1. Queue(stops) = services[n].queue
        BY <1>1, <2>2 DEF Queue
      <3>2. Queue(stops)' = left
        BY <1>5, <1>7, <2>2 DEF Queue
      <3>3. \A m \in Builds : m < stops => services'[m].queue = services[m].queue
        BY <1>1, <1>7, <2>2 DEF Builds
      <3>4. stops = 0 => services'[0].queue \subseteq disk'
        BY <1>2, <1>7, <2>2
      <3>5. \A m \in Builds : m < stops => services[m].queue \subseteq left \cup received'
        BY <1>2, <2>1, <3>1 DEF IInv, Copies
      <3>6. QED
        BY <1>2, <1>5, <2>1, <3>2, <3>3, <3>4, <3>5 DEF Copies
    <2>3. CASE n < stops
      <3>1. stops = 1 /\ n = 0
        BY <1>1, <2>3 DEF Builds, IInv, Lifecycle
      <3>2. services[0].queue \subseteq Queue(1) \cup received /\ disk \subseteq Queue(1) \cup received
        BY <3>1 DEF IInv, Copies, Builds
      <3>3. CASE services[1].built
        <4>1. Queue(stops)' = Queue(1)
          BY <1>5, <1>7, <3>1, <3>3 DEF Queue, Builds
        <4>2. left \subseteq Queue(1) \cup received'
          BY <1>2, <2>1, <3>1, <3>2
        <4>3. \A m \in Builds : m < 1 => services'[m].queue = left
          BY <1>7, <3>1 DEF Builds
        <4>4. QED
          BY <1>2, <1>5, <3>1, <4>1, <4>2, <4>3 DEF Copies
      <3>4. CASE ~services[1].built
        <4>1. Queue(stops)' = left
          BY <1>2, <1>5, <1>7, <3>1, <3>4 DEF Queue, Builds
        <4>2. \A m \in Builds : m < 1 => services'[m].queue = left
          BY <1>7, <3>1 DEF Builds
        <4>3. QED
          BY <1>2, <1>5, <3>1, <4>1, <4>2 DEF Copies
      <3>5. QED
        BY <3>3, <3>4
    <2>4. QED
      BY <1>1, <2>2, <2>3 DEF IInv, Typing, Builds
  <1>11. QED
    BY <1>7, <1>8, <1>9, <1>10 DEF IInv

-----------------------------------------------------------------------------
(* The steps that end a process.                                           *)

LEMMA QuitIInv ==
  ASSUME IInv, alive, Quit
  PROVE  IInv'
PROOF
  <1>1. /\ quitting' = TRUE /\ asked' = TRUE
        /\ windows' \in [Windows -> {"none", "shown", "hidden"}]
        /\ UNCHANGED <<alive, slow, disk, flights, accepted, received, attempt>>
    BY DEF Quit, QuitWindows, DestroyWidgets, IInv, Typing
  <1>2. CASE ~asked /\ ~disposed /\ ~slow
    BY <1>1, <1>2, StopIInv DEF Quit, Shutdown, IInv, Typing, Lifecycle
  <1>3. CASE asked \/ disposed \/ slow
    <2>1. UNCHANGED <<stops, handled, retry, services>>
      BY <1>3 DEF Quit, Shutdown, DoNotStop, IInv, Typing
    <2>2. \/ UNCHANGED <<disposed, closing>>
          \/ ~disposed /\ slow /\ disposed' = TRUE /\ closing' = "quit"
      BY <1>3 DEF Quit, Shutdown, IInv, Typing
    <2>3. asked => disposed
      BY DEF IInv, Lifecycle, Typing
    <2>4. disposed'
      BY <1>3, <2>3 DEF Quit, Shutdown, IInv, Typing
    <2>5. Typing'
      BY <1>1, <2>1, <2>2 DEF IInv, Typing
    <2>6. Lifecycle'
      BY <1>1, <2>1, <2>2, <2>4 DEF IInv, Typing, Lifecycle
    <2>7. Generations' /\ Quiet' /\ Copies'
      BY <1>1, <2>1 DEF IInv, Generations, Quiet, Copies, Queue
    <2>8. QED
      BY <2>5, <2>6, <2>7 DEF IInv
  <1>4. QED
    BY <1>2, <1>3 DEF IInv, Typing

LEMMA SignalWaitedIInv ==
  ASSUME IInv, alive, SignalWaited
  PROVE  IInv'
PROOF
  <1>1. /\ UNCHANGED <<stops, handled, retry, services>>
        /\ UNCHANGED <<windows, quitting, asked, alive, slow, disk, flights, accepted, received, attempt>>
        /\ slow /\ handled /\ ~disposed /\ disposed' = TRUE /\ closing' = "signal"
    BY DEF SignalWaited, Shutdown, DoNotStop, windowVars, IInv, Typing
  <1>2. Typing'
    BY <1>1 DEF IInv, Typing
  <1>3. Lifecycle'
    BY <1>1 DEF IInv, Typing, Lifecycle
  <1>4. Generations' /\ Quiet' /\ Copies'
    BY <1>1 DEF IInv, Generations, Quiet, Copies, Queue
  <1>5. QED
    BY <1>2, <1>3, <1>4 DEF IInv

LEMMA SignalEndsIInv ==
  ASSUME IInv, alive, SignalEnds
  PROVE  IInv'
PROOF
  <1>1. UNCHANGED <<windows, quitting, asked, slow, closing, disk, accepted, received>>
    BY DEF SignalEnds, windowVars
  <1>2. /\ disposed' \in BOOLEAN /\ disposed'
        /\ stops' \in {0, 1} /\ handled' \in BOOLEAN /\ (handled' <=> stops' = 0)
        /\ stops' = 1 \/ slow
        /\ closing # "nobody" => stops' = 0 /\ slow
    BY DEF SignalEnds, IInv, Typing, Lifecycle
  <1>3. QED
    BY <1>1, <1>2, EndIInv DEF SignalEnds

LEMMA FinalFlushEndsIInv ==
  ASSUME IInv, alive, NEW ok \in BOOLEAN, FinalFlushEnds(ok)
  PROVE  IInv'
  BY StopIInv DEF FinalFlushEnds, windowVars, IInv, Typing, Lifecycle

LEMMA HandlerEndsIInv ==
  ASSUME IInv, alive, HandlerEnds
  PROVE  IInv'
PROOF
  <1>1. disposed /\ stops = 0
    BY DEF HandlerEnds, IInv, Lifecycle
  <1>2. /\ UNCHANGED <<windows, quitting, asked, slow, disposed, disk, accepted, received>>
        /\ closing' = "nobody" /\ stops' = 1 /\ handled' = FALSE
        /\ End
    BY <1>1 DEF HandlerEnds, windowVars
  <1>3. disposed' \in BOOLEAN /\ disposed'
    BY <1>1, <1>2 DEF IInv, Typing
  <1>4. stops' \in {0, 1} /\ stops' # 0
    BY <1>2
  <1>5. handled' \in BOOLEAN
    BY <1>2
  <1>6. ~handled'
    BY <1>2
  <1>7. QED
    BY <1>2, <1>3, <1>4, <1>5, <1>6, EndIInv

LEMMA ExitIInv ==
  ASSUME IInv, alive, Exit
  PROVE  IInv'
PROOF
  <1>1. UNCHANGED <<windows, quitting, asked, slow, disposed, closing, stops, handled, disk,
                    accepted, received>>
    BY DEF Exit, windowVars
  <1>2. windows["main"] = "none"
    BY DEF Exit, AllClosed, Open, Windows
  <1>3. disposed /\ (stops = 1 \/ slow)
    BY <1>2 DEF IInv, Typing, Lifecycle
  <1>4. QED
    BY <1>1, <1>3, EndIInv DEF Exit, IInv, Typing, Lifecycle

-----------------------------------------------------------------------------
(* The invariant.                                                          *)

LEMMA NextIInv == IInv /\ [Next]_vars => IInv'
PROOF
  <1> SUFFICES ASSUME IInv, [Next]_vars PROVE IInv'
    OBVIOUS
  <1>1. CASE alive /\ WindowStep
    BY <1>1, WindowStepIInv
  <1>2. CASE alive /\ QueueStep
    BY <1>2, CaptureFailsIInv, FlushNowIInv, FlushTimerFiresIInv, FlushEndsIInv,
       ScheduleRetryIInv, RetryFiresIInv DEF QueueStep
  <1>3. CASE alive /\ ProcessStep
    BY <1>3, QuitIInv, SignalWaitedIInv, SignalEndsIInv, FinalFlushEndsIInv,
       HandlerEndsIInv, ExitIInv DEF ProcessStep
  <1>4. CASE UNCHANGED vars
    BY <1>4 DEF vars, windowVars, runtimeVars, queueVars, retryVars, IInv, Typing, Lifecycle,
       Generations, Quiet, Copies, Queue
  <1>5. QED
    BY <1>1, <1>2, <1>3, <1>4 DEF Next

\* The strengthening is an invariant.
THEOREM Invariance == Spec => []IInv
PROOF
  <1>1. QED
    BY InitIInv, NextIInv, PTL DEF Spec

\* Every variable of the runtime has its type.
THEOREM TypeCorrectness == Spec => []TypeOK
PROOF
  <1>1. IInv => TypeOK
    BY DEF IInv, Typing, TypeOK
  <1>2. QED
    BY Invariance, <1>1, PTL

\* However quits and signals come, the runtime stops at most once.
THEOREM IdempotentStop == Spec => []StopsOnce
PROOF
  <1>1. IInv => StopsOnce
    BY DEF IInv, Lifecycle, StopsOnce
  <1>2. QED
    BY Invariance, <1>1, PTL

\* A runtime that has stopped arms no timer any more.
THEOREM QuietStop == Spec => []StoppedIsQuiet
PROOF
  <1>1. IInv => StoppedIsQuiet
    BY DEF IInv, Lifecycle, Quiet, StoppedIsQuiet, Stopped
  <1>2. QED
    BY Invariance, <1>1, PTL

\* The process never ends without having been asked to, nor before the runtime
\* has stopped, unless a final flush takes time.
THEOREM CleanExit == Spec => []ExitIsClean
PROOF
  <1>1. IInv => ExitIsClean
    BY DEF IInv, Lifecycle, ExitIsClean, Stopped
  <1>2. QED
    BY Invariance, <1>1, PTL

\* A shutdown once begun has somebody to finish it, until it is finished.
THEOREM ShutdownGoesOn == Spec => []ShutdownIsPending
PROOF
  <1>1. IInv => ShutdownIsPending
    BY DEF IInv, Lifecycle, ShutdownIsPending, Stopped
  <1>2. QED
    BY Invariance, <1>1, PTL

\* No close, toggle or refused quit destroys the main window of a working agent.
THEOREM MainWindowIsKept == Spec => []MainWindowStays
PROOF
  <1>1. IInv => MainWindowStays
    BY DEF IInv, Lifecycle, MainWindowStays
  <1>2. QED
    BY Invariance, <1>1, PTL

-----------------------------------------------------------------------------
(* How a capture is lost.                                                  *)

\* Steps that leave the file, what was accepted and what was received alone.
LEMMA NothingMissing ==
  ASSUME UNCHANGED <<disk, accepted, received>>
  PROVE  LostByForgotten
  BY DEF LostByForgotten, Missing

\* A capture that is queued is written with all that the service holds.
LEMMA CaptureFailsKeeps ==
  ASSUME IInv, NEW c \in Captures, CaptureFails(c)
  PROVE  LostByForgotten
PROOF
  <1>1. disk' = Queue(stops) \cup {c} /\ accepted' = accepted \cup {c} /\ received' = received
    BY DEF CaptureFails
  <1>2. disk \subseteq Queue(stops) \cup received
    BY DEF IInv, Copies
  <1>3. Missing' \subseteq Missing
    BY <1>1, <1>2 DEF Missing
  <1>4. QED
    BY <1>3 DEF LostByForgotten

\* An answer to the service that owns the file removes what was received.
LEMMA FlushEndsKeeps ==
  ASSUME IInv, NEW f \in flights, NEW done \in SUBSET f.batch, FlushEnds(f, done)
  PROVE  LostByForgotten
PROOF
  <1>1. f \in flights \ flights'
    BY DEF FlushEnds
  <1>2. CASE f.service < stops
    BY <1>1, <1>2 DEF LostByForgotten
  <1>3. CASE f.service = stops
    <2>1. Queue(stops) = services[stops].queue
      BY <1>3 DEF IInv, Generations, Queue
    <2>2. disk' = services[stops].queue \ done /\ received' = received \cup done /\ accepted' = accepted
      BY <1>3 DEF FlushEnds
    <2>3. Missing' \subseteq Missing
      BY <2>1, <2>2 DEF IInv, Copies, Missing
    <2>4. QED
      BY <2>3 DEF LostByForgotten
  <1>4. f.service \in Builds /\ stops \in Builds /\ f.service <= stops
    BY DEF IInv, Typing, Flights, Generations
  <1>5. QED
    BY <1>2, <1>3, <1>4 DEF Builds

LEMMA StepKeeps == IInv /\ [Next]_vars => LostByForgotten
PROOF
  <1> SUFFICES ASSUME IInv, [Next]_vars PROVE LostByForgotten
    OBVIOUS
  <1>1. CASE WindowStep
    BY <1>1, NothingMissing DEF WindowStep, queueVars
  <1>2. CASE QueueStep
    <2>1. CASE \E c \in Captures : CaptureFails(c)
      BY <2>1, CaptureFailsKeeps
    <2>2. CASE \E f \in flights : \E done \in SUBSET f.batch : FlushEnds(f, done)
      BY <2>2, FlushEndsKeeps
    <2>3. CASE FlushNow \/ (\E n \in Builds : FlushTimerFires(n)) \/ ScheduleRetry \/ RetryFires
      BY <2>3, NothingMissing DEF FlushNow, FlushTimerFires, ScheduleRetry, RetryFires, queueVars
    <2>4. QED
      BY <1>2, <2>1, <2>2, <2>3 DEF QueueStep
  <1>3. CASE ProcessStep
    BY <1>3, NothingMissing DEF ProcessStep, Quit, SignalWaited, SignalEnds, FinalFlushEnds, HandlerEnds, Exit
  <1>4. CASE UNCHANGED vars
    BY <1>4, NothingMissing DEF vars, queueVars
  <1>5. QED
    BY <1>1, <1>2, <1>3, <1>4 DEF Next

\* A capture whose push returned true is lost only to the answer of a service
\* that stop() has forgotten.
THEOREM LossNeedsForgotten == Spec => OnlyForgottenServicesLose
PROOF
  <1>1. IInv /\ [Next]_vars => [LostByForgotten]_vars
    BY StepKeeps
  <1>2. QED
    BY Invariance, <1>1, PTL DEF Spec, OnlyForgottenServicesLose

\* A stop is never undone.
LEMMA StopsStay ==
  ASSUME IInv, [Next]_vars, ~Stopped'
  PROVE  ~Stopped
PROOF
  <1>1. stops \in {0, 1} /\ (Stopped <=> stops = 1)
    BY DEF IInv, Lifecycle, Stopped
  <1> SUFFICES ASSUME stops = 1 PROVE Stopped'
    BY <1>1
  <1>2. stops' = 1 \/ stops' = 2
    <2>1. CASE WindowStep
      BY <2>1 DEF WindowStep, runtimeVars
    <2>2. CASE QueueStep
      BY <2>2 DEF QueueStep, CaptureFails, FlushNow, FlushTimerFires, FlushEnds, ScheduleRetry,
                  RetryFires, runtimeVars
    <2>3. CASE ProcessStep
      <3>1. disposed /\ closing = "nobody"
        BY DEF IInv, Lifecycle, Typing
      <3>2. Quit \/ SignalEnds \/ Exit
        BY <2>3, <3>1 DEF ProcessStep, SignalWaited, FinalFlushEnds, HandlerEnds
      <3> QED
        BY <3>1, <3>2 DEF Quit, SignalEnds, Exit, Shutdown, DoNotStop
    <2>4. CASE UNCHANGED vars
      BY <2>4 DEF vars, runtimeVars
    <2> QED
      BY <2>1, <2>2, <2>3, <2>4 DEF Next
  <1> QED
    BY <1>2 DEF Stopped

\* Until stop() there is no forgotten service, and nothing is lost.
THEOREM NothingLostUntilStop == Spec => []KeptUntilStop
PROOF
  <1>1. Init => KeptUntilStop
    BY DEF Init, KeptUntilStop, Missing
  <1>2. IInv /\ KeptUntilStop /\ [Next]_vars => KeptUntilStop'
    <2> SUFFICES ASSUME IInv, KeptUntilStop, [Next]_vars, ~Stopped' PROVE Missing' = {}
      BY DEF KeptUntilStop
    <2>1. ~Stopped /\ Missing = {}
      BY StopsStay DEF KeptUntilStop
    <2>2. \A f \in flights : ~(f.service < stops)
      BY <2>1 DEF IInv, Typing, Flights, Builds, Stopped
    <2>3. Missing' \ Missing = {}
      BY <2>2, StepKeeps DEF LostByForgotten
    <2> QED
      BY <2>1, <2>3
  <1> QED
    BY Invariance, <1>1, <1>2, PTL DEF Spec

\* Steps that leave the file and the memory of what is forgotten.
LEMMA ForgottenStays ==
  ASSUME ForgottenIsKept, stops' = stops, received \cup disk \subseteq received' \cup disk',
         \A n \in Builds : n < stops => services'[n].queue = services[n].queue
  PROVE  ForgottenIsKept'
  BY DEF ForgottenIsKept

\* Whatever the queues do keeps what the forgotten service holds.
LEMMA QueueStepForgotten ==
  ASSUME IInv, ForgottenIsKept, QueueStep
  PROVE  ForgottenIsKept'
PROOF
  <1>1. stops \in Builds /\ services \in [Builds -> Services]
    BY DEF IInv, Typing
  <1>2. \A n \in Builds : n < stops => n # stops
    BY <1>1 DEF Builds
  <1>3. ASSUME NEW c \in Captures, CaptureFails(c) PROVE ForgottenIsKept'
    <2>1. /\ stops' = stops /\ received' = received /\ disk' = Queue(stops) \cup {c}
          /\ \A n \in Builds : n # stops => services'[n] = services[n]
      BY <1>1, <1>3 DEF CaptureFails, runtimeVars
    <2> QED
      BY <1>2, <2>1 DEF IInv, Copies, ForgottenIsKept
  <1>4. CASE FlushNow \/ RetryFires
    BY <1>1, <1>2, <1>4, ForgottenStays DEF FlushNow, RetryFires, runtimeVars
  <1>5. ASSUME NEW n \in Builds, FlushTimerFires(n) PROVE ForgottenIsKept'
    <2>1. /\ stops' = stops /\ received' = received /\ disk' = disk
          /\ \A m \in Builds : services'[m].queue = services[m].queue
      BY <1>1, <1>5 DEF FlushTimerFires, Service, runtimeVars
    <2> QED
      BY <2>1, ForgottenStays
  <1>6. ASSUME NEW f \in flights, NEW done \in SUBSET f.batch, FlushEnds(f, done)
        PROVE  ForgottenIsKept'
    <2> DEFINE n == f.service
               left == services[n].queue \ done
    <2>1. n \in Builds /\ n <= stops /\ services[n].built
      BY DEF IInv, Typing, Flights, Generations
    <2>2. /\ stops' = stops /\ received' = received \cup done /\ disk' = left
          /\ services'[n].queue = left
          /\ \A m \in Builds : m # n => services'[m] = services[m]
      BY <1>1, <1>6, <2>1 DEF FlushEnds, Service, runtimeVars
    <2>3. services[n].queue \subseteq received' \cup disk'
      BY <2>2
    <2> HIDE DEF n, left
    <2>4. CASE n = stops
      <3>1. \A m \in Builds : m < stops => services[m].queue \subseteq received' \cup disk'
        BY <2>1, <2>2, <2>3, <2>4 DEF IInv, Copies, Queue
      <3> QED
        BY <1>2, <2>2, <2>4, <3>1 DEF ForgottenIsKept
    <2>5. CASE n < stops
      <3>1. n = 0 /\ stops = 1
        BY <2>1, <2>5 DEF IInv, Lifecycle, Builds
      <3> QED
        BY <2>2, <3>1 DEF ForgottenIsKept, Builds
    <2> QED
      BY <1>1, <2>1, <2>4, <2>5 DEF Builds
  <1>7. CASE ScheduleRetry
    BY <1>7, ForgottenStays DEF ScheduleRetry, runtimeVars, queueVars
  <1> QED
    BY <1>3, <1>4, <1>5, <1>6, <1>7 DEF QueueStep

\* A stop forgets a service whose memory is in the file.
LEMMA StopForgets ==
  ASSUME IInv, Stop, stops = 0, UNCHANGED <<disk, received>>
  PROVE  ForgottenIsKept'
PROOF
  <1>1. \A n \in Builds : services'[n].queue = services[n].queue
    BY StopEffect DEF IInv
  <1>2. stops' = 1 /\ services[0].queue \subseteq disk
    BY StopEffect DEF IInv, Copies
  <1> QED
    BY <1>1, <1>2 DEF ForgottenIsKept, Builds

\* A process that ends leaves no memory, forgotten or not.
LEMMA EndForgets ==
  ASSUME End
  PROVE  ForgottenIsKept'
  BY EndEffect DEF ForgottenIsKept

\* Nothing that a service knew when it was forgotten is ever lost.
THEOREM ForgottenLosesNothing == Spec => []ForgottenIsKept
PROOF
  <1>1. Init => ForgottenIsKept
    BY DEF Init, ForgottenIsKept, Builds
  <1>2. IInv /\ ForgottenIsKept /\ [Next]_vars => ForgottenIsKept'
    <2> SUFFICES ASSUME IInv, ForgottenIsKept, [Next]_vars PROVE ForgottenIsKept'
      OBVIOUS
    <2>1. CASE UNCHANGED <<stops, services, disk, received>>
      BY <2>1, ForgottenStays
    <2>2. CASE WindowStep \/ UNCHANGED vars
      BY <2>1, <2>2 DEF WindowStep, vars, runtimeVars, queueVars
    <2>3. CASE QueueStep
      BY <2>3, QueueStepForgotten
    <2>4. CASE Quit
      <3>1. UNCHANGED <<disk, received>> /\ ((Stop /\ ~disposed) \/ UNCHANGED <<stops, services>>)
        BY <2>4 DEF Quit, Shutdown, DoNotStop
      <3>2. ~disposed => stops = 0
        BY DEF IInv, Lifecycle
      <3> QED
        BY <2>1, <3>1, <3>2, StopForgets
    <2>5. CASE SignalWaited
      BY <2>1, <2>5 DEF SignalWaited, Shutdown, DoNotStop
    <2>6. ASSUME NEW ok \in BOOLEAN, FinalFlushEnds(ok) PROVE ForgottenIsKept'
      <3>1. Stop /\ stops = 0 /\ UNCHANGED <<disk, received>>
        BY <2>6 DEF FinalFlushEnds, IInv, Lifecycle
      <3> QED
        BY <3>1, StopForgets
    <2>7. CASE SignalEnds \/ HandlerEnds \/ Exit
      BY <2>7, EndForgets DEF SignalEnds, HandlerEnds, Exit
    <2> QED
      BY <2>2, <2>3, <2>4, <2>5, <2>6, <2>7 DEF Next, ProcessStep
  <1> QED
    BY Invariance, <1>1, <1>2, PTL DEF Spec
=============================================================================
