------------------------------- MODULE Runtime -------------------------------
(***************************************************************************)
(* The life of the process from its start to its end: the bootstrap that   *)
(* owns the capture queue and the signal handlers                          *)
(* (src/main/desktopRuntimeBootstrap.js, processSignalRegistry.js,         *)
(* captureQueueRuntime.js, captureQueueRetryPolicy.js), the quit of        *)
(* main.js, and the windows it waits for.                                  *)
(*                                                                         *)
(* stop() forgets the services of the capture queue, so that one file may  *)
(* have two of them: the one of before, which a request in progress keeps  *)
(* alive, and the one that the next capture or flush builds.  CaptureQueue *)
(* models what a service does in detail; here there is one account, always *)
(* signed in, and a queue is the set of its captures.                      *)
(***************************************************************************)
EXTENDS Windows, FiniteSets

CONSTANTS Captures,
          MaxAttempts,  \* AGENT_CAPTURE_QUEUE_MAX_RETRIES, 6 by default
          BaseDelay,    \* AGENT_CAPTURE_QUEUE_FLUSH_DELAY_MS, 30 s by default
          MaxDelay      \* AGENT_CAPTURE_QUEUE_MAX_RETRY_DELAY_MS, 15 min by default

\* normalizePositiveInteger replaces whatever else the environment says.
ASSUME RuntimeAssumption ==
    /\ IsFiniteSet(Captures)
    /\ MaxAttempts \in Nat \ {0}
    /\ BaseDelay \in Nat \ {0}
    /\ MaxDelay \in Nat \ {0}

VARIABLES
    alive,     \* the process
    slow,      \* activityQueue has a forceFlush that takes time: that of the tests
               \* has one, the module of the repository is empty
    disposed,  \* shutdown has been asked for
    closing,   \* who waits for that forceFlush: "quit", "signal" or "nobody"
    stops,     \* how often captureQueueService.stop() ran, counted up to 2
    handled,   \* the handlers of SIGTERM and SIGINT are registered
    services,  \* [n]: the service built after n stops
    disk,      \* the file
    flights,   \* flushes that wait for their answer
    accepted,  \* captures whose push returned true
    received,  \* captures the backend has
    attempt,   \* retryState.attempt, counted up to MaxAttempts
    retry      \* the delay of retryTimer, 0 if there is none

runtimeVars == <<alive, slow, disposed, closing, stops, handled>>
queueVars == <<services, disk, flights, accepted, received>>
retryVars == <<attempt, retry>>
vars == <<windowVars, runtimeVars, queueVars, retryVars>>

Builds == 0 .. 2

Services == [built : BOOLEAN, queue : SUBSET Captures, timer : BOOLEAN]

Service(queue, timer) == [built |-> TRUE, queue |-> queue, timer |-> timer]

Unbuilt == [built |-> FALSE, queue |-> {}, timer |-> FALSE]

\* Who asked for a flush: the service's own timer, or the runtime.
Flights == [service : Builds, batch : SUBSET Captures, by : {"timer", "runtime"}]

Stopped == stops > 0

-----------------------------------------------------------------------------
(* The services.                                                           *)

\* A slip: a new service starts empty.
QueueUnloaded(n) == services[n].queue

\* getServiceForScope, then loadCaptureQueueIfNeeded.
Queue(n) == IF services[n].built THEN services[n].queue ELSE disk

\* A slip: isQuitting is not asked.
ArmedAnyway(timer) == TRUE

\* scheduleCaptureQueueFlush
Armed(timer) == timer \/ ~quitting

\* Nothing is sent of an empty queue, nor without a usable token.
Launch(n, by) ==
    \/ UNCHANGED flights
    \/ /\ Queue(n) # {}
       /\ flights' = flights \cup {[service |-> n, batch |-> Queue(n), by |-> by]}

\* Any caller of captureQueueService.flushCaptureQueueIfPossible.
FlushNow ==
    /\ services' = [services EXCEPT ![stops] = Service(Queue(stops), @.timer)]
    /\ Launch(stops, "runtime")
    /\ UNCHANGED <<windowVars, runtimeVars, disk, accepted, received, retryVars>>

FlushTimerFires(n) ==
    /\ services[n].timer
    /\ services' = [services EXCEPT ![n] = Service(@.queue, FALSE)]
    /\ IF quitting THEN UNCHANGED flights ELSE Launch(n, "timer")
    /\ UNCHANGED <<windowVars, runtimeVars, disk, accepted, received, retryVars>>

\* The answers are in: whatever was acknowledged leaves the memory of the
\* service, which is then written whole over the file.
FlushEnds(f, done) ==
    LET n == f.service
        left == services[n].queue \ done
    IN
    /\ f \in flights
    /\ flights' = flights \ {f}
    /\ received' = received \cup done
    /\ disk' = left
    /\ services' = [services EXCEPT ![n] =
                      Service(left, IF left # {} THEN Armed(@.timer)
                                    ELSE f.by = "timer" /\ done # {} /\ Armed(FALSE))]
    /\ attempt' = IF f.by = "runtime" /\ done # {} THEN 0 ELSE attempt
    /\ UNCHANGED <<windowVars, runtimeVars, accepted, retry>>

-----------------------------------------------------------------------------
(* The captures.  A tick or a Brain Dump posts one, and queues it if that   *)
(* fails.  One that was begun before the agent quits may fail after; and   *)
(* tracking, which before-quit stops, is started anew by an unlock.        *)

\* pushCaptureForLater
CaptureFails(c) ==
    LET queue == Queue(stops) \cup {c}
    IN
    /\ c \notin accepted
    /\ accepted' = accepted \cup {c}
    /\ services' = [services EXCEPT ![stops] = Service(queue, Armed(@.timer))]
    /\ disk' = queue
    /\ UNCHANGED <<windowVars, runtimeVars, flights, received, retryVars>>

-----------------------------------------------------------------------------
(* Retries.                                                                *)

\* A slip: no cap.
RetryDelayUncapped(n) == BaseDelay * 2 ^ (n - 1)

RetryDelay(n) ==
    IF BaseDelay * 2 ^ (n - 1) \in 1 .. MaxDelay THEN BaseDelay * 2 ^ (n - 1) ELSE MaxDelay

CanRetry(n) == n < MaxAttempts

Following(n) == IF n < MaxAttempts THEN n + 1 ELSE n

\* scheduleRetry, which the runtime offers and nothing in the repository calls:
\* it is taken to be called at any time.  It looks neither at the shutdown nor at
\* stop(), after which nobody is left to clear its timer.
ScheduleRetry ==
    /\ attempt' = Following(attempt)
    /\ retry' = IF CanRetry(attempt') THEN RetryDelay(attempt') ELSE 0
    /\ UNCHANGED <<windowVars, runtimeVars, queueVars>>

\* Its callback flushes.  It would reschedule on `remaining`, which no flush returns.
RetryFires ==
    /\ retry # 0
    /\ retry' = 0
    /\ services' = [services EXCEPT ![stops] = Service(Queue(stops), @.timer)]
    /\ Launch(stops, "runtime")
    /\ UNCHANGED <<windowVars, runtimeVars, disk, accepted, received, attempt>>

-----------------------------------------------------------------------------
(* The end of the process.                                                 *)

\* captureQueueService.stop() and signalRegistry.dispose().
Stop ==
    /\ stops' = IF stops < 2 THEN stops + 1 ELSE stops
    /\ handled' = FALSE
    /\ retry' = 0
    /\ services' = [services EXCEPT ![stops] = [built |-> @.built, queue |-> @.queue, timer |-> FALSE]]

DoNotStop == UNCHANGED <<stops, handled, retry, services>>

\* The process is gone, and its memory with it.
End ==
    /\ alive' = FALSE
    /\ services' = [n \in Builds |-> Unbuilt]
    /\ flights' = {}
    /\ attempt' = 0
    /\ retry' = 0

\* A slip: whoever asks is served.
ShutdownAgain(who) ==
    /\ disposed' = TRUE
    /\ IF slow THEN closing' = who /\ DoNotStop ELSE Stop /\ UNCHANGED closing

\* shutdown, up to its await.  It returns at once to whoever asks a second time.
Shutdown(who) ==
    IF disposed THEN DoNotStop /\ UNCHANGED <<disposed, closing>>
    ELSE /\ disposed' = TRUE
         /\ IF slow THEN closing' = who /\ DoNotStop ELSE Stop /\ UNCHANGED closing

\* A slip: a final flush that fails skips the rest.
FinalFlushTried(ok) ==
    /\ closing = "quit"
    /\ closing' = "nobody"
    /\ IF ok THEN Stop ELSE DoNotStop
    /\ UNCHANGED <<windowVars, alive, slow, disposed, disk, flights, accepted, received, attempt>>

\* The final flush of activityQueue is over, well or badly, and a quit waits for it ...
FinalFlushEnds(ok) ==
    /\ closing = "quit"
    /\ closing' = "nobody"
    /\ Stop
    /\ UNCHANGED <<windowVars, alive, slow, disposed, disk, flights, accepted, received, attempt>>

\* ... or the handler of a signal, which then calls exit(0).
HandlerEnds ==
    /\ closing = "signal"
    /\ closing' = "nobody"
    /\ stops' = stops + 1
    /\ handled' = FALSE
    /\ End
    /\ UNCHANGED <<windowVars, slow, disposed, disk, accepted, received>>

\* "Quitter" in the tray, or app.quit() by the system: before-quit is emitted
\* unless Electron has taken an earlier quit that still waits.
Quit ==
    /\ QuitWindows
    /\ IF asked THEN DoNotStop /\ UNCHANGED <<disposed, closing>> ELSE Shutdown("quit")
    /\ UNCHANGED <<alive, slow, disk, flights, accepted, received, attempt>>

\* SIGTERM or SIGINT, the first to ask for a shutdown, which has to wait.
SignalWaited ==
    /\ handled /\ ~disposed /\ slow
    /\ Shutdown("signal")
    /\ UNCHANGED <<windowVars, alive, slow, disk, flights, accepted, received, attempt>>

\* Any other: the handler exits as soon as shutdown returns; if there is none,
\* the signal kills.
SignalEnds ==
    /\ ~(handled /\ ~disposed /\ slow)
    /\ disposed' = (disposed \/ handled)
    /\ stops' = IF handled /\ ~disposed THEN stops + 1 ELSE stops
    /\ handled' = (handled /\ disposed)
    /\ End
    /\ UNCHANGED <<windowVars, slow, closing, disk, accepted, received>>

\* The last window is gone, whether or not a shutdown still waits.
Exit ==
    /\ AllClosed
    /\ End
    /\ UNCHANGED <<windowVars, slow, disposed, closing, stops, handled, disk, accepted, received>>

Init ==
    /\ WindowsInit
    /\ alive = TRUE
    /\ slow \in BOOLEAN
    /\ disposed = FALSE
    /\ closing = "nobody"
    /\ stops = 0
    /\ handled = TRUE
    /\ services = [n \in Builds |-> Unbuilt]
    /\ disk = {}
    /\ flights = {}
    /\ accepted = {}
    /\ received = {}
    /\ attempt = 0
    /\ retry = 0

WindowStep ==
    /\ \/ \E w \in Widgets : Toggle(w)
       \/ \E w \in Windows : Close(w)
       \/ HideBrainDump
       \/ ShowMain
       \/ MainWindowCloses
       \/ PageRefuses
    /\ UNCHANGED <<runtimeVars, queueVars, retryVars>>

QueueStep ==
    \/ \E c \in Captures : CaptureFails(c)
    \/ FlushNow
    \/ \E n \in Builds : FlushTimerFires(n)
    \/ \E f \in flights : \E done \in SUBSET f.batch : FlushEnds(f, done)
    \/ ScheduleRetry
    \/ RetryFires

ProcessStep ==
    \/ Quit
    \/ SignalWaited
    \/ SignalEnds
    \/ \E ok \in BOOLEAN : FinalFlushEnds(ok)
    \/ HandlerEnds
    \/ Exit

Next ==
    \/ alive /\ WindowStep
    \/ alive /\ QueueStep
    \/ alive /\ ProcessStep

Spec == Init /\ [][Next]_vars

(* A final flush ends.                                                     *)
Fairness == WF_vars(alive /\ (HandlerEnds \/ \E ok \in BOOLEAN : FinalFlushEnds(ok)))

FairSpec == Spec /\ Fairness

-----------------------------------------------------------------------------
(* Properties *)

\* Every variable has its type; no retry waits longer than the longest delay.
TypeOK ==
    /\ windows \in [Windows -> {"none", "shown", "hidden"}]
    /\ {alive, slow, disposed, handled, quitting, asked} \subseteq BOOLEAN
    /\ closing \in {"nobody", "quit", "signal"}
    /\ stops \in Builds
    /\ services \in [Builds -> Services]
    /\ flights \subseteq Flights
    /\ UNION {disk, accepted, received} \subseteq Captures
    /\ attempt \in 0 .. MaxAttempts
    /\ retry \in 0 .. MaxDelay

\* "arret idempotent" (docs/DESKTOP_AGENT_V1_CLOSURE.md): the runtime stops once,
\* although a quit may be called off and asked for again, and signals may come
\* before, during and after it.
StopsOnce == stops <= 1

\* A queue that has been stopped stays quiet for as long as the process lives on:
\* neither the requests of before nor the services built since arm a timer.
StoppedIsQuiet == alive /\ Stopped => \A n \in Builds : ~services[n].timer

\* The process never just ends: closing its windows leaves it in the tray, and
\* neither a quit nor any number of signals ends it before the runtime has
\* stopped, provided that the final flush takes no time.
ExitIsClean == ~alive => disposed /\ (Stopped \/ slow)

\* An agent that does not quit always has its main window: whatever is closed,
\* it can be shown again from the tray.
MainWindowStays == alive /\ ~quitting => windows["main"] # "none"

\* Whoever asked for the shutdown, and however often: until the runtime has
\* stopped somebody waits for the final flush, and will stop it.
ShutdownIsPending == alive /\ disposed => Stopped \/ closing # "nobody"

\* A capture whose push returned true is lost in one way only: a service that
\* stop() has forgotten gets its answer and writes its memory over the file.
Missing == accepted \ (received \cup disk)

LostByForgotten ==
    Missing' \ Missing # {} => \E f \in flights \ flights' : f.service < stops

OnlyForgottenServicesLose == [][LostByForgotten]_vars

\* Until stop() nothing is lost, however captures, flushes, retries, quits and
\* signals come, and whether or not the process has ended ...
KeptUntilStop == ~Stopped => Missing = {}

\* ... and after it nothing that a service knew when it was forgotten: what it
\* holds is in the file or received, whoever writes the file last.
ForgottenIsKept ==
    \A n \in Builds : n < stops => services[n].queue \subseteq received \cup disk

\* A shutdown that was begun stops the runtime also if the final flush fails,
\* unless the process ends first.
ShutdownEnds == disposed ~> Stopped \/ ~alive

-----------------------------------------------------------------------------
(* What the documents of the repository say and the code does not keep: TLC *)
(* finds each of these violated when a configuration names it (README, 3). *)

\* "basculent vers la file offline persistante" (README): what was accepted is in
\* the file until the backend has it.
AcceptedIsKept == Missing = {}

\* "la fermeture sure" (docs/DESKTOP_AGENT_V1_CLOSURE.md): a quit that no page
\* refuses ends the process.  Under QuitFairSpec; a widget opened meanwhile
\* keeps the process alive.
QuitEnds == asked ~> ~alive \/ ~asked

QuitFairSpec ==
    /\ FairSpec
    /\ WF_vars(alive /\ Exit)
    /\ WF_vars(alive /\ WindowStep /\ windows'["main"] = "none")

\* "await shutdown(signal)" (desktopRuntimeBootstrap.js): no signal ends the
\* process before the final flush is over; a second one does.
SignalWaits == ~alive => Stopped
=============================================================================
