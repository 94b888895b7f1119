------------------------------- MODULE Tracking -------------------------------
(***************************************************************************)
(* The tracking controller: src/main/tracking.js, with the callbacks       *)
(* main.js gives it.  A timer starts a tick every few seconds; a tick asks *)
(* for the active window, then for the open windows, and hands what it     *)
(* learns to the capture queue.  Both questions are awaited: a tick runs   *)
(* on while tracking stops, starts again under a new timer, or changes     *)
(* hands.                                                                  *)
(*                                                                         *)
(* An action is a run of the event loop from one await to the next.        *)
(***************************************************************************)
EXTENDS Integers, FiniteSets

CONSTANTS Users,      \* accounts that sign in on this machine
          NoUser,
          Windows,    \* windows the user may open
          NoWindow,
          Timers,     \* bounds the timers whose ticks are in progress together
          NoTimer,
          Throttle    \* WINDOWS_THROTTLE_TICKS

ASSUME TrackingAssumption ==
    /\ NoUser \notin Users
    /\ NoWindow \notin Windows
    /\ NoTimer \notin Timers
    /\ Throttle \in Nat \ {0}

VARIABLES
    account,    \* whose the access token is
    ignored,    \* windows the privacy settings exclude
    presence,   \* the user, as powerMonitor sees him
    interval,   \* trackingInterval
    timers,     \* timers that were set and not cleared
    ticks,      \* [timer]: its tick, if one is in progress (tickInProgress)
    listed,     \* lastWindowsSignature; {} is null
    counter,    \* windowsTickCounter, counted up to Throttle
    last,       \* lastCapturedActivity, in the store: whose it is
    sent,       \* the capture handed to the capture queue in the last step
    owner,      \* who was signed in when listed was handed over
    scans,      \* scans since the last report, counted up to Throttle
    silent      \* those of them not excused by a long absence

vars == <<account, ignored, presence, interval, timers, ticks, listed, counter,
          last, sent, owner, scans, silent>>

\* The surroundings; what decides on a report, and what is said of reports.
surroundings == <<account, ignored, presence>>
control == <<interval, timers, ticks>>
reports == <<listed, counter, owner, scans, silent>>

\* Locked or idle for a minute is idle (isUserIdle); IDLE_OPEN_WINDOWS_THRESHOLD_SEC
\* and IDLE_OPEN_WINDOWS_SKIP_SEC tell the longer absences apart.
Presences == {"present", "locked", "idle", "away"}

Resting == [pc |-> "rest"]

\* Awaiting the active window, begun for an account; awaiting the open windows,
\* with the settings read before.
AtActivity(u) == [pc |-> "activity", user |-> u]
AtWindows(u, excluded) == [pc |-> "windows", user |-> u, ignored |-> excluded]

Ticks ==
    {Resting} \cup {AtActivity(u) : u \in Users}
              \cup {AtWindows(u, S) : u \in Users, S \in SUBSET Windows}

Nothing == [kind |-> "none"]

\* A capture: the account it goes to, the one it was taken under.
Activity(u, w) == [kind |-> "activity", to |-> account, from |-> u, windows |-> {w}]
Report(u, S) == [kind |-> "windows", to |-> account, from |-> u, windows |-> S]

Captures == {Nothing} \cup
    [kind : {"activity", "windows"}, to : Users \cup {NoUser}, from : Users,
     windows : SUBSET Windows]

UpTo(n) == IF n > Throttle THEN Throttle ELSE n

-----------------------------------------------------------------------------
(* The controller                                                          *)

\* A slip: the flag of the running interval is not looked at.
StartAgain(i) ==
    /\ account # NoUser
    /\ i \notin timers /\ ticks[i] = Resting
    /\ interval' = i
    /\ timers' = timers \cup {i}
    /\ sent' = Nothing
    /\ UNCHANGED <<surroundings, ticks, reports, last>>

\* startTracking: the ticks of the new timer have a flag of their own.
Start(i) ==
    /\ interval = NoTimer
    /\ account # NoUser
    /\ i \notin timers /\ ticks[i] = Resting
    /\ interval' = i
    /\ timers' = timers \cup {i}
    /\ sent' = Nothing
    /\ UNCHANGED <<surroundings, ticks, reports, last>>

\* stopTracking.  Whatever tick is in progress goes on.
Halt ==
    /\ interval' = NoTimer
    /\ timers' = timers \ {interval}
    /\ listed' = {} /\ counter' = 0
    /\ owner' = NoUser /\ scans' = 0 /\ silent' = 0

Stop ==
    /\ Halt
    /\ sent' = Nothing
    /\ UNCHANGED <<surroundings, ticks, last>>

\* A slip: the settings are read where the user is found to be active.
AskWindowsUnlessIdle(i, u) ==
    ticks' = [ticks EXCEPT ![i] =
                 IF presence = "away" THEN Resting
                 ELSE AtWindows(u, IF presence = "present" THEN ignored ELSE {})]

\* The synchronous part of saveOpenWindowsTick, up to getOpenWindows, with
\* the settings it reads; the tick of a user who is away ends here.
AskWindows(i, u) ==
    ticks' = [ticks EXCEPT ![i] =
                 IF presence = "away" THEN Resting ELSE AtWindows(u, ignored)]

\* A slip: a tick without a token is skipped, and the timer left running.
TickBeginsOrSkips(i) ==
    /\ i \in timers /\ ticks[i] = Resting
    /\ account # NoUser
    /\ IF presence = "present"
       THEN ticks' = [ticks EXCEPT ![i] = AtActivity(account)]
       ELSE AskWindows(i, account)
    /\ sent' = Nothing
    /\ UNCHANGED <<surroundings, interval, timers, reports, last>>

\* A tick begins.  Nobody asks for the active window of an idle user.
TickBegins(i) ==
    /\ i \in timers /\ ticks[i] = Resting
    /\ IF account = NoUser
       THEN Halt /\ UNCHANGED ticks
       ELSE /\ IF presence = "present"
               THEN ticks' = [ticks EXCEPT ![i] = AtActivity(account)]
               ELSE AskWindows(i, account)
            /\ UNCHANGED <<interval, timers, reports>>
    /\ sent' = Nothing
    /\ UNCHANGED <<surroundings, last>>

\* The end of saveActiveWindowTick.  (lastActivityId is never set, so that an
\* unchanged activity is a new capture too.)
Captured(u, w) ==
    IF w = NoWindow \/ w \in ignored
    THEN sent' = Nothing /\ UNCHANGED last
    ELSE sent' = Activity(u, w) /\ last' = u

\* The active window is known.  Only then is the token looked at again: without
\* one tracking stops, under whichever timer it now runs.
ActivityArrives(i, w) ==
    LET u == ticks[i].user
    IN
    /\ ticks[i].pc = "activity"
    /\ Captured(u, w)
    /\ IF account = NoUser
       THEN Halt /\ ticks' = [ticks EXCEPT ![i] = Resting]
       ELSE AskWindows(i, u) /\ UNCHANGED <<interval, timers, reports>>
    /\ UNCHANGED surroundings

\* active-win throws: the tick is over.
ActivityFails(i) ==
    /\ ticks[i].pc = "activity"
    /\ ticks' = [ticks EXCEPT ![i] = Resting]
    /\ sent' = Nothing
    /\ UNCHANGED <<surroundings, interval, timers, reports, last>>

\* A slip: the scan that was just made is not counted.
DueLate(S) == S # listed \/ (presence \notin {"idle", "away"} /\ counter >= Throttle)

\* shouldSend: a change, or (unless the user has been idle for long) the
\* Throttle-th scan since the last report.
Due(S) == S # listed \/ (presence \notin {"idle", "away"} /\ counter + 1 >= Throttle)

\* A slip: the report of a change starts no new count.
CountOnRepeat(S) == IF Due(S) /\ S = listed THEN 0 ELSE UpTo(counter + 1)

CountAfter(S) == IF Due(S) THEN 0 ELSE UpTo(counter + 1)

\* The open windows are known, and some of them are not excluded.
WindowsArrive(i, seen) ==
    LET u == ticks[i].user
        S == seen \ ticks[i].ignored
    IN
    /\ ticks[i].pc = "windows"
    /\ ticks' = [ticks EXCEPT ![i] = Resting]
    /\ S # {}
    /\ counter' = CountAfter(S)
    /\ IF Due(S)
       THEN /\ sent' = Report(u, S)
            /\ listed' = S /\ owner' = account
            /\ scans' = 0 /\ silent' = 0
       ELSE /\ sent' = Nothing
            /\ scans' = UpTo(scans + 1)
            /\ silent' = IF presence \in {"idle", "away"} THEN silent ELSE silent + 1
            /\ UNCHANGED <<listed, owner>>
    /\ UNCHANGED <<surroundings, interval, timers, last>>

\* A slip: a scan without a result has the tick begin anew.
NoWindowsRetried(i) ==
    /\ ticks[i].pc = "windows"
    /\ ticks' = [ticks EXCEPT ![i] = AtActivity(@.user)]
    /\ sent' = Nothing
    /\ UNCHANGED <<surroundings, interval, timers, reports, last>>

\* None is left, or the scanner failed.
NoWindowsArrive(i) ==
    /\ ticks[i].pc = "windows"
    /\ ticks' = [ticks EXCEPT ![i] = Resting]
    /\ sent' = Nothing
    /\ UNCHANGED <<surroundings, interval, timers, reports, last>>

-----------------------------------------------------------------------------
(* What happens around it                                                  *)

\* The token comes, goes or changes hands; tracking is left as it is.
SetToken(u) ==
    /\ u # account
    /\ account' = u
    /\ sent' = Nothing
    /\ UNCHANGED <<ignored, presence, control, reports, last>>

\* purgeSession
Purge ==
    /\ Halt
    /\ account' = NoUser
    /\ last' = NoUser
    /\ sent' = Nothing
    /\ UNCHANGED <<ignored, presence, ticks>>

\* The IPC set-privacy-settings, with other exclusions.
SetIgnored(S) ==
    /\ S # ignored
    /\ ignored' = S
    /\ sent' = Nothing
    /\ UNCHANGED <<account, presence, control, reports, last>>

\* The answer to the IPC delete-activity-history.
HistoryDeleted ==
    /\ last # NoUser
    /\ last' = NoUser
    /\ sent' = Nothing
    /\ UNCHANGED <<surroundings, control, reports>>

UserMoves(p) ==
    /\ p # presence
    /\ presence' = p
    /\ sent' = Nothing
    /\ UNCHANGED <<account, ignored, control, reports, last>>

Init ==
    /\ account = NoUser
    /\ ignored = {}
    /\ presence = "present"
    /\ interval = NoTimer
    /\ timers = {}
    /\ ticks = [i \in Timers |-> Resting]
    /\ listed = {} /\ counter = 0
    /\ last = NoUser
    /\ sent = Nothing
    /\ owner = NoUser /\ scans = 0 /\ silent = 0

ActivityAnswered(i) ==
    \/ \E w \in Windows \cup {NoWindow} : ActivityArrives(i, w)
    \/ ActivityFails(i)

WindowsAnswered(i) ==
    \/ \E seen \in SUBSET Windows : WindowsArrive(i, seen)
    \/ NoWindowsArrive(i)

Tick(i) == TickBegins(i) \/ ActivityAnswered(i) \/ WindowsAnswered(i)

Around ==
    \/ \E u \in Users \cup {NoUser} : SetToken(u)
    \/ Purge
    \/ \E S \in SUBSET Windows : SetIgnored(S)
    \/ HistoryDeleted
    \/ \E p \in Presences : UserMoves(p)

Next ==
    \/ \E i \in Timers : Start(i) \/ Tick(i)
    \/ Stop
    \/ Around

Spec == Init /\ [][Next]_vars

\* Timers fire; active-win and PowerShell answer or fail.
Fairness ==
    \A i \in Timers : /\ WF_vars(TickBegins(i))
                      /\ WF_vars(ActivityAnswered(i))
                      /\ WF_vars(WindowsAnswered(i))

FairSpec == Spec /\ Fairness

-----------------------------------------------------------------------------
(* Properties *)

\* Every variable has its type.
TypeOK ==
    /\ account \in Users \cup {NoUser}
    /\ ignored \in SUBSET Windows
    /\ presence \in Presences
    /\ interval \in Timers \cup {NoTimer}
    /\ timers \in SUBSET Timers
    /\ ticks \in [Timers -> Ticks]
    /\ listed \in SUBSET Windows
    /\ counter \in 0 .. Throttle
    /\ last \in Users \cup {NoUser}
    /\ sent \in Captures
    /\ owner \in Users \cup {NoUser}
    /\ scans \in 0 .. Throttle
    /\ silent \in Nat

\* Whatever sequence of starts and stops came before, stopTracking stops all:
\* no timer runs but the one it would clear.
NoOrphanTimer == timers \subseteq {interval}

\* A list of open windows that does not change is still reported with every
\* Throttle-th scan, except while the user is long idle.
WindowsAreReported == silent < Throttle

\* ... and never sooner, although ticks of two timers may scan in turns.
NoEarlyRepeat ==
    sent'.kind = "windows" /\ sent'.windows = listed => scans + 1 >= Throttle

RepeatsAreSpaced == [][NoEarlyRepeat]_vars

\* The ticks that await the open windows with settings that do not exclude w.
Unaware(w) == {i \in Timers : ticks[i].pc = "windows" /\ w \notin ticks[i].ignored}

\* What an exclusion comes too late for is bounded: while w stays excluded no tick
\* goes on to a scan that would show it, under whichever timer and however long ago
\* it began, and each capture of w uses up one of the scans that were under way.
TakeHold ==
    \A w \in ignored \cap ignored' :
        /\ Unaware(w)' \subseteq Unaware(w)
        /\ sent'.kind # "none" /\ w \in sent'.windows => Unaware(w)' # Unaware(w)

ExclusionsTakeHold == [][TakeHold]_vars

\* Tracking that runs has its timer: the next tick always comes.
TrackingHasTimer == interval # NoTimer => interval \in timers

\* The answers a tick still waits for.
Awaited == [rest |-> 0, windows |-> 1, activity |-> 2]

\* Stopped tracking dies away: no tick begins while it is stopped, those in
\* progress wait for ever fewer answers, and what is still captured costs one.
DiesAway ==
    interval = NoTimer =>
        /\ \A i \in Timers : Awaited[ticks'[i].pc] <= Awaited[ticks[i].pc]
        /\ sent'.kind # "none" =>
              \E i \in Timers : Awaited[ticks'[i].pc] < Awaited[ticks[i].pc]

StoppedDiesAway == [][DiesAway]_vars

\* "pause si aucun jeton valide n'est disponible" (README): tracking that has
\* lost its token stops, in whatever tick it was.
TrackingEndsWithoutToken == account = NoUser ~> (interval = NoTimer \/ account # NoUser)

-----------------------------------------------------------------------------
(* What the documents of the repository say and the code does not keep: TLC *)
(* finds each of these violated when a configuration names it (README, 3). *)

\* "applications et mots-cles ignores respectes" (RELEASE_READINESS.md): nor is
\* what he excludes while a tick awaits the open windows.
ReportsAreAllowed == [][sent'.kind = "windows" => sent'.windows \cap ignored = {}]_vars

\* "stockage et files isoles par utilisateur et organisation"
\* (DESKTOP_AGENT_V1_CLOSURE.md): what was seen under one account goes to it.
CapturesFollowSession == [][sent'.kind # "none" => sent'.to \in {sent'.from, NoUser}]_vars

\* "nettoyage complet au logout" (RELEASE_READINESS.md): no capture is kept on
\* the machine while nobody is signed in.
NothingIsKeptSignedOut == [][account = NoUser => last' \in {last, NoUser}]_vars

\* "pause immediate du tracking" (trackingPause.immediate.test.js): nothing is
\* captured for an account while its tracking is stopped.
StopIsImmediate ==
    [][sent'.kind # "none" /\ sent'.to # NoUser => interval # NoTimer]_vars

\* "purge ou changement de portee lors d'un changement de session"
\* (DESKTOP_AGENT_V1_CLOSURE.md): a list is held back as unchanged only from the
\* account that already has it.
HeldBackIsKnown == [][scans' > scans => owner = account]_vars
=============================================================================
