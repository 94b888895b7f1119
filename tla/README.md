# A TLA+ model of the MADSuite desktop agent

The agent is an Electron program. Its main process signs the user in, watches
the active window and the open windows, keeps what it cannot send in a file per
account, and takes ideas typed into the Brain Dump widget. Everything in the
main process runs on one event loop: there are no data races, but every `await`
is a point at which anything else may run, and the code is full of state that is
read before an `await` and used after it. That is what these modules are about.

Paths below are relative to the root of the repository; line numbers are those
of the modelled commit. `PROJECT.json` maps every definition to its lines.

## 1. Inventory

| Component | State | Operations | What is hard about it |
|---|---|---|---|
| Offline capture queue: `src/main/captureQueue.js`, `scopedCaptureQueue.js`, `captureQueueScope.js` | per account: array in memory, flush timer, `authExpirationHandled`, encrypted file; one token for all | push, load, persist, flush (ideas one by one, then a batch), timer callback, summary, stop | flushes of one queue overlap; pushes and evictions during a flush; lost answers; batches accepted in part; writes that throw; a crash at any await; the timer of one account running under another's token |
| Session: `main.js`, `src/main/authSession.js`, `sessionPurge.js` | token, refresh cookie, profile, `trackingState`, `authExpiredHandled`, expiry timers, failure count and throttle, refresh in progress | login, refresh (shared), expiry, purge, deep link, start-up | three kinds of waiter share one refresh; answers after a logout; expiry timers that overlap; a dozen ways to start tracking |
| Tracking controller: `src/main/tracking.js` | interval, a `tickInProgress` per timer, window signature and counter | start, stop, ticks with two awaits | a tick outlives its timer, its account and the settings it read |
| Brain Dump: `src/main/ipcHandlers.js` (`send-brain-dump`) | none of its own; the queue's and the backend's | direct post, fallback to the queue, replay | lost answers and idempotence; what the user was told |
| Tray, power events, deep links: `trayManager.js`, `appLifecycle.js` | the menu as it was drawn | pause, resume, lock, unlock, suspend | act on what was true when the menu was built |
| Hub socket: `socketHub.js` | one socket, opened with one token | connect, disconnect, timer messages | outlives the token it was opened with |
| IPC handlers: `ipcHandlers.js` | throttle of delete-history | some twenty handlers | captured values (`tracking` was null), unconditional purges |
| Token store: `src/utils/tokenManager.js` | encrypted store | get, set, clear | drops an expired token the memory still has |
| Runtime: `desktopRuntimeBootstrap.js`, `processSignalRegistry.js`, `main.js` (`before-quit`, `quitApp`) | `disposed`, `isQuitting`, signal handlers, the map of queue services | shutdown, signals, stop | a quit may be called off; a second quit or signal during the final flush; pushes and flushes after `stop()`, two services over one file |
| Retry policy: `captureQueueRuntime.js`, `captureQueueRetryPolicy.js` | attempt, timer | scheduleRetry, flush, stop | delays and their cap; neither a shutdown nor `stop()` keeps `scheduleRetry` from arming a timer; called by nobody yet |
| Windows: `src/main/windowManager.js`, `src/widgets/*.js` | main window, two widgets | create, toggle, hide, close, destroy | who may keep the process alive, or end it, while it quits |
| Rate limits: `src/services/rateLimitManager.js` | queue, flag, blocked endpoints, timers | handle 429, queue, block, reset | resets under a loop that awaits; overlapping blocks; used by nobody in the agent |
| Filters, scanner, schemas, renderer, preloads | little or none | string processing, validation, user interface | |
| `sessionManager.js`, `trackingQueue.js`, `queue.js`, `ipc.js`, `activityQueue.js` | | | dead, stubs or self-requiring |

How they interact: `main.js` creates the tracking controller with callbacks that
read the token (`getCurrentToken`), write the last capture to the store and push
captures to the queue of whichever account the token names. The queue reports a
401 to `handleAuthExpired` in `main.js`, which stops tracking and joins or sends
a refresh; one that succeeds saves the token, asks `startTrackingIfNeeded` (which
refuses while the state is `AUTH_EXPIRED`, `main.js:155`) and flushes the queue. IPC
handlers, tray, power events and deep links call `startTrackingIfNeeded` or
`stopTracking`. A purge stops tracking, closes the hub, and clears token, cookie
and profile. A quit (tray, system) or a signal asks the runtime for a shutdown,
which waits for a final flush and then stops the queues' services; the process
itself ends with its last window, or when a signal's handler says so.

What makes each correct, in a sentence:

- *Queue*: an accepted capture is in the file until the backend has it, it was
  evicted, or it is too old; only what the backend has is deleted; a queue that
  should be flushed is always due to be.
- *Session*: nothing is tracked in an expired session; an expiry is settled one
  way or the other; nothing ends a session that was renewed; the backend is left
  alone while it is down.
- *Tracking*: one timer at most, reports neither too rare nor too frequent; an
  exclusion or a stop comes too late only for what a tick already awaits, and no
  capture goes to the wrong account.
- *Brain Dump*: an idea the user was told is kept is kept, and recorded once.
- *Runtime and windows*: the process ends only after the runtime has stopped; what
  has stopped stays quiet; an accepted capture survives the shutdown.
- *Rate limits*: a queued request is answered once, in order, and is never left
  without a loop; no endpoint stays blocked.

## 2. Modules

| Module | Models |
|---|---|
| `CaptureLimits` | what trimming keeps and what a flush takes, in closed form over sets |
| `CapturePromise` | what a queue promises, without processes, files, timers or requests |
| `CaptureQueue` | the queue of every account, its file, its timer and its flushes; implements `CapturePromise` |
| `CaptureTrimLoop` | the `while` loops of `pushCaptureForLater` as they are written, against `CaptureLimits`, in every state of `CaptureQueue` |
| `Session` | the session, and all that starts and stops tracking |
| `Tracking` | the tracking controller, ticks split at their awaits |
| `BrainDump` | `send-brain-dump`, the backend's records and the replay; its queue implements `CapturePromise` too |
| `Windows` | the windows, and what Electron does with them on a quit |
| `Runtime` | extends `Windows`: quit, signals, shutdown, retries, and the services of the queue before and after `stop()` |
| `RateLimits` | the rate limit manager |
| `MC*` | symmetry for the runs (`Tracking`, `RateLimits` and `Runtime` are run as they are) |
| `*Proofs` | the theorems about each |

**An action is a run of the event loop** from one await (or callback) to the
next, with every call it makes. A function with awaits is several actions and a
record of what it has in its locals: `flush[f]` in `CaptureQueue`, `refresh` in
`Session`, `ticks[i]` in `Tracking`, `stage[i]` in `BrainDump`, `flights` in
`Runtime`, `loops[l]` in `RateLimits`.

**CaptureQueue.** `loaded`, `items`, `timer`, `latched` are the closure's
`captureQueue`, `captureQueueFlushTimer`, `authExpirationHandled` of each account;
`disk` is the file. Entries are numbered in the order of their creation, so that
the array is a set (entries are only appended and filtered). A flush is one of
`Flushers`, a bound on how many overlap. `Push`, `Summary`, `FlushNow` (tray or
refresh), `TimerFires` start things; `Accepted`, `PartlyAccepted`, `Unanswered`,
`Unauthorized` are what the code does with an answer; `Serve` is the backend,
which may process a request whose answer is then lost. A read or write of the
file may fail (`MaxFaults`); an unreadable file counts as empty, and a load may
leave out entries past their retention. What is lost that way is in `dropped`.
The variables `accepted`, `evicted`, `dropped` and `received` record what happened and
decide nothing. Left out: sanitisation, encryption, the notifications shown
after a batch, the scope used under Jest only. What `main.js` does on a 401 is
`Session`'s.

**Session.** `auth` is `trackingState` without `OFF`, which no event can observe.
`refresh` says whose cookie is out and who waits: start-up, a 401, the IPC. All
continuations of one answer run before any other event, so that they are one
action. `expiries` counts the pending timers of `handleAuthExpired`: a second
expiry may arm a second one. `uploads` are the queue's requests in progress, of
which only the 401 matters here; a queue's request is taken to be under its own
account (the exception is `queue_foreign`). `menu` is what the tray
shows, `hub` whose token the socket has, `paused` whether the user's last wish
was to pause (a record only). The login's answer carries a refresh cookie, as
the README of the repository says; a refresh's may or may not. One login
is in progress at a time. A quit or crash and the start after it are one step.

**Tracking.** A timer belongs to a start; its tick may outlive it, so that the
ticks of `Timers` many timers may be in progress. `AtWindows` carries the settings read
before the await. Windows are model values, signatures are sets of them.
`presence` tells apart what `powerMonitor` does and the two idle thresholds do.
`last` is whose `lastCapturedActivity` is. The counter is kept up to `Throttle`,
beyond which comparisons do not change; the throttle of 999 999 ticks for an
idle user is modelled as never. `lastActivityId` is never set, which makes the
duration patch unreachable, and a tick makes no request, which makes its 401
branch unreachable; both are left out. `sent`, `owner`, `scans` and `silent`
record what was handed over, to whom and how long ago.

**CapturePromise.** A capture taken is *owed* to its account until the backend has
it (*recorded*) or it is given up (*forgone*): to make room for a later capture of
the same account, or in a load that finds it too old or unreadable. `KeepsPromise`
is `Spec` of this module under the mapping `Owed(a)` (accepted, unsettled and in
the file of `a`), `Recorded` (accepted and received) and `Forgone` (accepted,
evicted or dropped, not received). A crash, a lost answer, a write that fails, a
flush that begins or is refused must all be stutters; a step that changes what two
accounts are owed is none of its steps. The promise is about accepted captures, those
whose push returned true; of a push that returned false it says nothing. `BrainDump`
maps the file of its own queue to the same promise (`QueueKeepsPromise`, one account, the
accepted ideas only): that module's simpler queue behaves, for what was accepted, as
`CaptureQueue` does when nothing has to be given up.

**BrainDump.** `queue` is the ideas the capture queue has in memory, `file` those in its
file; `Persist` writes the one over the other or, if the write throws, not. A push has three
outcomes, and the handler answers `queued: true` to all of them: written (stage
`queued`, the push returned true), in memory only (`unsaved`, it returned false), or in
neither (`refused`: without a token there is no scope, or the directory of a queue not yet used
cannot be made). Every later write has the ideas in memory along, that of a flush or of a
pushed capture (`PushCapture`); a restart takes up the file. Evictions, the retention and
files that cannot be read are `CaptureQueue`'s subject.
`records` is what the backend has; a direct post bears no key.

**Windows.** A window is shown, hidden or none. The handlers of `close` hide; the main
window's lets go once `isQuitting` (`quitting`), which is never reset. `asked` is
Electron's: `app.quit()` was accepted and waits for windows. A page may refuse to
be left, which calls the quit off and leaves `quitting` set.

**Runtime.** `services[n]` is the queue service built after `n` calls of `stop()`
(which clears the map, `scopedCaptureQueue.js:72`); each has the memory it has
loaded and its timer, all share `disk`, and `flights` keeps forgotten services
alive until their answers come. One account is always signed in, and a queue is the
set of its captures: trimming, partial answers and token changes are
`CaptureQueue`'s. `slow` says whether `activityQueue.forceFlush` exists and takes
time: it does in the tests, while the module of the repository is an empty object,
so that both kinds of process are modelled. `closing` is who waits for it. `Exit`
is Electron's end of a process without windows, `SignalEnds` covers signals that
need not wait or find no handler. `attempt`
and `retry` are `retryState` and `retryTimer`; `scheduleRetry` may be called
by anybody at any time. Since it looks at neither the shutdown nor `stop()`
(`captureQueueRuntime.js:19-32`), a call after `stop()` would arm a timer that nobody is left to
clear: `StoppedIsQuiet` therefore speaks of the services only, and no
property speaks of the number of retries, which nobody schedules. `accepted` and `received` only
record.

**RateLimits.** Requests are numbered in the order of `queueRequest`. A loop is a
`processQueue` between two awaits, waiting or sending; there may be several since
`reset()` clears `isProcessingQueue` and leaves the loop. `limited` is that `resetAt` is still to come, which answers set
and time ends. `blocked[e]` and `timers[e]` count down together in `Elapse`; timers
may fire late. `outcome` records what became of a request. Nothing in the
repository uses the manager: callers may do anything at any time.

Operators whose comment says "A slip" are not part of the model: each is a
definition changed the way a mistake in the code would change it, and each
property is known to fail under one of them.

## 3. Runs

Runs that pass (`PROJECT.json` lists them with their properties):

| Run | Bounds | Shows |
|---|---|---|
| `queue` | 1 account, 2 flushers, 3 pushes, limit and batch of 2, 1 fault | durability, acknowledgement, item limit, why entries leave, wake-ups |
| `queue_promise` | 2 accounts, 1 flusher, 2 pushes, limit of 1 entry, 1 fault | the queues implement `CapturePromise`; accounts never hold the same capture |
| `queue_drains` | 1 account, 2 flushers, 2 pushes of size 1 or 2, limit 2 bytes, batch of 1, 1 fault, fair | a scheduled queue is drained; the byte limit; the trimming loops against their closed form |
| `session` | 2 accounts, failures counted to 2 | the session's safety, and that tracking starts in order |
| `session_settled` | 1 account, fair | an expiry is settled |
| `tracking` | 1 account, 2 windows, 2 timers, throttle 3, fair | timers, reports; what an exclusion or a stop comes too late for is bounded; tracking without a token stops |
| `brain_dump` | 3 ideas | with writes that fail: accepted ideas are kept, replays idempotent, the file keeps the promise |
| `rate_limits` | 3 loops, 3 requests, 1 reset, 1 endpoint, delays to 3, blocks to 2, fair | queue and loops, order, settlement, blocks |
| `runtime` | 2 captures, 2 attempts, delays capped at 2, fair | one stop, quiet services afterwards, clean exits, how captures may be lost, ends of shutdowns |

Why the bounds are enough. Two flushers are the least that overlap, and a third
would repeat what the second does to the first; a queue limit of 2 with 3 pushes
makes eviction during a flush happen, and a batch of 2 (or 1) makes the snapshot
smaller than the queue. One fault lets memory and file differ. Accounts meet
only through the token: `queue_promise` and `queue_foreign`, where that matters,
have two of them, and a limit of one entry so that the second push evicts the first.
In `session` two accounts are the least for which stale tokens, cookies and
profiles differ. In `tracking` two timers are the least that overlap, and two
windows the least for which a list can change and still share a window; the
account signs in and out, and no property of the run tells two accounts apart.
In `rate_limits` one reset leaves a second loop; a third loop is started when
the second, too, has cleared the flag of the other. Three requests let one be out, one wait and one be
put back; two blocks of different length overlap on one endpoint. In `runtime` there are
at most two builds of the service, since there is one stop (`StopsOnce`; a third is
there for the mutants that break it); two captures are the least for which one flush
knows what another does not; with a base of 3 and a cap of 2 the first of the delays
is capped, and two attempts are the least of which one is allowed and one is not (a third,
with a delay below the cap and one above, is in reach of `TypeCorrectness` in `RuntimeProofs`
only: it doubles the states). In `brain_dump` each idea may meet a failed write, and the third
lets one be written along with the failure of another.
The theorems of section 4 do without these bounds, for all properties of the
passing runs but the six of liveness.

Deadlock is checked in every run but `runtime`, where the process ends.

Some properties are stated and proved (section 4) and in no run of their own. TLC
confirms each on the bounds of the run of its module when a configuration names it.

| Module | Proved, in no run |
|---|---|
| `CaptureQueue` | `FileIsAccountedFor`, `MemoryIsFile`, `NewIdeaStays`, `FlushIsBounded`, `FlushAdvances` |
| `Session` | `TrackingHasHub`, `SparingIsEarned`, `SessionOpensWithToken` |
| `Tracking` | `TypeOK`, `TrackingHasTimer` |
| `BrainDump` | `TypeOK`, `VanishesOnlyUnsaved` |
| `RateLimits` | `OneLoop`, `RequestsAreKept`, `AnsweredOnce`, `BlocksHaveTimers` |
| `Runtime` | `MainWindowStays`, `ShutdownIsPending`, `KeptUntilStop`, `ForgottenIsKept` |

Fairness, where it is assumed:

- *queue*: a timer that is due fires; a request ends (all have timeouts: 15 s);
  and a request sent over and over is processed and answered in time at some
  point (strong fairness): without the last a backend that is down for ever
  would be a counterexample to every promise of delivery.
- *session*: a refresh is answered or times out (10 s); expiry timers fire; a
  tick without a token runs. Users owe nothing.
- *rate limits*: timers fire and time passes; a request is answered; and one sent
  over and over is answered with something other than a 429 at some point.
- *runtime*: the final flush ends. Neither the user nor
  Electron owes anything: windows may stay open, signals may never come.
- *tracking*: timers fire, and the operating system's queries end. `active-win`
  and PowerShell have no timeout in the code: that they answer is an assumption
  about them.

### Where the code does not do what is written

Three runs check one statement each of the repository's documents or comments, and
find a behaviour of the code that breaks it. `findings` in `PROJECT.json` has the
quotations and the lines.

| Run | Statement | Behaviour |
|---|---|---|
| `queue_foreign` | `NoForeignReplay` | a queue's timer sends it under another account's token |
| `session_login` | `LoginStartsTracking` | a login does not leave `AUTH_EXPIRED`, so that tracking does not start |
| `brain_dump_vanishes` | `NoIdeaVanishes` | without a session, or with a queue that cannot be written, an idea is reported as queued and is lost, at once or with the next restart |

More such statements are in the last part of each module. No run is kept for
them, but TLC refutes each when a configuration names it (`Replayed` and
`UnusableTokenPauses` under `FairSpec`, `StreamsAreIndependent` under
`BatchFairSpec`, whose backend owes nothing to ideas, `QuitEnds` under
`QuitFairSpec`, whose pages let go and whose process ends with its last window;
`CapturesFollowSession` needs two accounts, as do `HubFollowsSession` and
`ProfileFollowsSession`):

| Module | Statement | Behaviour |
|---|---|---|
| `CaptureQueue` | `Replayed` | a capture waits for ever: the timer gives up without a usable token (`captureQueue.js:148`) and nobody wakes the queue |
| | `OnlyFailedAreKept` | what a partly accepted batch did deliver is sent again (`captureQueue.js:330-338`) |
| | `IdeasAreExempt` | ideas are evicted when there is nothing else (`captureQueue.js:19-20`) |
| | `StreamsAreIndependent` | failing ideas fill the snapshot and starve the activities (`captureQueue.js:224-229`) |
| `Session` | `RefusalsAreHeard` | the second 401 of an account is reported to nobody (`captureQueue.js:54-57`) |
| | `UnusableTokenPauses` | tracking goes on with an expired token (`tracking.js:377`, `main.js:80`) |
| | `ConsentWithdrawalStops` | switching tracking off stops nothing: the handler was given `tracking` while it was null (`ipcHandlers.js:180`, `main.js:285`) |
| | `LogoutIsFinal` | the answer to a refresh that was out at the logout signs the user in again (`authSession.js:214-216`) |
| | `PauseHolds` | unlocking the screen undoes the user's pause (`appLifecycle.js:44-57`) |
| | `OutageKeepsSession` | starting without network purges the session (`main.js:371-372`) |
| | `HubFollowsSession`, `ProfileFollowsSession` | hub and profile of the previous account survive a change (`main.js:169`, `main.js:301`) |
| `Tracking` | `ReportsAreAllowed` | exclusions made during a scan are not applied to it (`tracking.js:246-265`) |
| | `CapturesFollowSession` | a capture of one account goes to another's queue (`tracking.js:138`, `main.js:246`) |
| | `NothingIsKeptSignedOut` | a late tick stores the last capture after the purge (`tracking.js:169`, `main.js:244`) |
| | `StopIsImmediate` | a tick in progress captures after the stop (`tracking.js:416-426`) |
| | `HeldBackIsKnown` | a new account's first reports are held back as unchanged (`tracking.js:271-310`) |
| `BrainDump` | `NoDuplicate` | a direct post whose answer was lost is recorded twice (`ipcHandlers.js:289`) |
| `RateLimits` | `RefusedIsDelayed` | a refused request is sent again at once: the loop waits only while `resetAt` is to come, which nothing in it sets (`rateLimitManager.js:97-100`) |
| | `BlocksLast` | the timer of an earlier, shorter block ends a later one (`rateLimitManager.js:128-129`) |
| `Runtime` | `AcceptedIsKept` | the answer to a request of a service forgotten by `stop()` writes its memory over what a later service has put in the file (`scopedCaptureQueue.js:71-72`, `captureQueue.js:347-353`) |
| | `QuitEnds` | a widget opened after `before-quit` keeps the process alive: its `close` is always prevented (`windowManager.js:107-134`, `focusWidget.js:30-33`) |
| | `SignalWaits` | a second signal exits during the first one's final flush (`desktopRuntimeBootstrap.js:17`, `41-44`) |

## 4. Theorems

TLAPS checks them for every value of the constants that meets the named
assumptions of the modules (`LimitsAssumption`, `QueueAssumption`,
`SessionAssumption`, `TrackingAssumption`, `IdeasAssumption`, `RateAssumption`,
`RuntimeAssumption`): any number of accounts, flushers, timers, windows, ideas,
pushes, loops, requests, resets and captures, any limits and delays.

*CaptureLimits and the loops* (`CaptureLimitsProofs`). The provers cannot instantiate
the library's induction theorems, so that each induction is put as a minimal
counterexample: `LeastNatural` for numbers, `MinimalSubset` for the subsets of a finite
set, both from well-foundedness. `BytesEquation` unfolds the sum of sizes: two
solutions of its recursion agree (`SumsAgree`) and there is one (`SumsExist`). The order of
eviction is transitive and total (`EvictionOrder`), so that a trimming that is not over
has a first entry to go (`FirstEvicted`), what stays is upward closed, an idea
goes only when all that stays is ideas (`IdeasAreEvictedLast`), and a kept entry with the most
that outlast it bounds what is kept (`WithinCountBounded`, `WithinBytesBounded`). The array of a queue
exists for every finite queue (`ArrayExists`) and has one order; removing the first evictable
element of the array removes the first evicted of the set (`DropFirst`, `RemoveAtArray`,
`OldestEvictableIsFirst`), so that each `while` loop, pass by pass, ends where the closed form
says: `TrimLoopIsTrimmed`. In the same way `SnapshotIsSlice`: the first `BatchSize` of the set are
the slice of the array.

*CaptureQueue.* `Typing` first, with the fact that a flush in progress always has
something to send. `AcceptedIsDurable` is not
inductive: an acknowledgement must be true before acting on it keeps the
property, and a write replaces the file, so what the file has beyond the memory
must be settled. `DurableInv` is therefore the conjunction of `ScheduledIsLoaded` (a queue
with a timer or a flush has been loaded), `Confirmed` (acknowledged ids
and those the backend took were received), `FileIsAccountedFor` and
`AcceptedIsDurable`. `SettledGrows` says that the records only grow; one lemma per
kind of step (`PushDurable`, `LoadDurable`, `AfterRequestDurable`, ...) does the
rest. `EntriesLeaveForAReason` takes each removal to the acknowledgement it acts on, true by
`Confirmed`, or to a trimming, where `IdeasAreEvictedLast` says what may go. `NoLostWakeUp` needs nothing but the types:
each step that clears a timer or ends a flush arms another, step by step.

The limits have an inductive invariant of their own, `LimitInv` (`QueuesAreBounded`): ids are
fresh, and whatever memory and file hold is `Bounded` in number and in bytes; a load may only
leave out entries of a bounded file. `TrimMatchesLoop` follows, since what is pushed next is
newer than all the array has. `FlushInv` says of every flush in progress that it has at most
one batch left and that its ideas and its activities are sorted apart; it needs `LimitInv` where
a flush takes its snapshot. `FlushIsBounded` and `FlushAdvances` follow: each answer takes at
least one of the at most `BatchSize` entries, whatever happens to the queue meanwhile.
`MemoryIsFile` is inductive: every assignment of `items` is followed by a write before the next
await, and only a fault makes the two differ.

*Session.* `Safe`, the six invariants together, is inductive given the types:
`OnlyExpiredIsEnded` needs `ExpiryIsPending` nowhere, but `StartSafe` shows why
each start is harmless only with the others, and `JoinSafe` needs `BackendIsSpared`
to know that a shared refresh found the backend up. `TrackingStartsInOrder` and
`SessionOpensWithToken` follow step by step: every action that may start tracking does so
through `Start`, which in an expired session does nothing, so that only a deep link, an
answer for start-up and a restart open one.

*Tracking.* `NoOrphanTimer` and `TrackingHasTimer` are inductive: only `Start` and `Halt` touch the
timers. With the first, no tick can begin once tracking has stopped; each answer then brings
a tick closer to its end (`Closer`), which is `StoppedDiesAway`: what the refuted
`StopIsImmediate` leaves standing. `ExclusionsTakeHold` is the same for the refuted
`ReportsAreAllowed`: the ticks that await a scan with settings from before an exclusion are
`Unaware` of it. A tick becomes one that awaits a scan only where it reads the settings anew
(`AskedAware`), so that while the exclusion stands their number only falls, and as a scan
captures what its tick knew, each late capture is one of them less (`ScanTakesHold`); what is
captured from the active window is filtered at that moment (`ActiveWindowTakesHold`). `WindowsAreReported` and
`RepeatsAreSpaced` rest on `Counted`: the code's counter is the number of scans
since the last report, and bounds those without excuse.

*BrainDump.* `Tallied` says for each stage how many records there can be, where a pushed idea
is, and that only a pushed idea is in the queue or has a keyed record; `AcceptedIdeaIsKept` and
`AtMostOneReplayIsRecorded` follow from it. What makes it inductive is that an accepted idea is in
the file or has its keyed record, and that what is in the file and not in memory has its record:
so a write may replace the file by the memory. `VanishesOnlyUnsaved` says the rest, step
by step: an idea in memory only is forgotten by a restart, and by nothing else.

*CapturePromise.* `Implements` shows that every step of `CaptureQueue` is a step of
the promise or a stutter. Its invariant is `DurableInv` with `ApartInv`:
no entry of one account is in memory, file or flush of another (`AccountsAreApart`),
and everything anything remembers has a number already given (`Numbered`), so that what
a push takes is new. `Moves` is the contract all steps meet, one lemma per kind of
step: no entry changes its account. From it a step that settles entries changes
what one account is owed only by what it settles. `QueueImplements` does the
same for the file of `BrainDump`, from `Tallied`.

*RateLimits.* `IInv` adds to the properties that the flag is set while a loop runs
(`Flagged`) and the queue rises (`InOrder`), both only until the first reset,
that an outcome is "queued" if and only if the request is in the queue (`Listed`), and that
what is queued or out has been made (`Numbered`). Facts on `Tail`, `Append` and
putting back in front come first (`ShiftFacts`, `PushFacts`, ...); then what one pass of the
loop does (`IteratePasses`, `ResumeIInv`), and one lemma per action.
`QueueIsServed` needs nothing but the types. `Placed` says of each request that it is out exactly if
some loop has it, and new exactly if it has not been made; with `Listed`, nothing is forgotten (`RequestsAreKept`), and
as only what is queued or out gets an outcome, outcomes are final (`AnsweredOnce`). `BlocksHaveTimers`
is inductive, since block and timer count down together.

*Runtime.* Neither `StopsOnce` nor `StoppedIsQuiet` is inductive. `Lifecycle` orders
what quits, signals and stops have done: a process that lives on after a stop is
one that quits, and there no timer is armed any more; a main window is missing only in an agent that quits, which
gives `MainWindowStays` and `ExitIsClean`; a shutdown that is not over is waited for (`ShutdownIsPending`). `LossNeedsForgotten` rests on `Generations` (what has been built, and by whom a flush was
begun) and `Copies`: what the file holds, and what a forgotten service could write
over it, the service that owns the file knows or the backend has. A step that takes
an unreceived capture out of the file is then the end of a flush, and of a
forgotten service's. Hence nothing is lost until the stop (`KeptUntilStop`); nor is, ever after, what
the forgotten service knew (`ForgottenIsKept`). The refuted `AcceptedIsKept` therefore fails for one kind of
capture only: one accepted by a service built after the stop.

Only model-checked: the six liveness properties, which rest on fairness and ENABLED, beyond this
prover. What keeps them true step by step is proved:

| Liveness, by TLC | The safety it rests on, proved |
|---|---|
| `Drains` | `NoLostWakeUp` (a queue stays scheduled), `FlushAdvances` (a flush ends), `EntriesLeaveForAReason` |
| `ExpiryIsSettled` | `ExpiryIsPending` (a refresh or a timer is there to settle it) |
| `TrackingEndsWithoutToken` | `TrackingHasTimer` (the next tick comes, and finds no token) |
| `EveryRequestSettles` | `QueueIsServed`, `RequestsAreKept`, `AnsweredOnce` |
| `EveryBlockEnds` | `BlocksHaveTimers` |
| `ShutdownEnds` | `ShutdownIsPending` |

## 5. Not modelled

Validation of IPC payloads, sanitisation and matching of titles, the PowerShell
command, the renderer's pages, logging, metrics and configuration: string
processing, input and output, or user interface, without a protocol. The dead
modules named in the inventory. Repository scripts and the V1 certification, which
run at release time.

The relay of timer states (`ipcHandlers.js:215-250`, `main.js:173-186`): the pages on
its ends are those of the web frontend, which is not in the repository;
`focusWidget.js:26` loads a page from a directory that has none, and the page of
that name in `renderer/` sends and expects fields that the relay removes
(`ipcHandlers.js:18-30`); the state that is stored (`focusTimer`) is read by nobody.
The relay passes on what it gets, and nothing in the repository says what it owes.

The reconnection of the hub socket is socket.io's. The history of API calls kept by
the rate limit manager is read by nothing.

## 6. Plan

Done, in this order: the capture queue, the session, the tracking controller, the
Brain Dump; the promise of the queues and its two refinements; the runtime with the
windows; the rate limits; each with its runs and theorems.

Every safety property that a run checks is proved. What is left to prove is the variant
behind one liveness property: of `Drains`, what is left of the array after
a flush all of whose requests are answered.

To extend the model: `Agent`, the composition of `Session`, `Tracking` and
`CapturePromise`: who is signed in, what is tracked, and where it is filed, with the
401 of one feeding the expiry of the other. The state graph of `Session` with two
accounts fills a run by itself, so that the composition needs a `Session` cut
down to what the others see, shown to be implemented by the present one.
