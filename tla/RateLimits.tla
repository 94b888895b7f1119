----------------------------- MODULE RateLimits -----------------------------
(***************************************************************************)
(* The rate limit manager, src/services/rateLimitManager.js: requests that *)
(* wait in a queue while the backend limits the agent, and endpoints that  *)
(* are blocked for a while.  Nothing in the agent uses it yet, so that its *)
(* callers are any: they may queue, report answers, block and reset at     *)
(* every moment.                                                           *)
(*                                                                         *)
(* processQueue is a loop with two awaits, the delay and the request.  The *)
(* flag isProcessingQueue is to keep a second loop from starting; reset()  *)
(* clears the flag without ending the loop, hence the set Loops.           *)
(***************************************************************************)
EXTENDS Integers, Sequences

CONSTANTS Loops,        \* bounds the calls of processQueue in progress together
          Endpoints,
          MaxRequests,  \* bounds the requests of a behaviour
          MaxResets,    \* bounds the calls of reset()
          MaxDelay,     \* the 30000 of Math.min(delay * 2, 30000), in seconds
          MaxBlock      \* the longest durationSeconds, in units of one Elapse

ASSUME RateAssumption ==
    /\ MaxRequests \in Nat
    /\ MaxResets \in Nat
    /\ MaxDelay \in Nat \ {0}
    /\ MaxBlock \in Nat \ {0}

VARIABLES
    queue,       \* requestQueue; requests are numbered as they are queued
    processing,  \* isProcessingQueue
    loops,       \* [loop]: a processQueue in progress, between two awaits
    limited,     \* rateLimitStatus.resetAt is still to come
    blocked,     \* [endpoint]: how long it is still to be blocked, or Free
    timers,      \* [endpoint]: how long the timers that will unblock it still run
    outcome,     \* [request]: what became of it
    made,        \* requests queued so far; numbers the next one
    resets       \* calls of reset() so far

queueVars == <<queue, processing, loops, outcome>>
blockVars == <<blocked, timers>>
vars == <<queueVars, limited, blockVars, made, resets>>

Requests == 1 .. MaxRequests
Outcomes == {"new", "queued", "out", "done", "failed", "discarded"}
Free == -1

Idle == [pc |-> "idle"]
Waiting(delay) == [pc |-> "waiting", delay |-> delay]
Sending(r, delay) == [pc |-> "sending", request |-> r, delay |-> delay]

LoopStates ==
    {Idle} \cup {Waiting(d) : d \in 1 .. MaxDelay}
           \cup {Sending(r, d) : r \in Requests, d \in 1 .. MaxDelay}

Running(l) == loops[l].pc # "idle"

-----------------------------------------------------------------------------
(* processQueue, from one await to the next.                               *)

\* A slip: the request leaves the queue only when it has been answered.
SendUnshifted(l, waiting, delay, outcomes) ==
    /\ queue' = waiting
    /\ loops' = [loops EXCEPT ![l] = Sending(Head(waiting), delay)]
    /\ outcome' = [outcomes EXCEPT ![Head(waiting)] = "out"]

\* const { request } = this.requestQueue.shift(); await request()
Send(l, waiting, delay, outcomes) ==
    /\ queue' = Tail(waiting)
    /\ loops' = [loops EXCEPT ![l] = Sending(Head(waiting), delay)]
    /\ outcome' = [outcomes EXCEPT ![Head(waiting)] = "out"]

Finish(l, outcomes) ==
    /\ queue' = <<>>
    /\ loops' = [loops EXCEPT ![l] = Idle]
    /\ outcome' = outcomes

\* The head of the while loop.  It waits only once, and whatever is left of the
\* limit then, it sends.
Iterate(l, waiting, delay, outcomes) ==
    IF limited
    THEN /\ queue' = waiting
         /\ loops' = [loops EXCEPT ![l] = Waiting(delay)]
         /\ outcome' = outcomes
    ELSE Send(l, waiting, delay, outcomes)

\* A slip: the flag is left set at the end.
ResumeFlagged(l, waiting, delay, outcomes) ==
    /\ IF waiting = <<>> THEN Finish(l, outcomes) ELSE Iterate(l, waiting, delay, outcomes)
    /\ UNCHANGED processing

\* After a request.  The flag is cleared at the end, also if another loop runs.
Resume(l, waiting, delay, outcomes) ==
    /\ IF waiting = <<>> THEN Finish(l, outcomes) ELSE Iterate(l, waiting, delay, outcomes)
    /\ processing' = (processing /\ waiting # <<>>)

\* push, and a loop unless the flag says that there is one.
Enqueue(r, outcomes) ==
    /\ processing' = TRUE
    /\ IF processing
       THEN queue' = Append(queue, r) /\ outcome' = outcomes /\ UNCHANGED loops
       ELSE \E l \in Loops : ~Running(l) /\ Iterate(l, Append(queue, r), 1, outcomes)

QueueRequest ==
    /\ made < MaxRequests
    /\ made' = made + 1
    /\ Enqueue(made + 1, [outcome EXCEPT ![made + 1] = "queued"])
    /\ UNCHANGED <<limited, blockVars, resets>>

\* The delay is over.  If reset() or another loop has emptied the queue, what
\* shift() returns cannot be destructured: the exception ends the loop before it
\* clears the flag.
Wake(l) ==
    /\ loops[l].pc = "waiting"
    /\ IF queue = <<>> THEN Finish(l, outcome) ELSE Send(l, queue, loops[l].delay, outcome)
    /\ UNCHANGED <<processing, limited, blockVars, made, resets>>

Settle(l, waiting, delay, result) ==
    /\ Resume(l, waiting, delay, [outcome EXCEPT ![loops[l].request] = result])
    /\ UNCHANGED <<limited, blockVars, made, resets>>

Succeeded(l) ==
    /\ loops[l].pc = "sending"
    /\ Settle(l, queue, 1, "done")

\* Any error but a 429: the request is dropped, and no event says so.
Failed(l) ==
    /\ loops[l].pc = "sending"
    /\ Settle(l, queue, loops[l].delay, "failed")

\* A slip: the request that was refused goes to the end.
RefusedLast(l) ==
    /\ loops[l].pc = "sending"
    /\ Settle(l, Append(queue, loops[l].request), loops[l].delay, "queued")

\* A slip: no cap.
DoubledUncapped(delay) == 2 * delay

\* Math.min(delay * 2, 30000)
Doubled(delay) == IF 2 * delay < MaxDelay THEN 2 * delay ELSE MaxDelay

\* A 429: the request is the first again.
Refused(l) ==
    /\ loops[l].pc = "sending"
    /\ Settle(l, <<loops[l].request>> \o queue, Doubled(loops[l].delay), "queued")

-----------------------------------------------------------------------------
(* The rest of the manager, and time.                                      *)

\* processResponse: resetAt is read from a 429's retry-after or from headers.
\* It is the callers' business to call it, for their own requests too.
ProcessResponse ==
    /\ limited' = TRUE
    /\ UNCHANGED <<queueVars, blockVars, made, resets>>

LimitPasses ==
    /\ limited
    /\ limited' = FALSE
    /\ UNCHANGED <<queueVars, blockVars, made, resets>>

\* blockEndpoint: every call starts a timer, none stops an earlier one.
BlockEndpoint(e) ==
    /\ \E duration \in 1 .. MaxBlock :
         /\ blocked' = [blocked EXCEPT ![e] = duration]
         /\ timers' = [timers EXCEPT ![e] = @ \cup {duration}]
    /\ UNCHANGED <<queueVars, limited, made, resets>>

\* A slip: the timer leaves the endpoint to isEndpointBlocked.
UnblockLeft(e) ==
    /\ 0 \in timers[e]
    /\ timers' = [timers EXCEPT ![e] = @ \ {0}]
    /\ UNCHANGED <<queueVars, limited, blocked, made, resets>>

\* The timer of a block.  It deletes whatever block there is by now.
Unblock(e) ==
    /\ 0 \in timers[e]
    /\ timers' = [timers EXCEPT ![e] = @ \ {0}]
    /\ blocked' = [blocked EXCEPT ![e] = Free]
    /\ UNCHANGED <<queueVars, limited, made, resets>>

\* isEndpointBlocked finds a block that is over before its timer has fired.
IsEndpointBlocked(e) ==
    /\ blocked[e] = 0
    /\ blocked' = [blocked EXCEPT ![e] = Free]
    /\ UNCHANGED <<queueVars, limited, timers, made, resets>>

\* Timers fire late rather than early.
Older(t) == IF t > 0 THEN t - 1 ELSE t

Elapse ==
    /\ \E e \in Endpoints : blocked[e] > 0 \/ \E t \in timers[e] : t > 0
    /\ blocked' = [e \in Endpoints |-> Older(blocked[e])]
    /\ timers' = [e \in Endpoints |-> {Older(t) : t \in timers[e]}]
    /\ UNCHANGED <<queueVars, limited, made, resets>>

\* reset() stops neither a loop nor a timer.
Reset ==
    /\ resets < MaxResets
    /\ resets' = resets + 1
    /\ queue' = <<>>
    /\ processing' = FALSE
    /\ limited' = FALSE
    /\ blocked' = [e \in Endpoints |-> Free]
    /\ outcome' = [r \in Requests |-> IF outcome[r] = "queued" THEN "discarded" ELSE outcome[r]]
    /\ UNCHANGED <<loops, timers, made>>

Init ==
    /\ queue = <<>>
    /\ processing = FALSE
    /\ loops = [l \in Loops |-> Idle]
    /\ limited = FALSE
    /\ blocked = [e \in Endpoints |-> Free]
    /\ timers = [e \in Endpoints |-> {}]
    /\ outcome = [r \in Requests |-> "new"]
    /\ made = 0
    /\ resets = 0

Next ==
    \/ QueueRequest
    \/ \E l \in Loops : Wake(l) \/ Succeeded(l) \/ Failed(l) \/ Refused(l)
    \/ ProcessResponse
    \/ LimitPasses
    \/ \E e \in Endpoints : BlockEndpoint(e) \/ Unblock(e) \/ IsEndpointBlocked(e)
    \/ Elapse
    \/ Reset

Spec == Init /\ [][Next]_vars

(* Timers fire, time passes, and a backend asked over and over at some time *)
(* answers with something else than a 429.                                  *)
Fairness ==
    /\ \A l \in Loops :
         /\ WF_vars(Wake(l))
         /\ WF_vars(Succeeded(l) \/ Failed(l) \/ Refused(l))
         /\ SF_vars(Succeeded(l) \/ Failed(l))
    /\ \A e \in Endpoints : WF_vars(Unblock(e))
    /\ WF_vars(Elapse)

FairSpec == Spec /\ Fairness

-----------------------------------------------------------------------------
(* Properties *)

\* Every variable has its type.
TypeOK ==
    /\ queue \in Seq(Requests)
    /\ processing \in BOOLEAN
    /\ loops \in [Loops -> LoopStates]
    /\ limited \in BOOLEAN
    /\ blocked \in [Endpoints -> Free .. MaxBlock]
    /\ timers \in [Endpoints -> SUBSET (0 .. MaxBlock)]
    /\ outcome \in [Requests -> Outcomes]
    /\ made \in 0 .. MaxRequests
    /\ resets \in 0 .. MaxResets

\* Unless reset() is called, the flag keeps a second loop from starting, and so
\* two requests from being out at the same time.
OneLoop == resets = 0 => \A k, l \in Loops : Running(k) /\ Running(l) => k = l

\* However resets, failing shifts and loops that clear each other's flag combine,
\* a loop is there for a queue that is not empty, and for a flag that is set: the
\* next request is never left to a loop that has ended.
QueueIsServed ==
    /\ queue # <<>> => \E l \in Loops : Running(l)
    /\ processing => \E l \in Loops : loops[l].pc = "sending" \/ (Running(l) /\ queue # <<>>)

\* No request is out twice, or out and queued: two loops never share one.
NoRequestTwice ==
    /\ \A i, j \in DOMAIN queue : queue[i] = queue[j] => i = j
    /\ \A l \in Loops : loops[l].pc = "sending" =>
         /\ \A i \in DOMAIN queue : queue[i] # loops[l].request
         /\ \A k \in Loops \ {l} : loops[k].pc = "sending" => loops[k].request # loops[l].request

\* Requests go out in the order in which they were queued, also when one is
\* refused and tried again (reset() apart): none before it is still queued.
FirstComeFirstServed ==
    resets = 0 => \A l \in Loops : loops[l].pc = "sending" =>
        \A r \in 1 .. loops[l].request - 1 : outcome[r] # "queued"

\* No request is forgotten: whatever loops and resets do, it is where its outcome
\* says, not made yet, in the queue, or out with a loop, or it has been answered ...
RequestsAreKept ==
    \A r \in Requests :
        /\ outcome[r] = "new" <=> r > made
        /\ outcome[r] = "queued" <=> \E i \in DOMAIN queue : queue[i] = r
        /\ outcome[r] = "out" <=>
              \E l \in Loops : loops[l].pc = "sending" /\ loops[l].request = r

\* ... or discarded.  These outcomes are final.
Final == {"done", "failed", "discarded"}

\* Whatever is refused, retried and reset, a request that has an outcome is never
\* sent again.
AnsweredOnce ==
    [][\A r \in Requests : outcome[r] \in Final => outcome'[r] = outcome[r]]_vars

\* A blocked endpoint has the timer that will unblock it, due when the block is
\* over, whatever other blocks, timers and resets there were.
BlocksHaveTimers == \A e \in Endpoints : blocked[e] # Free => blocked[e] \in timers[e]

\* Every request that is queued is answered in the end, unless a reset discards
\* it: no sequence of refusals, failures, delays and resets strands it.
EveryRequestSettles ==
    \A r \in Requests : outcome[r] = "queued" ~> outcome[r] \in {"done", "failed", "discarded"}

\* No endpoint stays blocked for ever, whatever overlaps its block.
EveryBlockEnds == \A e \in Endpoints : blocked[e] # Free ~> blocked[e] = Free

-----------------------------------------------------------------------------
(* What the documents of the repository say and the code does not keep: TLC *)
(* finds each of these violated when a configuration names it (README, 3). *)

\* "Request queuing with exponential backoff" (docs/STAGE6_DESKTOP_CLOSURE.md):
\* a request that was refused goes out again only after a delay.
RefusedIsDelayed ==
    [][\A l \in Loops : Refused(l) => loops'[l].pc = "waiting"]_vars

\* "Block endpoint temporarily" (rateLimitManager.js): a block lasts as long as
\* it was asked for, unless everything is reset.
BlocksLast ==
    [][\A e \in Endpoints : Unblock(e) => blocked[e] <= 0]_vars
=============================================================================
