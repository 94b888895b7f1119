-------------------------- MODULE RateLimitsProofs --------------------------
(***************************************************************************)
(* Proofs about the rate limit manager, for every number of requests,      *)
(* loops, endpoints and resets: a queue is never left without a loop,      *)
(* no request is out twice, and, as long as nobody resets, there is one    *)
(* loop and the order is kept.                                             *)
(*                                                                         *)
(* QueueIsServed needs no strengthening but the types.  The others do: the *)
(* flag is set while a loop runs (Flagged), a request is queued if and     *)
(* only if its outcome says so (Listed), and the queue rises (InOrder),    *)
(* the last two of which end with the first reset.                         *)
(***************************************************************************)
EXTENDS RateLimits, TLAPS, SequenceTheorems

Elems(q) == {q[i] : i \in DOMAIN q}

Distinct(q) == \A i, j \in DOMAIN q : q[i] = q[j] => i = j

Rising(q) == \A i, j \in DOMAIN q : i < j => q[i] < q[j]

Out(l) == loops[l].pc = "sending"

\* What is said of a request by the queue and by its outcome.
Listed == \A r \in Requests : outcome[r] = "queued" <=> r \in Elems(queue)

Numbered ==
    /\ \A r \in Elems(queue) : r <= made
    /\ \A l \in Loops : Out(l) => loops[l].request <= made

Flagged == resets = 0 => \A l \in Loops : Running(l) => processing

InOrder ==
    resets = 0 =>
        /\ Rising(queue)
        /\ \A l \in Loops : Out(l) => \A r \in Elems(queue) : loops[l].request < r

\* NoRequestTwice, in terms of Elems.
Once ==
    /\ Distinct(queue)
    /\ \A l \in Loops : Out(l) => loops[l].request \notin Elems(queue)
    /\ \A k, l \in Loops : Out(k) /\ Out(l) /\ k # l => loops[k].request # loops[l].request

IInv ==
    /\ TypeOK /\ Listed /\ Numbered /\ Once
    /\ QueueIsServed
    /\ OneLoop /\ Flagged /\ InOrder

-----------------------------------------------------------------------------
(* Sequences of requests.                                                  *)

\* What shift() leaves.
LEMMA ShiftFacts ==
  ASSUME NEW q \in Seq(Requests), q # <<>>
  PROVE  /\ Head(q) \in Requests /\ Tail(q) \in Seq(Requests)
         /\ Elems(q) = {Head(q)} \cup Elems(Tail(q))
         /\ Distinct(q) => Distinct(Tail(q)) /\ Head(q) \notin Elems(Tail(q))
         /\ Rising(q) => Rising(Tail(q)) /\ \A r \in Elems(Tail(q)) : Head(q) < r
PROOF
  <1>1. /\ Head(q) \in Requests /\ Tail(q) \in Seq(Requests)
        /\ Len(q) \in Nat \ {0} /\ Len(Tail(q)) = Len(q) - 1
        /\ \A i \in 1 .. Len(Tail(q)) : Tail(q)[i] = q[i + 1]
        /\ DOMAIN q = 1 .. Len(q) /\ DOMAIN Tail(q) = 1 .. Len(Tail(q))
        /\ Head(q) = q[1]
    BY HeadTailProperties, LenProperties, EmptySeq
  <1>2. Elems(q) = {Head(q)} \cup Elems(Tail(q))
    <2>1. ASSUME NEW r \in Elems(q)
          PROVE  r \in {Head(q)} \cup Elems(Tail(q))
      <3>1. PICK i \in 1 .. Len(q) : r = q[i]
        BY <1>1 DEF Elems
      <3>2. CASE i = 1
        BY <1>1, <3>1, <3>2
      <3>3. CASE i # 1
        <4>1. i - 1 \in 1 .. Len(Tail(q)) /\ Tail(q)[i - 1] = q[(i - 1) + 1] /\ (i - 1) + 1 = i
          BY <1>1, <3>1, <3>3
        <4>2. QED
          BY <1>1, <3>1, <4>1 DEF Elems
      <3>4. QED
        BY <3>2, <3>3
    <2>2. Head(q) \in Elems(q)
      BY <1>1 DEF Elems
    <2>3. Elems(Tail(q)) \subseteq Elems(q)
      BY <1>1 DEF Elems
    <2>4. QED
      BY <2>1, <2>2, <2>3
  <1>3. Distinct(q) => Distinct(Tail(q)) /\ Head(q) \notin Elems(Tail(q))
    BY <1>1 DEF Distinct, Elems
  <1>4. Rising(q) => Rising(Tail(q)) /\ \A r \in Elems(Tail(q)) : Head(q) < r
    BY <1>1 DEF Rising, Elems
  <1>5. QED
    BY <1>1, <1>2, <1>3, <1>4

\* What push() makes.
LEMMA PushFacts ==
  ASSUME NEW q \in Seq(Requests), NEW r \in Requests
  PROVE  /\ Append(q, r) \in Seq(Requests) /\ Append(q, r) # <<>>
         /\ Elems(Append(q, r)) = Elems(q) \cup {r}
         /\ Distinct(q) /\ r \notin Elems(q) => Distinct(Append(q, r))
         /\ Rising(q) /\ (\A p \in Elems(q) : p < r) => Rising(Append(q, r))
PROOF
  <1>1. /\ Append(q, r) \in Seq(Requests) /\ Len(q) \in Nat
        /\ Len(Append(q, r)) = Len(q) + 1 /\ Append(q, r)[Len(q) + 1] = r
        /\ \A i \in 1 .. Len(q) : Append(q, r)[i] = q[i]
        /\ DOMAIN q = 1 .. Len(q) /\ DOMAIN Append(q, r) = 1 .. Len(q) + 1
    BY AppendProperties, LenProperties
  <1>2. Append(q, r) # <<>>
    BY <1>1, EmptySeq
  <1>3. Elems(Append(q, r)) = Elems(q) \cup {r}
    BY <1>1 DEF Elems
  <1>4. Distinct(q) /\ r \notin Elems(q) => Distinct(Append(q, r))
    BY <1>1 DEF Distinct, Elems
  <1>5. Rising(q) /\ (\A p \in Elems(q) : p < r) => Rising(Append(q, r))
    BY <1>1 DEF Rising, Elems
  <1>6. QED
    BY <1>1, <1>2, <1>3, <1>4, <1>5

\* What unshift() makes.
LEMMA UnshiftFacts ==
  ASSUME NEW q \in Seq(Requests), NEW r \in Requests
  PROVE  /\ <<r>> \o q \in Seq(Requests) /\ <<r>> \o q # <<>>
         /\ Elems(<<r>> \o q) = Elems(q) \cup {r}
         /\ Distinct(q) /\ r \notin Elems(q) => Distinct(<<r>> \o q)
         /\ Rising(q) /\ (\A p \in Elems(q) : r < p) => Rising(<<r>> \o q)
PROOF
  <1> DEFINE t == <<r>> \o q
  <1>1. /\ t \in Seq(Requests) /\ Len(q) \in Nat /\ Len(t) = Len(q) + 1
        /\ t[1] = r /\ \A i \in 2 .. Len(q) + 1 : t[i] = q[i - 1]
        /\ DOMAIN q = 1 .. Len(q) /\ DOMAIN t = 1 .. Len(q) + 1
    <2>1. <<r>> \in Seq(Requests) /\ Len(<<r>>) = 1 /\ <<r>>[1] = r
      OBVIOUS
    <2>2. /\ t \in Seq(Requests) /\ Len(t) = 1 + Len(q)
          /\ \A i \in 1 .. 1 + Len(q) : t[i] = IF i <= 1 THEN <<r>>[i] ELSE q[i - 1]
      BY <2>1, ConcatProperties
    <2>3. Len(q) \in Nat /\ DOMAIN q = 1 .. Len(q) /\ DOMAIN t = 1 .. Len(t)
      BY <2>2, LenProperties
    <2>4. QED
      BY <2>1, <2>2, <2>3
  <1> HIDE DEF t
  <1>2. t # <<>>
    BY <1>1, EmptySeq
  <1>3. Elems(t) = Elems(q) \cup {r}
    <2>1. ASSUME NEW p \in Elems(q)
          PROVE  p \in Elems(t)
      <3>1. PICK i \in 1 .. Len(q) : p = q[i]
        BY <1>1 DEF Elems
      <3>2. i + 1 \in 2 .. Len(q) + 1 /\ (i + 1) - 1 = i
        BY <1>1, <3>1
      <3>3. t[i + 1] = p /\ i + 1 \in DOMAIN t
        BY <1>1, <3>1, <3>2
      <3>4. QED
        BY <3>3 DEF Elems
    <2>2. ASSUME NEW p \in Elems(t)
          PROVE  p \in Elems(q) \cup {r}
      <3>1. PICK i \in 1 .. Len(q) + 1 : p = t[i]
        BY <1>1 DEF Elems
      <3>2. CASE i = 1
        BY <1>1, <3>1, <3>2
      <3>3. CASE i # 1
        <4>1. i \in 2 .. Len(q) + 1 /\ i - 1 \in 1 .. Len(q)
          BY <1>1, <3>1, <3>3
        <4>2. QED
          BY <1>1, <3>1, <4>1 DEF Elems
      <3>4. QED
        BY <3>2, <3>3
    <2>3. r \in Elems(t)
      BY <1>1 DEF Elems
    <2>4. QED
      BY <2>1, <2>2, <2>3
  <1>4. Distinct(q) /\ r \notin Elems(q) => Distinct(t)
    BY <1>1 DEF Distinct, Elems
  <1>5. Rising(q) /\ (\A p \in Elems(q) : r < p) => Rising(t)
    BY <1>1 DEF Rising, Elems
  <1>6. QED
    BY <1>1, <1>2, <1>3, <1>4, <1>5 DEF t

\* An empty queue.
LEMMA NothingFacts ==
  /\ <<>> \in Seq(Requests) /\ Elems(<<>>) = {}
  /\ Distinct(<<>>) /\ Rising(<<>>)
  BY EmptySeq DEF Elems, Distinct, Rising
-----------------------------------------------------------------------------
(* The loop.                                                               *)

\* What the state of a loop holds.
LEMMA LoopFacts ==
  ASSUME NEW s \in LoopStates
  PROVE  /\ s.pc \in {"idle", "waiting", "sending"}
         /\ s.pc = "sending" => s.request \in Requests /\ s.delay \in 1 .. MaxDelay
         /\ s.pc = "waiting" => s.delay \in 1 .. MaxDelay
  BY DEF LoopStates, Idle, Waiting, Sending

\* What a state of a loop is made of.
LEMMA LoopTypes ==
  ASSUME NEW d \in 1 .. MaxDelay, NEW r \in Requests
  PROVE  /\ Idle \in LoopStates /\ Idle.pc = "idle"
         /\ Waiting(d) \in LoopStates /\ Waiting(d).pc = "waiting"
         /\ Sending(r, d) \in LoopStates /\ Sending(r, d).pc = "sending" /\ Sending(r, d).request = r
  BY DEF LoopStates, Idle, Waiting, Sending

\* What a queue has to be for loop l to go on with it.
Ready(l, waiting, outcomes) ==
    /\ waiting \in Seq(Requests)
    /\ outcomes \in [Requests -> Outcomes]
    /\ \A r \in Requests : outcomes[r] = "queued" <=> r \in Elems(waiting)
    /\ Distinct(waiting)
    /\ \A k \in Loops \ {l} : Out(k) => loops[k].request \notin Elems(waiting)
    /\ \A r \in Elems(waiting) : r <= made'
    /\ resets = 0 => Rising(waiting) /\ \A k \in Loops \ {l} : ~Running(k)

\* What a step of loop l leaves behind, whatever becomes of the flag.
Passed(l) ==
    /\ queue' \in Seq(Requests)
    /\ loops' \in [Loops -> LoopStates]
    /\ outcome' \in [Requests -> Outcomes]
    /\ \A k \in Loops \ {l} : loops'[k] = loops[k]
    /\ Listed' /\ Numbered' /\ Once'
    /\ resets = 0 => /\ \A k \in Loops : Running(k)' => k = l
                     /\ InOrder'

Known ==
    /\ queue \in Seq(Requests)
    /\ loops \in [Loops -> LoopStates]
    /\ outcome \in [Requests -> Outcomes]
    /\ made \in 0 .. MaxRequests
    /\ Numbered /\ Once

\* Loop l sends the first request.
LEMMA SendPasses ==
  ASSUME Known, NEW l \in Loops, NEW waiting, waiting # <<>>, NEW outcomes,
         NEW delay \in 1 .. MaxDelay, Ready(l, waiting, outcomes),
         Send(l, waiting, delay, outcomes),
         made' \in 0 .. MaxRequests, made <= made', resets' = resets
  PROVE  Passed(l) /\ loops'[l].pc = "sending"
PROOF
  <1> DEFINE r == Head(waiting)
  <1>1. /\ r \in Requests /\ Tail(waiting) \in Seq(Requests)
        /\ Elems(waiting) = {r} \cup Elems(Tail(waiting))
        /\ Distinct(Tail(waiting)) /\ r \notin Elems(Tail(waiting))
        /\ resets = 0 => Rising(Tail(waiting)) /\ \A p \in Elems(Tail(waiting)) : r < p
    BY ShiftFacts DEF Ready
  <1>2. /\ queue' = Tail(waiting)
        /\ loops' = [loops EXCEPT ![l] = Sending(r, delay)]
        /\ outcome' = [outcomes EXCEPT ![r] = "out"]
    BY DEF Send
  <1>3. Sending(r, delay) \in LoopStates /\ Sending(r, delay).pc = "sending" /\ Sending(r, delay).request = r
    BY <1>1, LoopTypes
  <1> HIDE DEF r
  <1>4. /\ loops' \in [Loops -> LoopStates]
        /\ loops'[l].pc = "sending" /\ loops'[l].request = r
        /\ \A k \in Loops \ {l} : loops'[k] = loops[k]
    BY <1>2, <1>3 DEF Known
  <1>5. outcome' \in [Requests -> Outcomes]
    BY <1>1, <1>2 DEF Ready, Outcomes
  <1>6. Listed'
    BY <1>1, <1>2 DEF Ready, Listed
  <1>7. Numbered'
    <2>1. \A k \in Loops : Out(k) => loops[k].request \in Requests /\ loops[k].request <= made
      BY LoopFacts DEF Known, Numbered, Out
    <2>2. \A k \in Loops : Out(k)' => loops'[k].request <= made'
      BY <1>1, <1>4, <2>1 DEF Ready, Out, Known, Requests
    <2>3. \A p \in Elems(queue') : p <= made'
      BY <1>1, <1>2 DEF Ready
    <2>4. QED
      BY <2>2, <2>3 DEF Numbered
  <1>8. Once'
    <2>1. Distinct(queue')
      BY <1>1, <1>2
    <2>2. \A k \in Loops : Out(k)' => loops'[k].request \notin Elems(queue')
      BY <1>1, <1>2, <1>4 DEF Ready, Out
    <2>3. \A k \in Loops \ {l} : Out(k)' => loops'[k].request # r
      BY <1>1, <1>4 DEF Ready, Out
    <2>4. \A j, k \in Loops : Out(j)' /\ Out(k)' /\ j # k => loops'[j].request # loops'[k].request
      BY <1>4, <2>3 DEF Known, Once, Out
    <2>5. QED
      BY <2>1, <2>2, <2>4 DEF Once
  <1>9. ASSUME resets = 0
        PROVE  (\A k \in Loops : Running(k)' => k = l) /\ InOrder'
    <2>1. \A k \in Loops : Running(k)' => k = l
      BY <1>4, <1>9 DEF Ready, Running
    <2>2. \A k \in Loops : Out(k)' => k = l
      BY <2>1 DEF Out, Running
    <2>3. QED
      BY <1>1, <1>2, <1>4, <1>9, <2>1, <2>2 DEF InOrder
  <1>10. QED
    BY <1>1, <1>2, <1>4, <1>5, <1>6, <1>7, <1>8, <1>9 DEF Passed

\* Loop l waits, or ends.
LEMMA RestPasses ==
  ASSUME Known, NEW l \in Loops, NEW waiting, NEW outcomes, Ready(l, waiting, outcomes),
         NEW state \in LoopStates, state.pc # "sending",
         queue' = waiting, outcome' = outcomes, loops' = [loops EXCEPT ![l] = state],
         made' \in 0 .. MaxRequests, made <= made', resets' = resets
  PROVE  Passed(l) /\ loops'[l] = state
PROOF
  <1>1. /\ loops' \in [Loops -> LoopStates]
        /\ loops'[l] = state /\ \A k \in Loops \ {l} : loops'[k] = loops[k]
    BY DEF Known
  <1>2. \A k \in Loops : Out(k)' => k # l /\ Out(k) /\ loops'[k] = loops[k]
    BY <1>1 DEF Out
  <1>3. Listed'
    BY DEF Ready, Listed
  <1>4. Numbered'
    <2>1. \A k \in Loops : Out(k) => loops[k].request \in Requests /\ loops[k].request <= made
      BY LoopFacts DEF Known, Numbered, Out
    <2>2. \A k \in Loops : Out(k)' => loops'[k].request <= made'
      BY <1>2, <2>1 DEF Known, Requests
    <2>3. QED
      BY <2>2 DEF Ready, Numbered
  <1>5. Once'
    <2>1. Distinct(queue') /\ \A k \in Loops : Out(k)' => loops'[k].request \notin Elems(queue')
      BY <1>2 DEF Ready
    <2>2. \A j, k \in Loops : Out(j)' /\ Out(k)' /\ j # k => loops'[j].request # loops'[k].request
      BY <1>2 DEF Known, Once
    <2>3. QED
      BY <2>1, <2>2 DEF Once
  <1>6. ASSUME resets = 0
        PROVE  (\A k \in Loops : Running(k)' => k = l) /\ InOrder'
    <2>1. \A k \in Loops : Running(k)' => k = l
      BY <1>1, <1>6 DEF Ready, Running
    <2>2. \A k \in Loops : ~Out(k)'
      BY <1>2, <2>1 DEF Out, Running
    <2>3. Rising(queue')
      BY <1>6 DEF Ready
    <2>4. QED
      BY <2>1, <2>2, <2>3 DEF InOrder
  <1>7. QED
    BY <1>1, <1>3, <1>4, <1>5, <1>6 DEF Passed, Ready

\* The head of the while loop.
LEMMA IteratePasses ==
  ASSUME Known, NEW l \in Loops, NEW waiting, waiting # <<>>, NEW outcomes,
         NEW delay \in 1 .. MaxDelay, Ready(l, waiting, outcomes),
         Iterate(l, waiting, delay, outcomes),
         made' \in 0 .. MaxRequests, made <= made', resets' = resets
  PROVE  /\ Passed(l)
         /\ loops'[l].pc = "sending" \/ (loops'[l].pc = "waiting" /\ queue' # <<>>)
PROOF
  <1>1. CASE limited
    <2>1. Waiting(delay) \in LoopStates /\ Waiting(delay).pc = "waiting"
      BY DEF LoopStates, Waiting
    <2>2. /\ queue' = waiting /\ outcome' = outcomes
          /\ loops' = [loops EXCEPT ![l] = Waiting(delay)]
      BY <1>1 DEF Iterate
    <2>3. Passed(l) /\ loops'[l] = Waiting(delay)
      BY <2>1, <2>2, RestPasses
    <2>4. QED
      BY <2>1, <2>2, <2>3
  <1>2. CASE ~limited
    BY <1>2, SendPasses DEF Iterate
  <1>3. QED
    BY <1>1, <1>2

LEMMA FinishPasses ==
  ASSUME Known, NEW l \in Loops, NEW outcomes, Ready(l, <<>>, outcomes), Finish(l, outcomes),
         made' \in 0 .. MaxRequests, made <= made', resets' = resets
  PROVE  Passed(l) /\ loops'[l].pc = "idle" /\ queue' = <<>>
PROOF
  <1>1. Idle \in LoopStates /\ Idle.pc = "idle"
    BY DEF LoopStates, Idle
  <1>2. queue' = <<>> /\ outcome' = outcomes /\ loops' = [loops EXCEPT ![l] = Idle]
    BY DEF Finish
  <1>3. Passed(l) /\ loops'[l] = Idle
    BY <1>1, <1>2, RestPasses
  <1>4. QED
    BY <1>1, <1>2, <1>3
-----------------------------------------------------------------------------
(* The steps.                                                              *)

Rest == /\ processing' \in BOOLEAN /\ limited' = limited
        /\ UNCHANGED blockVars
        /\ made' \in 0 .. MaxRequests /\ made <= made' /\ resets' = resets

\* A loop that sends or waits serves the queue.
LEMMA GoesOn ==
  ASSUME IInv, NEW l \in Loops, Passed(l), Rest, resets = 0 => processing',
         loops'[l].pc = "sending" \/ (loops'[l].pc = "waiting" /\ queue' # <<>>)
  PROVE  IInv'
PROOF
  <1>1. TypeOK'
    BY DEF IInv, TypeOK, Passed, Rest, blockVars
  <1>2. QueueIsServed'
    BY DEF QueueIsServed, Running
  <1>3. OneLoop' /\ Flagged' /\ InOrder'
    BY DEF Passed, Rest, OneLoop, Flagged, InOrder
  <1>4. QED
    BY <1>1, <1>2, <1>3 DEF IInv, Passed

\* A loop ends with the queue empty, and with the flag clear unless another sends.
LEMMA Ends ==
  ASSUME IInv, NEW l \in Loops, Passed(l), Rest, loops'[l].pc = "idle", queue' = <<>>,
         processing' => \E k \in Loops \ {l} : Out(k)
  PROVE  IInv'
PROOF
  <1>1. TypeOK'
    BY DEF IInv, TypeOK, Passed, Rest, blockVars
  <1>2. QueueIsServed'
    BY DEF QueueIsServed, Running, Passed, Out
  <1>3. resets' = 0 => \A k \in Loops : ~Running(k)'
    BY DEF Passed, Rest, Running
  <1>4. OneLoop' /\ Flagged' /\ InOrder'
    BY <1>3 DEF Passed, Rest, OneLoop, Flagged, InOrder
  <1>5. QED
    BY <1>1, <1>2, <1>4 DEF IInv, Passed

LEMMA IInvKnown ==
  ASSUME IInv
  PROVE  Known /\ \A l \in Loops : loops[l] \in LoopStates
  BY DEF IInv, TypeOK, Known

\* Loop l goes on with the queue as it is.
LEMMA ReadyAsIs ==
  ASSUME IInv, NEW l \in Loops, Running(l), made' = made
  PROVE  Ready(l, queue, outcome)
  BY DEF IInv, TypeOK, Listed, Numbered, Once, OneLoop, InOrder, Ready

LEMMA WakeIInv ==
  ASSUME IInv, NEW l \in Loops, Wake(l)
  PROVE  IInv'
PROOF
  <1>1. /\ loops[l].pc = "waiting" /\ Running(l)
        /\ UNCHANGED <<processing, limited, blockVars, made, resets>>
    BY DEF Wake, Running
  <1>2. Known /\ Ready(l, queue, outcome) /\ loops[l].delay \in 1 .. MaxDelay
    BY <1>1, IInvKnown, ReadyAsIs, LoopFacts
  <1>3. Rest
    BY <1>1 DEF Rest, IInv, TypeOK
  <1>4. CASE queue = <<>>
    <2>1. Passed(l) /\ loops'[l].pc = "idle" /\ queue' = <<>>
      BY <1>2, <1>3, <1>4, FinishPasses DEF Wake, Rest
    <2>2. processing' => \E k \in Loops \ {l} : Out(k)
      BY <1>1, <1>4 DEF IInv, QueueIsServed, Out
    <2>3. QED
      BY <1>3, <2>1, <2>2, Ends
  <1>5. CASE queue # <<>>
    <2>1. Passed(l) /\ loops'[l].pc = "sending"
      BY <1>2, <1>3, <1>5, SendPasses DEF Wake, Rest
    <2>2. resets = 0 => processing'
      BY <1>1 DEF IInv, Flagged
    <2>3. QED
      BY <1>3, <2>1, <2>2, GoesOn
  <1>6. QED
    BY <1>4, <1>5

\* After an answer the loop goes on or ends.
LEMMA ResumeIInv ==
  ASSUME IInv, NEW l \in Loops, Out(l), NEW waiting, NEW outcomes, NEW delay \in 1 .. MaxDelay,
         Ready(l, waiting, outcomes), Resume(l, waiting, delay, outcomes),
         UNCHANGED <<limited, blockVars, made, resets>>
  PROVE  IInv'
PROOF
  <1>1. Known /\ Running(l)
    BY IInvKnown DEF Out, Running
  <1>2. processing' = (processing /\ waiting # <<>>) /\ processing \in BOOLEAN
    BY DEF Resume, IInv, TypeOK
  <1>3. processing' \in BOOLEAN
    BY <1>2
  <1>4. Rest
    BY <1>3 DEF Rest, IInv, TypeOK
  <1>5. CASE waiting = <<>>
    <2>1. Passed(l) /\ loops'[l].pc = "idle" /\ queue' = <<>>
      BY <1>1, <1>4, <1>5, FinishPasses DEF Resume, Rest
    <2>2. ~processing'
      BY <1>2, <1>5
    <2>3. QED
      BY <1>4, <2>1, <2>2, Ends
  <1>6. CASE waiting # <<>>
    <2>1. /\ Passed(l)
          /\ loops'[l].pc = "sending" \/ (loops'[l].pc = "waiting" /\ queue' # <<>>)
      BY <1>1, <1>4, <1>6, IteratePasses DEF Resume, Rest
    <2>2. resets = 0 => processing'
      BY <1>1, <1>2, <1>6 DEF IInv, Flagged
    <2>3. QED
      BY <1>4, <2>1, <2>2, GoesOn
  <1>7. QED
    BY <1>5, <1>6

LEMMA SettledIInv ==
  ASSUME IInv, NEW l \in Loops, Succeeded(l) \/ Failed(l)
  PROVE  IInv'
PROOF
  <1>1. Out(l) /\ loops[l].request \in Requests /\ loops[l].delay \in 1 .. MaxDelay
    BY IInvKnown, LoopFacts DEF Succeeded, Failed, Out
  <1>2. PICK result \in {"done", "failed"}, delay \in 1 .. MaxDelay : Settle(l, queue, delay, result)
    BY <1>1, RateAssumption DEF Succeeded, Failed
  <1> DEFINE outcomes == [outcome EXCEPT ![loops[l].request] = result]
  <1>3. UNCHANGED <<limited, blockVars, made, resets>> /\ Resume(l, queue, delay, outcomes)
    BY <1>2 DEF Settle
  <1>4. loops[l].request \notin Elems(queue)
    BY <1>1 DEF IInv, Once
  <1>5. Ready(l, queue, outcome)
    BY <1>1, <1>3, ReadyAsIs DEF Out, Running
  <1>6. outcomes \in [Requests -> Outcomes]
        /\ \A r \in Requests : outcomes[r] = "queued" <=> r \in Elems(queue)
    BY <1>1, <1>4, <1>5 DEF Ready, Outcomes
  <1> HIDE DEF outcomes
  <1>7. Ready(l, queue, outcomes)
    BY <1>5, <1>6 DEF Ready
  <1>8. QED
    BY <1>1, <1>3, <1>7, ResumeIInv

LEMMA RefusedIInv ==
  ASSUME IInv, NEW l \in Loops, Refused(l)
  PROVE  IInv'
PROOF
  <1> DEFINE req == loops[l].request
             waiting == <<req>> \o queue
             outcomes == [outcome EXCEPT ![req] = "queued"]
             delay == Doubled(loops[l].delay)
  <1>1. Out(l) /\ req \in Requests /\ loops[l].delay \in 1 .. MaxDelay
    BY IInvKnown, LoopFacts DEF Refused, Out
  <1>2. delay \in 1 .. MaxDelay
    BY <1>1, RateAssumption DEF Doubled
  <1>3. UNCHANGED <<limited, blockVars, made, resets>> /\ Resume(l, waiting, delay, outcomes)
    BY DEF Refused, Settle
  <1>4. Ready(l, queue, outcome)
    BY <1>1, <1>3, ReadyAsIs DEF Out, Running
  <1>5. /\ req \notin Elems(queue) /\ req <= made
        /\ \A k \in Loops \ {l} : Out(k) => loops[k].request # req
        /\ resets = 0 => \A r \in Elems(queue) : req < r
    BY <1>1 DEF IInv, Once, Numbered, InOrder
  <1> HIDE DEF req, delay
  <1>6. /\ waiting \in Seq(Requests)
        /\ Elems(waiting) = Elems(queue) \cup {req}
        /\ Distinct(waiting) /\ (resets = 0 => Rising(waiting))
    BY <1>1, <1>4, <1>5, UnshiftFacts DEF Ready
  <1> HIDE DEF waiting
  <1>7. outcomes \in [Requests -> Outcomes]
        /\ \A r \in Requests : outcomes[r] = "queued" <=> r \in Elems(waiting)
    BY <1>1, <1>4, <1>6 DEF Ready, Outcomes
  <1> HIDE DEF outcomes
  <1>8. Ready(l, waiting, outcomes)
    BY <1>3, <1>4, <1>5, <1>6, <1>7 DEF Ready
  <1>9. QED
    BY <1>1, <1>2, <1>3, <1>8, ResumeIInv

LEMMA QueueRequestIInv ==
  ASSUME IInv, QueueRequest
  PROVE  IInv'
PROOF
  <1> DEFINE new == made + 1
             waiting == Append(queue, new)
             outcomes == [outcome EXCEPT ![new] = "queued"]
  <1>1. /\ made < MaxRequests /\ made' = new /\ processing' = TRUE
        /\ UNCHANGED <<limited, blockVars, resets>>
    BY DEF QueueRequest, Enqueue
  <1>2. made \in Nat /\ new \in Requests /\ made' \in 0 .. MaxRequests /\ made <= made'
    BY <1>1, RateAssumption DEF IInv, TypeOK, Requests
  <1>3. /\ \A r \in Elems(queue) : r \in Nat /\ r <= made
        /\ queue \in Seq(Requests)
    <2>1. queue \in Seq(Requests) /\ \A r \in Elems(queue) : r <= made
      BY DEF IInv, TypeOK, Numbered
    <2>2. ASSUME NEW r \in Elems(queue)
          PROVE  r \in Nat
      <3>1. PICK i \in 1 .. Len(queue) : r = queue[i]
        BY <2>1, LenProperties DEF Elems
      <3>2. queue[i] \in Requests
        BY <2>1, <3>1, ElementOfSeq
      <3>3. QED
        BY <3>1, <3>2 DEF Requests
    <2>3. QED
      BY <2>1, <2>2
  <1>4. new \notin Elems(queue) /\ \A r \in Elems(queue) : r < new
    BY <1>2, <1>3
  <1>5. \A k \in Loops : Out(k) => loops[k].request \in Nat /\ loops[k].request < new
    BY <1>2, IInvKnown, LoopFacts DEF IInv, Numbered, Out, Requests
  <1>6. /\ waiting \in Seq(Requests) /\ waiting # <<>>
        /\ Elems(waiting) = Elems(queue) \cup {new}
        /\ Distinct(waiting) /\ (resets = 0 => Rising(waiting))
    BY <1>2, <1>3, <1>4, PushFacts DEF IInv, Once, InOrder
  <1>7. outcomes \in [Requests -> Outcomes]
        /\ \A r \in Requests : outcomes[r] = "queued" <=> r \in Elems(waiting)
    BY <1>2, <1>6 DEF IInv, TypeOK, Listed, Outcomes
  <1>8. \A r \in Elems(waiting) : r <= made'
    BY <1>1, <1>2, <1>3, <1>6
  <1>9. \A k \in Loops : Out(k) => loops[k].request \notin Elems(waiting)
    BY <1>5, <1>6, <1>2 DEF IInv, Once
  <1>10. Rest
    BY <1>1, <1>2 DEF Rest
  <1> HIDE DEF waiting, outcomes
  <1>11. CASE processing
    <2>1. queue' = waiting /\ outcome' = outcomes /\ loops' = loops
      BY <1>11 DEF QueueRequest, Enqueue, waiting, outcomes
    <2>2. TypeOK'
      BY <1>1, <1>2, <1>6, <1>7, <2>1 DEF IInv, TypeOK, blockVars
    <2>3. Listed' /\ Once'
      BY <1>6, <1>7, <1>9, <2>1 DEF IInv, Listed, Once, Out
    <2>4. Numbered'
      BY <1>1, <1>2, <1>5, <1>8, <2>1 DEF Numbered, Out
    <2>5. QueueIsServed'
      BY <1>6, <1>11, <2>1 DEF IInv, QueueIsServed, Running
    <2>6. OneLoop' /\ Flagged'
      BY <1>1, <2>1 DEF IInv, OneLoop, Flagged, Running
    <2>7. InOrder'
      BY <1>1, <1>5, <1>6, <2>1 DEF IInv, InOrder, Out
    <2>8. QED
      BY <2>2, <2>3, <2>4, <2>5, <2>6, <2>7 DEF IInv
  <1>12. CASE ~processing
    <2>1. PICK l \in Loops : ~Running(l) /\ Iterate(l, waiting, 1, outcomes)
      BY <1>12 DEF QueueRequest, Enqueue, waiting, outcomes
    <2>2. resets = 0 => \A k \in Loops : ~Running(k)
      BY <1>12 DEF IInv, Flagged
    <2>3. Ready(l, waiting, outcomes)
      BY <1>6, <1>7, <1>8, <1>9, <2>2 DEF Ready
    <2>4. 1 \in 1 .. MaxDelay
      BY RateAssumption
    <2>5. /\ Passed(l)
          /\ loops'[l].pc = "sending" \/ (loops'[l].pc = "waiting" /\ queue' # <<>>)
      BY <1>2, <1>6, <1>10, <2>1, <2>3, <2>4, IInvKnown, IteratePasses DEF Rest
    <2>6. QED
      BY <1>1, <1>10, <2>5, GoesOn
  <1>13. QED
    BY <1>11, <1>12

\* reset() empties the queue; the loops go on.
LEMMA ResetIInv ==
  ASSUME IInv, Reset
  PROVE  IInv'
PROOF
  <1>1. /\ queue' = <<>> /\ processing' = FALSE /\ loops' = loops /\ made' = made
        /\ resets' = resets + 1 /\ resets < MaxResets /\ resets \in Nat
        /\ outcome' = [r \in Requests |-> IF outcome[r] = "queued" THEN "discarded" ELSE outcome[r]]
    BY DEF Reset, IInv, TypeOK
  <1>2. TypeOK'
    <2>1. queue' \in Seq(Requests) /\ outcome' \in [Requests -> Outcomes]
      BY <1>1 DEF IInv, TypeOK, Outcomes
    <2>2. blocked' \in [Endpoints -> Free .. MaxBlock] /\ limited' \in BOOLEAN /\ timers' = timers
      <3>1. Free \in Free .. MaxBlock
        BY RateAssumption DEF Free
      <3>2. blocked' = [e \in Endpoints |-> Free] /\ limited' = FALSE /\ timers' = timers
        BY DEF Reset
      <3>3. QED
        BY <3>1, <3>2
    <2>3. resets' \in 0 .. MaxResets
      BY <1>1, RateAssumption
    <2>4. QED
      BY <1>1, <2>1, <2>2, <2>3 DEF IInv, TypeOK
  <1>3. Listed' /\ Numbered' /\ Once'
    BY <1>1, NothingFacts DEF IInv, Listed, Numbered, Once, Out
  <1>4. QueueIsServed'
    BY <1>1 DEF QueueIsServed
  <1>5. resets' # 0
    BY <1>1
  <1>6. QED
    BY <1>2, <1>3, <1>4, <1>5 DEF IInv, OneLoop, Flagged, InOrder

\* Steps of the limits and the blocks.
LEMMA OthersIInv ==
  ASSUME IInv, UNCHANGED <<queueVars, made, resets>>, limited' \in BOOLEAN,
         blocked' \in [Endpoints -> Free .. MaxBlock],
         timers' \in [Endpoints -> SUBSET (0 .. MaxBlock)]
  PROVE  IInv'
PROOF
  <1>1. UNCHANGED <<queue, processing, loops, outcome, made, resets>>
    BY DEF queueVars
  <1>2. TypeOK'
    BY <1>1 DEF IInv, TypeOK
  <1>3. Listed' /\ Numbered' /\ Once' /\ InOrder'
    BY <1>1 DEF IInv, Listed, Numbered, Once, InOrder, Out
  <1>4. QueueIsServed' /\ OneLoop' /\ Flagged'
    BY <1>1 DEF IInv, QueueIsServed, OneLoop, Flagged, Running
  <1>5. QED
    BY <1>2, <1>3, <1>4 DEF IInv

LEMMA BlockIInv ==
  ASSUME IInv,
         \/ ProcessResponse \/ LimitPasses \/ Elapse
         \/ \E e \in Endpoints : BlockEndpoint(e) \/ Unblock(e) \/ IsEndpointBlocked(e)
  PROVE  IInv'
PROOF
  <1>1. /\ limited \in BOOLEAN /\ blocked \in [Endpoints -> Free .. MaxBlock]
        /\ timers \in [Endpoints -> SUBSET (0 .. MaxBlock)]
    BY DEF IInv, TypeOK
  <1>2. CASE ProcessResponse \/ LimitPasses
    BY <1>1, <1>2, OthersIInv DEF ProcessResponse, LimitPasses, blockVars
  <1>3. CASE Elapse
    <2>1. \A t \in Free .. MaxBlock : Older(t) \in Free .. MaxBlock
      BY RateAssumption DEF Older, Free
    <2>2. \A t \in 0 .. MaxBlock : Older(t) \in 0 .. MaxBlock
      BY RateAssumption DEF Older
    <2>3. blocked' \in [Endpoints -> Free .. MaxBlock]
      BY <1>1, <1>3, <2>1 DEF Elapse
    <2>4. timers' \in [Endpoints -> SUBSET (0 .. MaxBlock)]
      BY <1>1, <1>3, <2>2 DEF Elapse
    <2>5. QED
      BY <1>1, <1>3, <2>3, <2>4, OthersIInv DEF Elapse
  <1>4. ASSUME NEW e \in Endpoints, BlockEndpoint(e) \/ Unblock(e) \/ IsEndpointBlocked(e)
        PROVE  IInv'
    <2>1. Free \in Free .. MaxBlock
      BY RateAssumption DEF Free
    <2>2. blocked' \in [Endpoints -> Free .. MaxBlock]
      BY <1>1, <1>4, <2>1 DEF BlockEndpoint, Unblock, IsEndpointBlocked, Free
    <2>3. timers' \in [Endpoints -> SUBSET (0 .. MaxBlock)]
      BY <1>1, <1>4 DEF BlockEndpoint, Unblock, IsEndpointBlocked
    <2>4. UNCHANGED <<queueVars, made, resets>> /\ limited' = limited
      BY <1>4 DEF BlockEndpoint, Unblock, IsEndpointBlocked
    <2>5. QED
      BY <1>1, <2>2, <2>3, <2>4, OthersIInv
  <1>5. QED
    BY <1>2, <1>3, <1>4

-----------------------------------------------------------------------------
(* The invariant.                                                          *)

LEMMA InitIInv == Init => IInv
PROOF
  <1> SUFFICES ASSUME Init PROVE IInv
    OBVIOUS
  <1>1. /\ queue = <<>> /\ processing = FALSE /\ made = 0 /\ resets = 0
        /\ \A l \in Loops : ~Running(l) /\ ~Out(l)
    BY DEF Init, Running, Out, Idle
  <1>2. TypeOK
    <2>1. loops \in [Loops -> LoopStates] /\ outcome \in [Requests -> Outcomes]
      BY DEF Init, LoopStates, Outcomes
    <2>2. 0 \in 0 .. MaxRequests /\ 0 \in 0 .. MaxResets /\ Free \in Free .. MaxBlock
      BY RateAssumption DEF Free
    <2>3. QED
      BY <2>1, <2>2, NothingFacts DEF Init, TypeOK
  <1>3. Listed /\ Numbered /\ Once /\ InOrder
    BY <1>1, NothingFacts DEF Init, Listed, Numbered, Once, InOrder
  <1>4. QueueIsServed /\ OneLoop /\ Flagged
    BY <1>1 DEF QueueIsServed, OneLoop, Flagged
  <1>5. QED
    BY <1>2, <1>3, <1>4 DEF IInv

LEMMA NextIInv == IInv /\ [Next]_vars => IInv'
PROOF
  <1> SUFFICES ASSUME IInv, [Next]_vars PROVE IInv'
    OBVIOUS
  <1>1. CASE UNCHANGED vars
    BY <1>1, OthersIInv DEF vars, queueVars, blockVars, IInv, TypeOK
  <1>2. QED
    BY <1>1, QueueRequestIInv, WakeIInv, SettledIInv, RefusedIInv, ResetIInv, BlockIInv DEF Next

\* The strengthening is an invariant.
THEOREM Invariance == Spec => []IInv
  BY InitIInv, NextIInv, PTL DEF Spec

\* Every variable of the manager has its type.
THEOREM TypeCorrectness == Spec => []TypeOK
  BY Invariance, PTL DEF IInv

\* A queue that is not empty is never left without a loop, nor a flag set without one.
THEOREM ServedQueue == Spec => []QueueIsServed
  BY Invariance, PTL DEF IInv

\* Without resets the flag keeps a second loop from starting.
THEOREM SingleLoop == Spec => []OneLoop
  BY Invariance, PTL DEF IInv

\* Whatever is reset, refused and queued meanwhile, no request is out twice.
THEOREM OutOnce == Spec => []NoRequestTwice
PROOF
  <1>1. IInv => NoRequestTwice
    BY DEF IInv, Once, NoRequestTwice, Distinct, Elems, Out
  <1>2. QED
    BY Invariance, <1>1, PTL

\* Without resets requests go out in the order in which they were queued.
THEOREM OrderKept == Spec => []FirstComeFirstServed
PROOF
  <1>1. IInv => FirstComeFirstServed
    <2> SUFFICES ASSUME IInv, resets = 0, NEW l \in Loops, Out(l),
                        NEW r \in 1 .. loops[l].request - 1, outcome[r] = "queued"
                 PROVE  FALSE
      BY DEF FirstComeFirstServed, Out
    <2>1. loops[l].request \in Requests
      BY IInvKnown, LoopFacts DEF Out
    <2>2. r \in Requests /\ r < loops[l].request
      BY <2>1, RateAssumption DEF Requests
    <2>3. r \in Elems(queue)
      BY <2>2 DEF IInv, Listed
    <2>4. loops[l].request < r
      BY <2>3 DEF IInv, InOrder
    <2>5. QED
      BY <2>1, <2>2, <2>4 DEF Requests
  <1>2. QED
    BY Invariance, <1>1, PTL

-----------------------------------------------------------------------------
(* What becomes of a request: the outcome changes in two places only, where *)
(* a request goes out, which was queued, and where it is answered, which    *)
(* was out.                                                                 *)

Placed ==
    \A r \in Requests :
        /\ outcome[r] = "new" <=> r > made
        /\ outcome[r] = "out" <=> \E l \in Loops : Out(l) /\ loops[l].request = r

Answered == \A r \in Requests : outcome[r] \in Final => outcome'[r] = outcome[r]

\* What the outcomes have to be for loop l to go on, its own request apart.
Prepared(l, outcomes) ==
    \A r \in Requests :
        /\ outcomes[r] = "new" <=> r > made'
        /\ outcomes[r] = "out" <=> \E k \in Loops \ {l} : Out(k) /\ loops[k].request = r
        /\ outcome[r] \in Final => outcomes[r] = outcome[r]

\* Loop l sends the first request, waits or ends.
LEMMA PassPlaces ==
  ASSUME IInv, NEW l \in Loops, NEW waiting \in Seq(Requests), NEW outcomes, NEW delay \in 1 .. MaxDelay,
         outcomes \in [Requests -> Outcomes],
         \A r \in Elems(waiting) : outcomes[r] = "queued", Prepared(l, outcomes),
         \/ waiting = <<>> /\ Finish(l, outcomes)
         \/ waiting # <<>> /\ Iterate(l, waiting, delay, outcomes)
         \/ waiting # <<>> /\ Send(l, waiting, delay, outcomes)
  PROVE  Placed' /\ Answered
PROOF
  <1>1. DOMAIN loops = Loops
    BY DEF IInv, TypeOK
  <1>2. ASSUME NEW state, state.pc # "sending", loops' = [loops EXCEPT ![l] = state], outcome' = outcomes
        PROVE  Placed' /\ Answered
    <2>1. loops'[l] = state /\ \A k \in Loops \ {l} : loops'[k] = loops[k]
      BY <1>1, <1>2
    <2>2. QED
      BY <1>2, <2>1 DEF Prepared, Placed, Answered, Out
  <1>3. CASE waiting # <<>> /\ Send(l, waiting, delay, outcomes)
    <2> DEFINE r == Head(waiting)
    <2>1. r \in Requests /\ r \in Elems(waiting)
      BY <1>3, ShiftFacts
    <2>2. Sending(r, delay).pc = "sending" /\ Sending(r, delay).request = r
      BY <2>1, LoopTypes
    <2>3. loops' = [loops EXCEPT ![l] = Sending(r, delay)] /\ outcome' = [outcomes EXCEPT ![r] = "out"]
      BY <1>3 DEF Send
    <2>4. outcomes[r] = "queued"
      BY <2>1
    <2> HIDE DEF r
    <2>5. /\ Out(l)' /\ loops'[l].request = r
          /\ \A k \in Loops \ {l} : loops'[k] = loops[k]
      BY <1>1, <2>2, <2>3 DEF Out
    <2>6. \A p \in Requests : outcome'[p] = IF p = r THEN "out" ELSE outcomes[p]
      BY <2>3
    <2>7. \A p \in Requests : (\E k \in Loops : Out(k)' /\ loops'[k].request = p) <=>
              p = r \/ \E k \in Loops \ {l} : Out(k) /\ loops[k].request = p
      BY <2>5 DEF Out
    <2>8. outcome[r] \notin Final
      BY <2>1, <2>4 DEF Prepared, Final
    <2>9. Placed'
      BY <2>1, <2>4, <2>6, <2>7 DEF Prepared, Placed
    <2>10. Answered
      BY <2>6, <2>8 DEF Prepared, Answered
    <2>11. QED
      BY <2>9, <2>10
  <1>4. CASE Finish(l, outcomes)
    BY <1>2, <1>4 DEF Finish, Idle
  <1>5. CASE waiting # <<>> /\ Iterate(l, waiting, delay, outcomes)
    BY <1>2, <1>3, <1>5 DEF Iterate, Waiting
  <1>6. QED
    BY <1>3, <1>4, <1>5

\* A loop that had waited.
LEMMA WakePlaces ==
  ASSUME IInv, Placed, NEW l \in Loops, Wake(l)
  PROVE  Placed' /\ Answered
PROOF
  <1>1. /\ loops[l].pc = "waiting" /\ made' = made
        /\ IF queue = <<>> THEN Finish(l, outcome) ELSE Send(l, queue, loops[l].delay, outcome)
    BY DEF Wake
  <1>2. loops[l].delay \in 1 .. MaxDelay
    BY <1>1, IInvKnown, LoopFacts
  <1>3. Prepared(l, outcome)
    BY <1>1 DEF Placed, Prepared, Out
  <1>4. /\ queue \in Seq(Requests) /\ outcome \in [Requests -> Outcomes]
        /\ \A r \in Elems(queue) : r \in Requests
    BY LenProperties, ElementOfSeq DEF IInv, TypeOK, Elems
  <1>5. \A r \in Elems(queue) : outcome[r] = "queued"
    BY <1>4 DEF IInv, Listed
  <1>6. QED
    BY <1>1, <1>2, <1>3, <1>4, <1>5, PassPlaces

\* A loop whose request has been answered.
LEMMA SettlePlaces ==
  ASSUME IInv, Placed, NEW l \in Loops, Out(l), NEW result \in Outcomes \ {"new", "out"},
         NEW waiting \in Seq(Requests), NEW delay \in 1 .. MaxDelay,
         Elems(waiting) \subseteq Requests,
         \A r \in Elems(waiting) : IF r = loops[l].request THEN result = "queued"
                                                         ELSE outcome[r] = "queued",
         Settle(l, waiting, delay, result)
  PROVE  Placed' /\ Answered
PROOF
  <1> DEFINE req == loops[l].request
             outcomes == [outcome EXCEPT ![req] = result]
  <1>1. req \in Requests /\ outcome \in [Requests -> Outcomes] /\ made' = made
    BY IInvKnown, LoopFacts DEF Out, IInv, TypeOK, Settle
  <1>2. \A r \in Requests : outcomes[r] = IF r = req THEN result ELSE outcome[r]
    BY <1>1
  <1>3. outcome[req] = "out" /\ \A k \in Loops \ {l} : Out(k) => loops[k].request # req
    BY <1>1 DEF Placed, IInv, Once
  <1>4. outcomes \in [Requests -> Outcomes]
    BY <1>1
  <1>5. Resume(l, waiting, delay, outcomes)
    BY DEF Settle
  <1> HIDE DEF outcomes, req
  <1>6. ~ (req > made) /\ outcome[req] \notin Final
    BY <1>1, <1>3 DEF Placed, Final
  <1>7. Prepared(l, outcomes)
    <2> SUFFICES ASSUME NEW r \in Requests
                 PROVE  /\ outcomes[r] = "new" <=> r > made'
                        /\ outcomes[r] = "out" <=> \E k \in Loops \ {l} : Out(k) /\ loops[k].request = r
                        /\ outcome[r] \in Final => outcomes[r] = outcome[r]
      BY DEF Prepared
    <2>1. CASE r = req
      BY <1>1, <1>2, <1>3, <1>6, <2>1
    <2>2. CASE r # req
      BY <1>1, <1>2, <2>2 DEF Placed, req
    <2>3. QED
      BY <2>1, <2>2
  <1>8. \A r \in Elems(waiting) : outcomes[r] = "queued"
    BY <1>2 DEF req
  <1>9. QED
    BY <1>4, <1>5, <1>7, <1>8, PassPlaces DEF Resume

LEMMA AnswerPlaces ==
  ASSUME IInv, Placed, NEW l \in Loops, Succeeded(l) \/ Failed(l) \/ Refused(l)
  PROVE  Placed' /\ Answered
PROOF
  <1>1. Out(l) /\ loops[l].request \in Requests /\ loops[l].delay \in 1 .. MaxDelay
    BY IInvKnown, LoopFacts DEF Succeeded, Failed, Refused, Out
  <1>2. /\ queue \in Seq(Requests) /\ \A r \in Elems(queue) : r \in Requests
        /\ loops[l].request \notin Elems(queue)
    BY <1>1, LenProperties, ElementOfSeq DEF IInv, TypeOK, Elems, Once
  <1>3. \A r \in Elems(queue) : outcome[r] = "queued"
    BY <1>2 DEF IInv, Listed
  <1>4. CASE Succeeded(l) \/ Failed(l)
    <2>1. PICK result \in {"done", "failed"}, delay \in 1 .. MaxDelay : Settle(l, queue, delay, result)
      BY <1>1, <1>4, RateAssumption DEF Succeeded, Failed
    <2>2. result \in Outcomes \ {"new", "out"}
      BY DEF Outcomes
    <2>3. QED
      BY <1>1, <1>2, <1>3, <2>1, <2>2, SettlePlaces
  <1>5. CASE Refused(l)
    <2> DEFINE req == loops[l].request
               waiting == <<req>> \o queue
    <2>1. Doubled(loops[l].delay) \in 1 .. MaxDelay
      BY <1>1, RateAssumption DEF Doubled
    <2>2. waiting \in Seq(Requests) /\ Elems(waiting) = Elems(queue) \cup {req}
      BY <1>1, <1>2, UnshiftFacts
    <2>3. Settle(l, waiting, Doubled(loops[l].delay), "queued")
      BY <1>5 DEF Refused
    <2>4. "queued" \in Outcomes \ {"new", "out"}
      BY DEF Outcomes
    <2> HIDE DEF waiting
    <2>5. Elems(waiting) \subseteq Requests
      BY <1>1, <1>2, <2>2
    <2>6. \A r \in Elems(waiting) : IF r = req THEN "queued" = "queued" ELSE outcome[r] = "queued"
      BY <1>3, <2>2
    <2>7. QED
      BY <1>1, <2>1, <2>2, <2>3, <2>4, <2>5, <2>6, SettlePlaces
  <1>6. QED
    BY <1>4, <1>5

\* A new request.
LEMMA QueueRequestPlaces ==
  ASSUME IInv, Placed, QueueRequest
  PROVE  Placed' /\ Answered
PROOF
  <1> DEFINE new == made + 1
             waiting == Append(queue, new)
             outcomes == [outcome EXCEPT ![new] = "queued"]
  <1>1. /\ made < MaxRequests /\ made' = new
        /\ IF processing
           THEN queue' = waiting /\ outcome' = outcomes /\ UNCHANGED loops
           ELSE \E l \in Loops : ~Running(l) /\ Iterate(l, waiting, 1, outcomes)
    BY DEF QueueRequest, Enqueue
  <1>2. /\ made \in Nat /\ new \in Requests /\ new > made
        /\ \A r \in Requests : r > new <=> r > made /\ r # new
    BY <1>1, RateAssumption DEF IInv, TypeOK, Requests
  <1>3. /\ queue \in Seq(Requests) /\ outcome \in [Requests -> Outcomes]
        /\ \A r \in Elems(queue) : r \in Requests
    BY LenProperties, ElementOfSeq DEF IInv, TypeOK, Elems
  <1>4. waiting \in Seq(Requests) /\ waiting # <<>> /\ Elems(waiting) = Elems(queue) \cup {new}
    BY <1>2, <1>3, PushFacts
  <1>5. \A r \in Requests : outcomes[r] = IF r = new THEN "queued" ELSE outcome[r]
    BY <1>2, <1>3
  <1>6. outcomes \in [Requests -> Outcomes]
    BY <1>2, <1>3 DEF Outcomes
  <1>7. outcome[new] = "new"
    BY <1>2 DEF Placed
  <1> HIDE DEF new, waiting, outcomes
  <1>8. \A l \in Loops : ~Running(l) => Prepared(l, outcomes)
    <2> SUFFICES ASSUME NEW l \in Loops, ~Running(l), NEW r \in Requests
                 PROVE  /\ outcomes[r] = "new" <=> r > made'
                        /\ outcomes[r] = "out" <=> \E k \in Loops \ {l} : Out(k) /\ loops[k].request = r
                        /\ outcome[r] \in Final => outcomes[r] = outcome[r]
      BY DEF Prepared
    <2>1. ~Out(l)
      BY DEF Out, Running
    <2>2. CASE r = new
      BY <1>1, <1>2, <1>5, <1>7, <2>2 DEF Placed, Final
    <2>3. CASE r # new
      BY <1>1, <1>2, <1>5, <2>1, <2>3 DEF Placed
    <2>4. QED
      BY <2>2, <2>3
  <1>9. CASE processing
    <2>1. outcome' = outcomes /\ loops' = loops
      BY <1>1, <1>9
    <2>2. Answered
      BY <1>5, <1>7, <2>1 DEF Answered, Final
    <2>3. Placed'
      BY <1>1, <1>2, <1>5, <1>7, <2>1 DEF Placed, Out
    <2>4. QED
      BY <2>2, <2>3
  <1>10. CASE ~processing
    <2>1. \A r \in Elems(waiting) : outcomes[r] = "queued"
      BY <1>3, <1>4, <1>5, <1>2 DEF IInv, Listed
    <2>2. 1 \in 1 .. MaxDelay
      BY RateAssumption
    <2>3. QED
      BY <1>1, <1>4, <1>6, <1>8, <1>10, <2>1, <2>2, PassPlaces
  <1>11. QED
    BY <1>9, <1>10

\* Every step.
LEMMA NextPlaces ==
  ASSUME IInv, Placed, [Next]_vars
  PROVE  Placed' /\ Answered
PROOF
  <1>1. CASE UNCHANGED <<loops, outcome, made>>
    BY <1>1 DEF Placed, Answered, Out
  <1>2. CASE Reset
    <2>1. /\ loops' = loops /\ made' = made
          /\ outcome' = [r \in Requests |-> IF outcome[r] = "queued" THEN "discarded" ELSE outcome[r]]
      BY <1>2 DEF Reset
    <2>2. QED
      BY <2>1 DEF Placed, Answered, Out, Final
  <1>3. UNCHANGED vars => UNCHANGED <<loops, outcome, made>>
    BY DEF vars, queueVars
  <1>4. ProcessResponse \/ LimitPasses \/ Elapse => UNCHANGED <<loops, outcome, made>>
    BY DEF ProcessResponse, LimitPasses, Elapse, queueVars
  <1>5. \A e \in Endpoints : BlockEndpoint(e) \/ Unblock(e) \/ IsEndpointBlocked(e) =>
            UNCHANGED <<loops, outcome, made>>
    BY DEF BlockEndpoint, Unblock, IsEndpointBlocked, queueVars
  <1>6. QED
    BY <1>1, <1>2, <1>3, <1>4, <1>5, QueueRequestPlaces, WakePlaces, AnswerPlaces DEF Next

\* The bookkeeping of outcomes is right in every reachable state.
THEOREM RequestsArePlaced == Spec => []Placed
PROOF
  <1>1. Init => Placed
    BY RateAssumption DEF Init, Placed, Out, Idle, Requests
  <1>2. IInv /\ Placed /\ [Next]_vars => Placed'
    BY NextPlaces
  <1>3. QED
    BY <1>1, <1>2, Invariance, PTL DEF Spec

\* No request is forgotten: each is where its outcome says.
THEOREM NoneForgotten == Spec => []RequestsAreKept
PROOF
  <1>1. IInv /\ Placed => RequestsAreKept
    BY DEF IInv, Listed, Placed, RequestsAreKept, Elems, Out
  <1>2. QED
    BY <1>1, Invariance, RequestsArePlaced, PTL

\* What has been answered or discarded stays so.
THEOREM OutcomesAreFinal == Spec => AnsweredOnce
PROOF
  <1>1. IInv /\ Placed /\ [Next]_vars =>
          [\A r \in Requests : outcome[r] \in Final => outcome'[r] = outcome[r]]_vars
    BY NextPlaces DEF Answered
  <1>2. QED
    BY <1>1, Invariance, RequestsArePlaced, PTL DEF Spec, AnsweredOnce

-----------------------------------------------------------------------------
(* The blocks.                                                             *)

\* A block and its timer count down together, so that each block has one that ends it.
THEOREM BlocksAreTimed == Spec => []BlocksHaveTimers
PROOF
  <1>1. Init => BlocksHaveTimers
    BY DEF Init, BlocksHaveTimers
  <1>2. TypeOK /\ BlocksHaveTimers /\ [Next]_vars => BlocksHaveTimers'
    <2> SUFFICES ASSUME TypeOK, BlocksHaveTimers, [Next]_vars
                 PROVE  BlocksHaveTimers'
      OBVIOUS
    <2>1. /\ blocked \in [Endpoints -> Free .. MaxBlock]
          /\ timers \in [Endpoints -> SUBSET (0 .. MaxBlock)]
      BY DEF TypeOK
    <2>2. CASE Elapse
      <3>1. \A e \in Endpoints : blocked'[e] = Older(blocked[e])
                               /\ timers'[e] = {Older(t) : t \in timers[e]}
        BY <2>2 DEF Elapse
      <3>2. \A e \in Endpoints : Older(blocked[e]) # Free => blocked[e] # Free
        BY DEF Older, Free
      <3>3. QED
        BY <3>1, <3>2 DEF BlocksHaveTimers
    <2>3. ASSUME NEW e \in Endpoints, BlockEndpoint(e)
          PROVE  BlocksHaveTimers'
      <3>1. PICK d : /\ blocked' = [blocked EXCEPT ![e] = d]
                     /\ timers' = [timers EXCEPT ![e] = @ \cup {d}]
        BY <2>3 DEF BlockEndpoint
      <3>2. QED
        BY <2>1, <3>1 DEF BlocksHaveTimers
    <2>4. ASSUME NEW e \in Endpoints, Unblock(e)
          PROVE  BlocksHaveTimers'
      BY <2>1, <2>4 DEF Unblock, BlocksHaveTimers
    <2>5. ASSUME NEW e \in Endpoints, IsEndpointBlocked(e)
          PROVE  BlocksHaveTimers'
      BY <2>1, <2>5 DEF IsEndpointBlocked, BlocksHaveTimers
    <2>6. CASE Reset
      BY <2>6 DEF Reset, BlocksHaveTimers
    <2>7. CASE UNCHANGED <<blocked, timers>>
      BY <2>7 DEF BlocksHaveTimers
    <2>8. UNCHANGED vars \/ QueueRequest \/ ProcessResponse \/ LimitPasses => UNCHANGED <<blocked, timers>>
      BY DEF vars, QueueRequest, ProcessResponse, LimitPasses, blockVars
    <2>9. \A l \in Loops : Wake(l) \/ Succeeded(l) \/ Failed(l) \/ Refused(l) => UNCHANGED <<blocked, timers>>
      BY DEF Wake, Succeeded, Failed, Refused, Settle, blockVars
    <2>10. QED
      BY <2>2, <2>3, <2>4, <2>5, <2>6, <2>7, <2>8, <2>9 DEF Next
  <1>3. QED
    BY <1>1, <1>2, TypeCorrectness, PTL DEF Spec
=============================================================================
