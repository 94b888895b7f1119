---------------------------- MODULE CaptureLimits ----------------------------
(***************************************************************************)
(* What the limits of the offline capture queue keep, and what one flush   *)
(* takes (src/main/captureQueue.js).                                       *)
(*                                                                         *)
(* The queue is an array to which entries are only ever appended and from  *)
(* which they are only ever filtered out, so its order is the order in     *)
(* which the entries were created.  It is modelled as a set of entries     *)
(* whose id numbers them in that order.                                    *)
(***************************************************************************)
EXTENDS Integers, FiniteSets, FiniteSetsExt

CONSTANTS MaxItems,   \* AGENT_CAPTURE_QUEUE_MAX_ITEMS, 200 by default
          MaxBytes,   \* AGENT_CAPTURE_QUEUE_MAX_BYTES, in units of the smallest entry
          BatchSize   \* the 100 of items.slice(0, 100)

ASSUME LimitsAssumption ==
    /\ MaxItems \in Nat
    /\ MaxBytes \in Nat
    /\ BatchSize \in Nat \ {0}

\* CAPTURE_KIND_BRAIN_DUMP against every other kind of capture.
Kinds == {"idea", "activity"}

Entries(ids, sizes) == [id : ids, kind : Kinds, size : sizes]

IsIdea(e) == e.kind = "idea"

\* A slip: strict order of age, whatever the kind.
EvictedByAge(a, b) == a.id < b.id

\* dropOldestEvictable would take a before b: everything that is not an idea
\* goes first, and within one class the oldest goes first.
EvictedBefore(a, b) ==
    \/ ~IsIdea(a) /\ IsIdea(b)
    \/ (IsIdea(a) <=> IsIdea(b)) /\ a.id < b.id

Outlasting(S, e) == {o \in S : EvictedBefore(e, o)}

Bytes(S) == MapThenSumSet(LAMBDA e : e.size, S)

\* A slip: >= for >, the other way round.
WithinCountAndOne(S) == {e \in S : Cardinality(Outlasting(S, e)) <= MaxItems}

\* while (newItems.length > captureQueueMaxItems) dropOldestEvictable(newItems)
WithinCount(S) == {e \in S : Cardinality(Outlasting(S, e)) < MaxItems}

\* A slip: the entry that would overflow the limit is not counted.
WithinBytesAndOne(S) ==
    {e \in S : Bytes(Outlasting(S, e)) <= MaxBytes}

\* while (bytes > captureQueueMaxBytes && newItems.length > 1) ...
WithinBytes(S) ==
    {e \in S : \/ Outlasting(S, e) = {}
               \/ Bytes(Outlasting(S, e) \cup {e}) <= MaxBytes}

Trimmed(S) == WithinBytes(WithinCount(S))

\* captureQueue.items.slice(0, 100)
Snapshot(S) == {e \in S : Cardinality({o \in S : o.id < e.id}) < BatchSize}

Oldest(S) == CHOOSE e \in S : \A o \in S : e.id <= o.id
=============================================================================
