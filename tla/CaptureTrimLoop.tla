--------------------------- MODULE CaptureTrimLoop ---------------------------
(***************************************************************************)
(* The trimming of pushCaptureForLater as the code runs it: two loops over *)
(* an array.  Its only purpose is to show that the closed form of module   *)
(* CaptureLimits, which CaptureQueue uses, computes the same queue in      *)
(* every state that CaptureQueue can reach.                                *)
(***************************************************************************)
EXTENDS CaptureQueue, Sequences, SequencesExt

\* A slip: splice(index, 1) with the -1 of a failed findIndex removes the last.
DropNewestIdea(q) ==
    LET others == {i \in DOMAIN q : ~IsIdea(q[i])}
    IN  RemoveAt(q, IF others = {} THEN Len(q) ELSE Min(others))

\* items.splice(index === -1 ? 0 : index, 1)
DropOldestEvictable(q) ==
    LET others == {i \in DOMAIN q : ~IsIdea(q[i])}
    IN  RemoveAt(q, IF others = {} THEN 1 ELSE Min(others))

\* captureQueue.items: a new capture is appended, with a greater id.
Arrays ==
    {q \in Seq(Entries(Nat, Nat)) : \A i, j \in DOMAIN q : i < j => q[i].id < q[j].id}

DropWhileTooLong[q \in Arrays] ==
    IF Len(q) > MaxItems THEN DropWhileTooLong[DropOldestEvictable(q)] ELSE q

DropWhileTooLarge[q \in Arrays] ==
    IF Bytes(ToSet(q)) > MaxBytes /\ Len(q) > 1
    THEN DropWhileTooLarge[DropOldestEvictable(q)]
    ELSE q

TrimLoop(q) == DropWhileTooLarge[DropWhileTooLong[q]]

-----------------------------------------------------------------------------
(* Properties *)

\* captureQueue.items, and what a push would append to it.
AsArray(S) ==
    [i \in 1 .. Cardinality(S) |->
        CHOOSE e \in S : Cardinality({o \in S : o.id < e.id}) = i - 1]

Pushed(s, kind, size) ==
    Append(AsArray(items[s]), [id |-> pushes + 1, kind |-> kind, size |-> size])

\* Whatever the queue has become and is pushed next, the two loops leave exactly
\* the entries that the closed form keeps, in their order of creation.
TrimMatchesLoop ==
    \A s \in Scopes, kind \in Kinds, size \in Sizes :
        LET all == Pushed(s, kind, size)
            left == TrimLoop(all)
        IN  left = AsArray(Trimmed(ToSet(all)))
=============================================================================
