--------------------------- MODULE MCCaptureQueue ---------------------------
(* CaptureQueue for TLC: the flushers of a service are interchangeable, and *)
(* so are the accounts.  The loops the closed forms stand for come along.   *)
EXTENDS CaptureTrimLoop, TLC

Symmetry == Permutations(Flushers) \cup Permutations(Scopes)
=============================================================================
