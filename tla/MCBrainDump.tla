----------------------------- MODULE MCBrainDump -----------------------------
(* BrainDump for TLC: the ideas are interchangeable.                        *)
EXTENDS BrainDump, TLC

Symmetry == Permutations(Ideas)
=============================================================================
