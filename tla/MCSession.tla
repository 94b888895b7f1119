------------------------------ MODULE MCSession ------------------------------
(* Session for TLC: the accounts are interchangeable.                       *)
EXTENDS Session, TLC

Symmetry == Permutations(Users)
=============================================================================
