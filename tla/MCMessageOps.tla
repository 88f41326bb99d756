---------------------------- MODULE MCMessageOps ----------------------------
(* Small instances of MessageOps for TLC. *)
EXTENDS MessageOps, TLC

Symm == Permutations(Msgs) \cup Permutations(Ops)
=============================================================================
