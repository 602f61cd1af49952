---------------------------- MODULE MCChildTable ----------------------------
(* Bounds for TLC: see the README.  Devices are interchangeable. *)
EXTENDS ChildTable, TLC
DevSymmetry == Permutations(Dev)
=============================================================================
