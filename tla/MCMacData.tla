----------------------------- MODULE MCMacData -----------------------------
(* Bounds for TLC: see the README. *)
EXTENDS MacData
=============================================================================
