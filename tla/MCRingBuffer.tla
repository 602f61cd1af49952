---- MODULE MCRingBuffer ----
(* A ring of three slots holding one of three values. *)
EXTENDS RingBuffer
====
