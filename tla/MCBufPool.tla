----------------------------- MODULE MCBufPool -----------------------------
(***************************************************************************)
(* Three buffers: the limit lets each half have one of them.               *)
(***************************************************************************)
EXTENDS BufPool
=============================================================================
