---------------------------- MODULE MCApsRetrans ----------------------------
(* The APS retransmission table on small instances: a table of one entry,  *)
(* which two requests overfill, and a table of three, which has room to    *)
(* spare.  Which of them is drawn at the start.                            *)
EXTENDS ApsRetrans
=============================================================================
