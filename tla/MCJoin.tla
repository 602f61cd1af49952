------------------------------- MODULE MCJoin -------------------------------
(* Bounds for TLC: a coordinator and a router of one network on different  *)
(* channels.                                                               *)
EXTENDS Join
CONSTANTS zc, zr
MCPan == [n \in Node |-> "pan1"]
MCChan == [n \in Node |-> IF n = zc THEN 11 ELSE 12]
MCDepth == [n \in Node |-> IF n = zc THEN 0 ELSE 1]
MCLqi == [n \in Node |-> 255]
MCOffer == [n \in Node |-> IF n = zc THEN {{"permit", "ed"}} ELSE {{"permit", "router", "ed"}}]
=============================================================================
