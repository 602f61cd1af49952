----------------------------- MODULE MCSecurity -----------------------------
(* The trust center, a router and an end device behind the router.         *)
EXTENDS Security

MCParent == [zr |-> "zc", ze |-> "zr"]

(* A mix: whether the network is up at the start, and how many of each     *)
(* stimulus may come.                                                      *)
Stimuli == {"loss", "dup", "join", "update", "switch", "data", "ask", "leave", "tick"}
Budget(some) == [k \in Stimuli |-> IF k \in DOMAIN some THEN some[k] ELSE 0]
AMix(up, allow, limit, some) == [up |-> up, allow |-> allow, limit |-> limit, n |-> Budget(some)]
MCMixes ==
  {AMix(FALSE, allow, 99, [join |-> 2, loss |-> l, dup |-> 1 - l, tick |-> 1]) : allow \in BOOLEAN, l \in 0 .. 1}
  \cup {AMix(TRUE, TRUE, 99, [update |-> 1, switch |-> 1, data |-> d, loss |-> 1 - d]) : d \in 0 .. 1}
  \cup {AMix(TRUE, TRUE, 99, [update |-> 1, switch |-> 2])}
  \cup {AMix(TRUE, allow, 99, [leave |-> 1, join |-> 1, ask |-> 1]) : allow \in BOOLEAN}
  \cup {AMix(TRUE, TRUE, 2, [data |-> 1, update |-> 1])}
  \cup {AMix(FALSE, TRUE, 99, [join |-> 1, update |-> 1, switch |-> 1])}
=============================================================================
