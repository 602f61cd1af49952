--------------------------- MODULE MCMeshRouting ---------------------------
(***************************************************************************)
(* The mesh for model checking: the diamond of tests/nwk_best_route with a *)
(* router behind it, so that requests and replies are passed on too.       *)
(*                                                                         *)
(*               Far --- Mid --- Left ---- Dest                            *)
(*                           \-- Right --/                                 *)
(***************************************************************************)
EXTENDS MeshRouting

CONSTANTS Far, Mid, Left, Right, Dest

MCNeighbors == [n \in Routers |->
  CASE n = Far -> {Mid} [] n = Mid -> {Far, Left, Right} [] OTHER -> {Mid, Dest}]

\* Right hears Mid well; the other links are poor.
MCLqi == [l \in Routers \X Devices |-> IF l = <<Right, Mid>> THEN 255 ELSE 100]

\* Two ways to the destination, and a packet from behind them: Mid discovers the
\* destination itself while it passes on the request of Far.
Diamond ==
  [routes |-> 1, discs |-> 2, pends |-> 1, off |-> {},
   sends |-> {<<Far, Dest>>}, seeks |-> {<<Mid, Dest>>}, packets |-> 1, aging |-> {Mid}]

\* A line whose tables fill up: three discoveries meet in Mid, which has room for
\* one and for one waiting packet.
Crossing(packets, aging) ==
  [routes |-> 2, discs |-> 1, pends |-> 1, off |-> {Right},
   sends |-> {<<Mid, Dest>>}, seeks |-> {<<Far, Left>>, <<Left, Far>>},
   packets |-> packets, aging |-> aging]

MCCases == {Diamond, Crossing(2, {Mid}), Crossing(1, {Mid, Left})}
=============================================================================
