------------------------------- MODULE MCZdo -------------------------------
(* Instance of Zdo for TLC. *)
EXTENDS Zdo

Mix(times, clids, most) == [times |-> times, clids |-> clids, reqs |-> most]
MCMixes ==
  {Mix([request |-> 2], {"nwk_addr", "match_desc", "update"}, 6),
   Mix([request |-> 1], {"ieee_addr", "node_desc", "power_desc", "simple_desc", "active_ep", "lqi", "leave", "permit", "bind", "unbind", "edbind"}, 6),
   Mix([ssd |-> 2, notify |-> 1], {}, 6),
   Mix([disc |-> 1, annce |-> 2], {}, 6),
   Mix([bind |-> 4], {}, 6),
   Mix([bind |-> 1, data |-> 2], {}, 3),
   Mix([bind |-> 1, data |-> 1, update |-> 1], {}, 1),
   Mix([edbind |-> 4], {}, 4),
   Mix([leave |-> 2, leave_local |-> 1], {}, 6),
   Mix([permit |-> 3, leave |-> 1], {}, 6),
   Mix([update |-> 1, fails |-> 1], {}, 6),
   Mix([update |-> 1, update_other |-> 1], {}, 6),
   Mix([notify |-> 2, channel |-> 1, fails |-> 1], {}, 6),
   Mix([group |-> 4], {}, 6)}

Hole == [NeighborRecord("none", "none", "none") EXCEPT !.used = FALSE]
MCNbt == <<NeighborRecord("child", "s1", "child"), Hole, NeighborRecord("d2", "s2", "sibling")>>
MCDescs == <<SimpleDescriptor(2, 1, <<1, 2>>, <<3>>), SimpleDescriptor(1, 1, <<1>>, <<4>>), SimpleDescriptor(3, 1, <<1>>, <<>>)>>

MCBindReqs == {BindReqMsg("me", 1, 1, "long", "d1", 1), BindReqMsg("me", 1, 1, "long", "d2", 1), BindReqMsg("me", 1, 2, "long", "d1", 1),
               BindReqMsg("me", 1, 2, "group", "g1", 1), BindReqMsg("me", 1, 1, "other", "d1", 1)}
MCEdBindReqs == {EdBindReqMsg("d1", 1, 1, <<1, 2>>, <<3>>), EdBindReqMsg("d2", 1, 1, <<3>>, <<1, 2>>), EdBindReqMsg("d1", 0, 1, <<>>, <<>>),
                 EdBindReqMsg("d2", 1, 2, <<3>>, <<>>)}

MCDiscReqs ==
  {DescReqMsg(c, "me") : c \in {"node_desc", "power_desc", "active_ep", "unknown"}} \cup {DescReqMsg("active_ep", "d2")}
  \cup {SimpleDescReqMsg("me", ep) : ep \in {0, 2, 7}} \cup {SimpleDescReqMsg("d2", 1)}
  \cup {ServerDiscoveryMsg({m}) : m \in {"network_manager", "cache"}} \cup {LqiReqMsg(st, 2) : st \in {0, 3}}
  \cup {AddrReqMsg(c, d, ty, 0, u, 2) : c \in {"nwk_addr", "ieee_addr"}, d \in {"me", "d2", "d9"}, ty \in {"single", "other"}, u \in BOOLEAN}
  \cup {AddrReqMsg(c, "me", "ext", st, TRUE, 2) : c \in {"nwk_addr", "ieee_addr"}, st \in 0 .. 3}
  \cup {MatchDescReqMsg("me", 1, <<1>>, <<>>), MatchDescReqMsg("broadcast", 1, <<2>>, <<4>>), MatchDescReqMsg("me", 2, <<1>>, <<>>),
         MatchDescReqMsg("d2", 1, <<1>>, <<>>)}
MCDurations == {-1, 0, 1, 2}
MCAnnces == {[dev |-> d, short |-> s, direct |-> x, cap |-> [router |-> r, rxOn |-> TRUE]] :
              d \in {"child", "d5"}, s \in {"s1", "s7"}, x \in BOOLEAN, r \in BOOLEAN}
=============================================================================
