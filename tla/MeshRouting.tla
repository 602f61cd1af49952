---------------------------- MODULE MeshRouting ----------------------------
(***************************************************************************)
(* Mesh routing of the NWK layer (nwk/nwk_cr_mesh_routing.c), with the     *)
(* parts of nwk/nwk_main.c that use it: choosing the next hop of a packet  *)
(* (nwk_calc_destination, zb_nwk_forward), dropping broadcasts that were   *)
(* seen (zb_mcps_data_indication) and handing commands to their handler    *)
(* (nwk_frame_indication).  Several routers exchange frames over links     *)
(* that delay and reorder them; a lost frame is one that stays on the air  *)
(* for ever.  The delayed allocation of buffers and the alarms are those   *)
(* of BufPool and Alarms, seen from outside: a request for a buffer is     *)
(* refused or granted some time later, and an alarm that is scheduled      *)
(* rings some time later.  Neighbor tables and link qualities do not       *)
(* change.  The counters of used entries always equal their number and     *)
(* are left out, and so are the confirms of NLME-ROUTE-DISCOVERY.          *)
(***************************************************************************)
EXTENDS Integers, SequencesExt

CONSTANTS Free,         \* an entry that is not used
          Routers,      \* devices that run this code
          Neighbors,    \* Neighbors[n]: the devices in n's neighbor table
          Lqi,          \* Lqi[n, m]: link quality n keeps for its neighbor m
          StaticCost,   \* ZB_NWK_STATIC_PATH_COST
          MaxCost,      \* 0xff, no reply yet
          MaxRadius,    \* twice the maximal depth
          DiscExpiry,   \* ZB_NWK_ROUTE_DISCOVERY_EXPIRY
          PendExpiry,   \* ZB_NWK_PENDING_ENTRY_EXPIRY
          MaxRreq,      \* bound: route requests a router originates
          Cases         \* builds of the program, with what their user does

Devices == Routers \cup UNION {Neighbors[n] : n \in Routers}

\* A case: the sizes of the tables (ZB_NWK_ROUTING_TABLE_SIZE,
\* ZB_NWK_ROUTE_DISCOVERY_TABLE_SIZE, ZB_NWK_PENDING_TABLE_SIZE), the routers
\* that are switched off, the pairs <<n, d>> of a router n with packets for d or
\* asked to discover a route to d, and two bounds: the packets sent, and the
\* routers whose discoveries expire within the run.
CaseType ==
  [routes : Nat \ {0}, discs : Nat \ {0}, pends : Nat \ {0}, off : SUBSET Routers,
   sends : SUBSET (Routers \X Devices), seeks : SUBSET (Routers \X Devices),
   packets : Nat, aging : SUBSET Routers]
NoHop == "none"
NoRequest == <<NoHop, 0>>

ASSUME MeshAssumption ==
  /\ \A n \in Routers : n \notin Neighbors[n]
  /\ \A n \in Routers, m \in Devices : m \in Neighbors[n] => Lqi[n, m] \in 0 .. 255
  /\ MaxRadius \in Nat \ {0}
  /\ {StaticCost, MaxCost, DiscExpiry, PendExpiry, MaxRreq} \subseteq Nat
  /\ Cases \subseteq CaseType

PacketIds == UNION {1 .. c.packets : c \in Cases}

Packets == [id : PacketIds, dst : Devices, radius : 1 .. MaxRadius]
Routes == [dest_addr : Devices, status : {"underway", "validation", "active"},
           next_hop_addr : Routers \cup {NoHop},
           by : (Routers \X (1 .. MaxRreq)) \cup {NoRequest}]
Discoveries ==
  [request_id : 1 .. MaxRreq, source_addr : Routers, sender_addr : Routers,
   dest_addr : Devices, forward_cost : Nat, residual_cost : Nat,
   expiration_time : 0 .. DiscExpiry, heard : SUBSET Routers]
Pendings == [packet : Packets, dest_addr : Devices, expiry : 0 .. PendExpiry,
             waiting_buf : BOOLEAN]

ASSUME FreeAssumption == Free \notin Routes \cup Discoveries \cup Pendings

VARIABLES routing_table,    \* routing_table[n]: slots of routes
          route_disc_table, \* slots of route discoveries
          pending_table,    \* slots of packets that wait for a route
          rreq_id,          \* last identifier of a route request of n's own
          btt,              \* broadcasts seen: <<source, rreq_id>>
          forward,          \* packets for which zb_nwk_forward is scheduled
          wanted,           \* granted some time: buffers for initiate_route_discovery
          disc_alarm,       \* zb_nwk_mesh_expiry_route_disc is scheduled
          report,           \* a buffer for nwk_route_disc_failed is waited for
          perepil,          \* history: routers where ZB_ASSERT(0) was reached
          drive,            \* the case of this run and the packets sent so far
          air               \* frames on the air

tables == <<routing_table, route_disc_table, pending_table>>
bufVars == <<wanted, disc_alarm, report, perepil>>
vars == <<tables, rreq_id, btt, forward, bufVars, drive, air>>

\* A route; by is history: the request whose reply the next hop is from.
Route(d, s, hop, by) ==
  [dest_addr |-> d, status |-> s, next_hop_addr |-> hop, by |-> by]
\* A request or a reply on the air; cost is its path_cost.
RreqFrame(n, m, src, id, d, cost, radius) ==
  [type |-> "rreq", from |-> n, to |-> m, source |-> src, rreq_id |-> id, dest |-> d,
   cost |-> cost, radius |-> radius]
RrepFrame(n, m, src, id, d, cost) ==
  [type |-> "rrep", from |-> n, to |-> m, source |-> src, rreq_id |-> id, dest |-> d,
   cost |-> cost]
DataFrame(n, m, p) == [type |-> "data", from |-> n, to |-> m, packet |-> p]

\* zb_nwk_init on zeroed globals.
Init ==
  /\ drive \in [case : Cases, sent : {0}]
  /\ routing_table = [n \in Routers |-> [i \in 1 .. drive.case.routes |-> Free]]
  /\ route_disc_table = [n \in Routers |-> [i \in 1 .. drive.case.discs |-> Free]]
  /\ pending_table = [n \in Routers |-> [i \in 1 .. drive.case.pends |-> Free]]
  /\ rreq_id = [n \in Routers |-> 0]
  /\ btt = [n \in Routers |-> {}]
  /\ forward = [n \in Routers |-> << >>]
  /\ wanted = [n \in Routers |-> 0]
  /\ disc_alarm = [n \in Routers |-> TRUE]
  /\ report = [n \in Routers |-> FALSE]
  /\ perepil = {}
  /\ air = {}

-----------------------------------------------------------------------------
\* The tables.

NoEnt == 0

\* NWK_ARRAY_FIND_ENT and NWK_ARRAY_GET_ENT: the first slot of those that match,
\* or that are free.
FirstEnt(slots) == IF slots = {} THEN NoEnt ELSE Min(slots)

FreeSlots(table) == {i \in DOMAIN table : table[i] = Free}
UsedSlots(table) == DOMAIN table \ FreeSlots(table)

RoutesTo(n, d) ==
  {i \in UsedSlots(routing_table[n]) : routing_table[n][i].dest_addr = d}

FindRoute(n, d) == FirstEnt(RoutesTo(n, d))

DiscoveriesOf(n, source, id) ==
  {i \in UsedSlots(route_disc_table[n]) :
     /\ route_disc_table[n][i].source_addr = source
     /\ route_disc_table[n][i].request_id = id}

DiscoveriesTo(n, d) ==
  {i \in UsedSlots(route_disc_table[n]) : route_disc_table[n][i].dest_addr = d}

\* The cost of a link from its quality, 7 to 1.
LinkCost(lqi) ==
  LET steps == IF lqi <= 32 THEN 0 ELSE (lqi - 1) \div 32
  IN  IF steps = 7 THEN 1 ELSE 7 - steps

\* NWK_CALC_PATH_COST.  addr is the NWK source of the frame, which for a request
\* is the originator and not the router it came from.
PathCost(n, addr) ==
  IF addr \in Neighbors[n] THEN LinkCost(Lqi[n, addr])
  ELSE IF addr = n THEN 0 ELSE StaticCost

-----------------------------------------------------------------------------
\* Route requests.

\* zb_nwk_mesh_send_rreq: a broadcast that every router in reach gets a copy of.
\* The copies for routers that have seen it would be dropped on arrival.
SendRreq(n, source, id, d, cost, radius) ==
  {RreqFrame(n, m, source, id, d, cost, radius) :
     m \in {m \in Neighbors[n] \cap Routers : <<source, id>> \notin btt[m]}}

\* zb_nwk_mesh_send_rrep: a command without route discovery, so it leaves only
\* for a neighbor.
SendRrep(n, to, source, id, d, cost) ==
  IF to \in Neighbors[n] THEN {RrepFrame(n, to, source, id, d, cost)} ELSE {}

\* The end of zb_nwk_mesh_rreq_handler: answer for oneself and for a neighbor,
\* pass on otherwise.
AnswerRreq(n, sender, source, id, d, cost, radius) ==
  IF d = n \/ d \in Neighbors[n]
    THEN SendRrep(n, sender, source, id, d, cost)
    ELSE SendRreq(n, source, id, d, cost, radius)

\* The entry a request opens or finds in the routing table.
OpenRoute(entry, d) ==
  IF entry = Free THEN Route(d, "underway", NoHop, NoRequest)
  ELSE IF entry.status \in {"active", "validation"} THEN entry
  ELSE [entry EXCEPT !.status = "underway"]

NewDiscovery(source, id, d, sender, cost) ==
  [request_id |-> id, source_addr |-> source, sender_addr |-> sender, dest_addr |-> d,
   forward_cost |-> cost, residual_cost |-> MaxCost, expiration_time |-> DiscExpiry,
   heard |-> {}]

\* zb_nwk_mesh_rreq_handler.  Without room for a discovery the routing entry is
\* freed, even one that was there before and is in use.
RreqHandler(n, sender, source, id, d, rcost, radius, others) ==
  LET cost == rcost + PathCost(n, source)
      r == IF RoutesTo(n, d) # {} THEN FindRoute(n, d)
           ELSE FirstEnt(FreeSlots(routing_table[n]))
      e == FirstEnt(DiscoveriesOf(n, source, id))
      new == FirstEnt(FreeSlots(route_disc_table[n]))
      opened == [routing_table EXCEPT ![n][r] = OpenRoute(@, d)]
  IN  \/ /\ r = NoEnt
         /\ air' = others
         /\ UNCHANGED <<routing_table, route_disc_table>>
      \/ /\ r # NoEnt /\ e # NoEnt
         /\ cost >= route_disc_table[n][e].forward_cost
         /\ air' = others
         /\ routing_table' = opened
         /\ UNCHANGED route_disc_table
      \/ /\ r # NoEnt /\ e # NoEnt
         /\ cost < route_disc_table[n][e].forward_cost
         /\ routing_table' = opened
         /\ route_disc_table' =
              [route_disc_table EXCEPT ![n][e].sender_addr = sender, ![n][e].forward_cost = cost]
         /\ air' = others \cup AnswerRreq(n, sender, source, id, d, cost, radius)
      \/ /\ r # NoEnt /\ e = NoEnt /\ new # NoEnt
         /\ routing_table' = opened
         /\ route_disc_table' =
              [route_disc_table EXCEPT ![n][new] = NewDiscovery(source, id, d, sender, cost)]
         /\ air' = others \cup AnswerRreq(n, sender, source, id, d, cost, radius)
      \/ /\ r # NoEnt /\ e = NoEnt /\ new = NoEnt
         /\ air' = others
         /\ routing_table' = [routing_table EXCEPT ![n][r] = Free]
         /\ UNCHANGED route_disc_table

\* zb_nwk_mesh_route_discovery with a buffer: the router handles a request of its
\* own.  Broadcasting it, zb_nwk_forward notes it as seen.  The sender read from
\* the buffer, which has no MAC header, is never used.
RouteDiscovery(n, d) ==
  /\ rreq_id[n] < MaxRreq
  /\ rreq_id' = [rreq_id EXCEPT ![n] = @ + 1]
  /\ btt' = [btt EXCEPT ![n] = @ \cup {<<n, rreq_id[n] + 1>>}]
  /\ RreqHandler(n, n, n, rreq_id[n] + 1, d, 0, MaxRadius, air)

\* zb_nlme_route_discovery_request for a device that is no neighbor.
RouteDiscoveryRequest(n, d) ==
  /\ <<n, d>> \in drive.case.seeks
  /\ d # n /\ d \notin Neighbors[n]
  /\ RouteDiscovery(n, d)
  /\ UNCHANGED <<pending_table, forward, bufVars, drive>>

\* zb_nwk_mesh_initiate_route_discovery: the buffer goes to the first packet that
\* is marked as waiting for one; without any the code asserts.
InitiateRouteDiscovery(n) ==
  LET p == FirstEnt({i \in UsedSlots(pending_table[n]) : pending_table[n][i].waiting_buf})
  IN  /\ wanted[n] > 0
      /\ wanted' = [wanted EXCEPT ![n] = @ - 1]
      /\ IF p # NoEnt
           THEN /\ RouteDiscovery(n, pending_table[n][p].dest_addr)
                /\ pending_table' = [pending_table EXCEPT ![n][p].waiting_buf = FALSE]
                /\ UNCHANGED perepil
           ELSE /\ perepil' = perepil \cup {n}
                /\ UNCHANGED <<tables, rreq_id, btt, air>>
      /\ UNCHANGED <<forward, disc_alarm, report, drive>>

\* A request arrives: without radius, or seen already, it is dropped; the one
\* that is handled has its radius decremented.
ReceiveRreq(f) ==
  /\ f.type = "rreq" /\ f.to \notin drive.case.off
  /\ LET n == f.to IN
     IF f.radius = 0 \/ <<f.source, f.rreq_id>> \in btt[n]
       THEN /\ air' = air \ {f}
            /\ UNCHANGED <<routing_table, route_disc_table, btt>>
       ELSE /\ btt' = [btt EXCEPT ![n] = @ \cup {<<f.source, f.rreq_id>>}]
            /\ RreqHandler(n, f.from, f.source, f.rreq_id, f.dest, f.cost, f.radius - 1,
                           air \ {f})
  /\ UNCHANGED <<pending_table, rreq_id, forward, bufVars, drive>>

-----------------------------------------------------------------------------
\* Route replies.

Waiting(n, d) ==
  {i \in UsedSlots(pending_table[n]) : pending_table[n][i].dest_addr = d}

\* The slots of a set in their order, from the first.
Slot(slots, k) == CHOOSE i \in slots : Cardinality({j \in slots : j < i}) = k - 1

\* Mutation: the packets are sent and stay in the table.
FlushPendingKeeps(n, d) ==
  /\ forward' = [forward EXCEPT ![n] =
                   @ \o [k \in 1 .. Cardinality(Waiting(n, d)) |->
                           pending_table[n][Slot(Waiting(n, d), k)].packet]]
  /\ UNCHANGED pending_table

\* The packets for d leave the pending table, in the order of its slots.
FlushPending(n, d) ==
  /\ forward' = [forward EXCEPT ![n] =
                   @ \o [k \in 1 .. Cardinality(Waiting(n, d)) |->
                           pending_table[n][Slot(Waiting(n, d), k)].packet]]
  /\ pending_table' = [pending_table EXCEPT ![n] =
                         [i \in DOMAIN @ |-> IF i \in Waiting(n, d) THEN Free ELSE @[i]]]

\* Mutation: a reply is taken whatever its cost.
UsefulAlways(n, e, r, cost) == e # NoEnt /\ r # NoEnt

\* The reply belongs to a discovery and a route and is not worse than the best.
Useful(n, e, r, cost) ==
  e # NoEnt /\ r # NoEnt /\ cost <= route_disc_table[n][e].residual_cost

\* A discovery that router m answered, with the best cost or with a worse one, and
\* a route whose next hop m became.
Heard(disc, m) == [disc EXCEPT !.heard = @ \cup {m}]
Better(disc, m, cost) ==
  [Heard(disc, m) EXCEPT !.residual_cost = cost, !.expiration_time = DiscExpiry]
Via(route, m, source, id) ==
  [route EXCEPT !.next_hop_addr = m, !.by = <<source, id>>,
                !.status = IF @ = "underway" THEN "validation" ELSE @]

\* zb_nwk_mesh_rrep_handler.  If only one of the two entries is there, it is
\* freed.
ReceiveRrep(f) ==
  LET n == f.to
      cost == f.cost + PathCost(n, f.from)
      e == FirstEnt(DiscoveriesOf(n, f.source, f.rreq_id))
      r == FindRoute(n, f.dest)
  IN  /\ f.type = "rrep"
      /\ IF Useful(n, e, r, cost)
           THEN /\ route_disc_table' =
                     [route_disc_table EXCEPT ![n][e] = Better(@, f.from, cost)]
                /\ routing_table' =
                     [routing_table EXCEPT ![n][r] = Via(@, f.from, f.source, f.rreq_id)]
                /\ IF f.source = n
                     THEN FlushPending(n, f.dest) /\ air' = air \ {f}
                     ELSE /\ air' = (air \ {f}) \cup
                                SendRrep(n, route_disc_table[n][e].sender_addr,
                                         f.source, f.rreq_id, f.dest, cost)
                          /\ UNCHANGED <<forward, pending_table>>
           ELSE /\ air' = air \ {f}
                /\ route_disc_table' =
                     IF e # NoEnt
                       THEN [route_disc_table EXCEPT
                               ![n][e] = IF r = NoEnt THEN Free
                                         ELSE Heard(@, f.from)]
                       ELSE route_disc_table
                /\ routing_table' =
                     IF r # NoEnt /\ e = NoEnt
                       THEN [routing_table EXCEPT ![n][r] = Free]
                       ELSE routing_table
                /\ UNCHANGED <<forward, pending_table>>
      /\ UNCHANGED <<rreq_id, btt, bufVars, drive>>

-----------------------------------------------------------------------------
\* Packets.

\* zb_nlde_data_request with route discovery allowed.
Send(n, d) ==
  /\ <<n, d>> \in drive.case.sends
  /\ drive.sent < drive.case.packets
  /\ drive' = [drive EXCEPT !.sent = @ + 1]
  /\ forward' = [forward EXCEPT ![n] =
                   Append(@, [id |-> drive.sent + 1, dst |-> d, radius |-> MaxRadius])]
  /\ UNCHANGED <<tables, rreq_id, btt, bufVars, air>>

\* zb_nwk_forward takes the next packet.
Taken(n) ==
  /\ forward[n] # << >>
  /\ forward' = [forward EXCEPT ![n] = Tail(@)]
  /\ UNCHANGED <<rreq_id, btt, disc_alarm, report, perepil, drive>>

\* The destination is a neighbor.
ForwardToNeighbor(n) ==
  /\ Taken(n)
  /\ LET p == Head(forward[n]) IN
       /\ p.dst \in Neighbors[n]
       /\ air' = air \cup {DataFrame(n, p.dst, p)}
  /\ UNCHANGED <<tables, wanted>>

HasRoute(n, d) ==
  /\ FindRoute(n, d) # NoEnt
  /\ routing_table[n][FindRoute(n, d)].status \in {"active", "validation"}

\* A known route is used, and is active from now on.
ForwardByRoute(n) ==
  /\ Taken(n)
  /\ LET p == Head(forward[n]) IN
       /\ p.dst \notin Neighbors[n]
       /\ HasRoute(n, p.dst)
       /\ routing_table' = [routing_table EXCEPT ![n][FindRoute(n, p.dst)].status = "active"]
       /\ air' = air \cup
                 {DataFrame(n, routing_table[n][FindRoute(n, p.dst)].next_hop_addr, p)}
  /\ UNCHANGED <<route_disc_table, pending_table, wanted>>

\* The route discovery that is under way is the router's own: the first entry
\* for the destination is looked at.
OwnUnderway(n, d) ==
  /\ FindRoute(n, d) # NoEnt
  /\ DiscoveriesTo(n, d) # {}
  /\ route_disc_table[n][FirstEnt(DiscoveriesTo(n, d))].source_addr = n

\* No route: the packet is added to the pending table and a buffer for a route
\* request is asked for, unless a discovery is under way; the request may find
\* no room in the buffer manager.
ForwardPend(n) ==
  /\ Taken(n)
  /\ LET p == Head(forward[n])
         slot == FirstEnt(FreeSlots(pending_table[n]))
     IN  /\ p.dst \notin Neighbors[n]
         /\ ~HasRoute(n, p.dst)
         /\ slot # NoEnt
         /\ pending_table' =
              [pending_table EXCEPT ![n][slot] =
                 [packet |-> p, dest_addr |-> p.dst, expiry |-> PendExpiry,
                  waiting_buf |-> TRUE]]
         /\ IF OwnUnderway(n, p.dst)
              THEN UNCHANGED wanted
              ELSE \E granted \in {0, 1} : wanted' = [wanted EXCEPT ![n] = @ + granted]
  /\ UNCHANGED <<routing_table, route_disc_table, air>>

\* No route and no room in the pending table: the packet is freed.
ForwardDrop(n) ==
  /\ Taken(n)
  /\ Head(forward[n]).dst \notin Neighbors[n]
  /\ ~HasRoute(n, Head(forward[n]).dst)
  /\ FreeSlots(pending_table[n]) = {}
  /\ UNCHANGED <<tables, wanted, air>>

\* A packet arrives: it is for this device, or its radius allows one more hop, or
\* it is dropped.
ReceiveData(f) ==
  /\ f.type = "data"
  /\ air' = air \ {f}
  /\ IF f.to \in Routers /\ f.packet.dst # f.to /\ f.packet.radius > 1
       THEN forward' = [forward EXCEPT ![f.to] =
                          Append(@, [f.packet EXCEPT !.radius = @ - 1])]
       ELSE UNCHANGED forward
  /\ UNCHANGED <<tables, rreq_id, btt, bufVars, drive>>

-----------------------------------------------------------------------------
\* Expiry.

Expired(n) ==
  {i \in UsedSlots(route_disc_table[n]) : route_disc_table[n][i].expiration_time = 0}

InactiveTo(n, d) ==
  {i \in RoutesTo(n, d) : routing_table[n][i].status # "active"}

Aged(entry) ==
  IF entry = Free \/ entry.expiration_time = 0 THEN Free
  ELSE [entry EXCEPT !.expiration_time = @ - 1]

\* zb_nwk_mesh_expiry_route_disc: the entries get older in slot order.  At the
\* first expired one whose route is not in use that route is freed too, the rest
\* of the table is left for the next time, and the alarm is scheduled again only
\* when a buffer comes to report the failure: never, if the request for it finds
\* no room.
ExpiryRouteDisc(n) ==
  LET stops == {i \in Expired(n) : InactiveTo(n, route_disc_table[n][i].dest_addr) # {}}
      stop == FirstEnt(stops)
      r == FirstEnt(InactiveTo(n, route_disc_table[n][stop].dest_addr))
  IN  /\ disc_alarm[n]
      /\ IF stops = {}
           THEN /\ route_disc_table' =
                     [route_disc_table EXCEPT ![n] = [i \in DOMAIN @ |-> Aged(@[i])]]
                /\ UNCHANGED <<routing_table, disc_alarm, report>>
           ELSE /\ route_disc_table' =
                     [route_disc_table EXCEPT ![n] =
                        [i \in DOMAIN @ |-> IF i <= stop THEN Aged(@[i]) ELSE @[i]]]
                /\ routing_table' = [routing_table EXCEPT ![n][r] = Free]
                /\ disc_alarm' = [disc_alarm EXCEPT ![n] = FALSE]
                /\ \E granted \in BOOLEAN : report' = [report EXCEPT ![n] = granted]
      /\ UNCHANGED <<pending_table, rreq_id, btt, forward, wanted, perepil, drive, air>>

\* nwk_route_disc_failed: the buffer has come, the failure is reported and the
\* alarm scheduled.
RouteDiscFailed(n) ==
  /\ report[n]
  /\ report' = [report EXCEPT ![n] = FALSE]
  /\ disc_alarm' = [disc_alarm EXCEPT ![n] = TRUE]
  /\ UNCHANGED <<tables, rreq_id, btt, forward, wanted, perepil, drive, air>>

\* Mutation: a packet whose buffer has not come is not expired.
AgedPacketWaits(entry) ==
  IF entry = Free THEN Free
  ELSE IF entry.expiry = 0 /\ ~entry.waiting_buf THEN Free
  ELSE IF entry.expiry = 0 THEN entry
  ELSE [entry EXCEPT !.expiry = @ - 1]

AgedPacket(entry) ==
  IF entry = Free \/ entry.expiry = 0 THEN Free
  ELSE [entry EXCEPT !.expiry = @ - 1]

\* zb_nwk_mesh_expiry_pending; its alarm is always scheduled again.
ExpiryPending(n) ==
  /\ pending_table' =
       [pending_table EXCEPT ![n] = [i \in DOMAIN @ |-> AgedPacket(@[i])]]
  /\ UNCHANGED <<routing_table, route_disc_table, rreq_id, btt, forward, bufVars, drive, air>>

-----------------------------------------------------------------------------
Next ==
  \/ \E n \in Routers, d \in Devices : RouteDiscoveryRequest(n, d)
  \/ \E n \in Routers, d \in Devices : Send(n, d)
  \/ \E n \in Routers : InitiateRouteDiscovery(n)
  \/ \E n \in Routers : ForwardToNeighbor(n)
  \/ \E n \in Routers : ForwardByRoute(n)
  \/ \E n \in Routers : ForwardPend(n)
  \/ \E n \in Routers : ForwardDrop(n)
  \/ \E f \in air : ReceiveRreq(f)
  \/ \E f \in air : ReceiveRrep(f)
  \/ \E f \in air : ReceiveData(f)
  \/ \E n \in drive.case.aging : ExpiryRouteDisc(n)
  \/ \E n \in Routers : RouteDiscFailed(n)
  \/ \E n \in Routers : ExpiryPending(n)

Spec == Init /\ [][Next]_vars

-----------------------------------------------------------------------------
Frames ==
  [type : {"rreq"}, from : Routers, to : Routers, source : Routers, rreq_id : 1 .. MaxRreq,
   dest : Devices, cost : Nat, radius : 0 .. MaxRadius]
  \cup [type : {"rrep"}, from : Routers, to : Routers, source : Routers,
        rreq_id : 1 .. MaxRreq, dest : Devices, cost : Nat]
  \cup [type : {"data"}, from : Routers, to : Devices, packet : Packets]

TypeOK ==
  /\ routing_table \in [Routers -> [1 .. drive.case.routes -> Routes \cup {Free}]]
  /\ route_disc_table \in [Routers -> [1 .. drive.case.discs -> Discoveries \cup {Free}]]
  /\ pending_table \in [Routers -> [1 .. drive.case.pends -> Pendings \cup {Free}]]
  /\ rreq_id \in [Routers -> 0 .. MaxRreq]
  /\ btt \in [Routers -> SUBSET (Routers \X (1 .. MaxRreq))]
  /\ forward \in [Routers -> Seq(Packets)]
  /\ wanted \in [Routers -> Nat]
  /\ disc_alarm \in [Routers -> BOOLEAN] /\ report \in [Routers -> BOOLEAN]
  /\ perepil \subseteq Routers
  /\ drive \in [case : Cases, sent : 0 .. drive.case.packets]
  /\ air \subseteq Frames

\* Every route that is not in use has a discovery behind it, whose expiry frees
\* it (nwk_cr_mesh_routing.c:752-771): no order of requests, replies, overflows
\* and expiries of several discoveries leaves a dead route behind.
RouteBacked ==
  \A n \in Routers : \A i \in UsedSlots(routing_table[n]) :
    routing_table[n][i].status # "active" =>
      DiscoveriesTo(n, routing_table[n][i].dest_addr) # {}

\* The cost that the reply of m, which knows the destination, brings to n.
ReplyCost(n, m, source, fcost) ==
  fcost + PathCost(m, source) + PathCost(n, m)

\* The routers that answer a request for d themselves.
Answers(m, d) == d = m \/ d \in Neighbors[m]

\* tests/nwk_best_route/readme.txt: the next hop is the best of the routers that
\* answered the request it comes from, the ones that answered too late for it
\* included, however requests, replies and overflows of several discoveries of
\* the destination mix.
BestRoute ==
  \A n \in Routers : \A i \in UsedSlots(routing_table[n]) :
    LET route == routing_table[n][i]
        d == route.dest_addr
    IN  \A e \in DiscoveriesOf(n, route.by[1], route.by[2]) :
          LET disc == route_disc_table[n][e]
              c(m) == ReplyCost(n, m, disc.source_addr, disc.forward_cost)
          IN  Answers(route.next_hop_addr, d) =>
                /\ route.next_hop_addr \in disc.heard
                /\ \A m \in disc.heard :
                     Answers(m, d) => c(route.next_hop_addr) <= c(m)

\* What the tables of every router promise together: they hold only what the
\* handlers put there, no dead route is left behind (nwk_cr_mesh_routing.c:752),
\* and the next hop is the best that replied (nwk_cr_mesh_routing.c:573).
TablesSound == TypeOK /\ RouteBacked /\ BestRoute

\* The places a packet is in.
Places(p) ==
  {<<"air", f, 0>> : f \in {f \in air : f.type = "data" /\ f.packet.id = p}}
  \cup (UNION {{<<"forward", n, k>> : k \in {k \in DOMAIN forward[n] : forward[n][k].id = p}}
                 : n \in Routers})
  \cup (UNION {{<<"pending", n, i>> :
                  i \in {i \in UsedSlots(pending_table[n]) : pending_table[n][i].packet.id = p}}
                 : n \in Routers})

\* A packet's buffer has one owner: the scheduled zb_nwk_forward, the pending
\* table or the frame on the air, whatever the replies and expiries race.
PacketOnce ==
  \A p \in PacketIds : Cardinality(Places(p)) <= 1

-----------------------------------------------------------------------------
\* Scheduled callbacks are called and alarms ring.  Requests and replies may be
\* lost; a lost packet has left the network as well as one that arrives.
Fairness ==
  /\ WF_vars(\E f \in air : ReceiveData(f))
  /\ WF_vars(\E n \in Routers :
                ForwardToNeighbor(n) \/ ForwardByRoute(n) \/ ForwardPend(n) \/ ForwardDrop(n))
  /\ WF_vars(\E n \in Routers : ExpiryPending(n))

LiveSpec == Spec /\ Fairness

\* No packet stays in the network for ever: it is delivered, lost or freed,
\* although routes come and go and packets go back to the pending table.
PacketLeaves ==
  \A p \in PacketIds : Places(p) # {} ~> Places(p) = {}
=============================================================================
