-------------------------- MODULE MeshRoutingProofs --------------------------
(***************************************************************************)
(* Proofs about MeshRouting, for networks and tables of every size: what   *)
(* the tables hold, that every dead route has a discovery that will free   *)
(* it, that the next hop is the best router that answered, and that a      *)
(* packet has one owner.                                                   *)
(***************************************************************************)
EXTENDS MeshRouting, FiniteSetTheorems, SequenceTheorems, WellFoundedInduction, TLAPS

-----------------------------------------------------------------------------
\* The inductive invariant of the routing part.

Discs(n) == {route_disc_table[n][i] : i \in UsedSlots(route_disc_table[n])}
Control == {f \in air : f.type \in {"rreq", "rrep"}}

\* A route that is used has a next hop.
HopKnown ==
  \A n \in Routers : \A i \in UsedSlots(routing_table[n]) :
    routing_table[n][i].status # "underway" => routing_table[n][i].next_hop_addr \in Routers

\* A router has one route for a destination, and one discovery for a request.
RouteOnce ==
  \A n \in Routers : \A i, j \in UsedSlots(routing_table[n]) :
    routing_table[n][i].dest_addr = routing_table[n][j].dest_addr => i = j

DiscOnce ==
  \A n \in Routers : \A i, j \in UsedSlots(route_disc_table[n]) :
    /\ route_disc_table[n][i].source_addr = route_disc_table[n][j].source_addr
    /\ route_disc_table[n][i].request_id = route_disc_table[n][j].request_id
    => i = j

\* Whoever keeps, passes on or waits for something of a request has seen it, and
\* does not know its destination: the request would have ended there.
Passed(n, source, id, d) == <<source, id>> \in btt[n] /\ ~Answers(n, d)

SeenIds ==
  \A n \in Routers : \A q \in btt[n] : q[2] <= rreq_id[q[1]]

SeenDiscs ==
  \A n \in Routers : \A e \in Discs(n) :
    /\ <<e.source_addr, e.request_id>> \in btt[n]
    /\ e.source_addr = n \/ Passed(e.sender_addr, e.source_addr, e.request_id, e.dest_addr)

SeenRoutes ==
  \A n \in Routers : \A i \in UsedSlots(routing_table[n]) :
    routing_table[n][i].by = NoRequest \/ routing_table[n][i].by \in btt[n]

SeenFrames ==
  \A f \in Control : Passed(IF f.type = "rreq" THEN f.from ELSE f.to, f.source, f.rreq_id, f.dest)

\* A request has one destination, wherever it is met.
Requests ==
  {<<f.source, f.rreq_id, f.dest>> : f \in Control}
  \cup UNION {{<<e.source_addr, e.request_id, e.dest_addr>> : e \in Discs(n)} : n \in Routers}

OneDest == \A q, r \in Requests : q[1] = r[1] /\ q[2] = r[2] => q[3] = r[3]

\* The cost that n sent a request with, and every answer to it, are those of n's
\* discovery.
CostKept ==
  \A n \in Routers : \A e \in Discs(n), f \in Control :
    f.source = e.source_addr /\ f.rreq_id = e.request_id =>
      /\ f.type = "rreq" /\ f.from = n => f.cost = e.forward_cost
      /\ f.type = "rrep" /\ f.to = n /\ Answers(f.from, f.dest) =>
           f.cost = e.forward_cost + PathCost(f.from, f.source)

\* No answer a discovery has heard is better than the cost it keeps, and the
\* next hop brings exactly that cost.
BestReply ==
  \A n \in Routers : \A e \in Discs(n) : \A m \in e.heard :
    Answers(m, e.dest_addr) =>
      e.residual_cost <= ReplyCost(n, m, e.source_addr, e.forward_cost)

BestHop ==
  \A n \in Routers : \A i \in UsedSlots(routing_table[n]), e \in Discs(n) :
    routing_table[n][i].by = <<e.source_addr, e.request_id>> =>
      /\ e.dest_addr = routing_table[n][i].dest_addr
      /\ routing_table[n][i].next_hop_addr \in e.heard
      /\ Answers(routing_table[n][i].next_hop_addr, e.dest_addr) =>
           e.residual_cost =
             ReplyCost(n, routing_table[n][i].next_hop_addr, e.source_addr, e.forward_cost)

Seen == SeenIds /\ SeenDiscs /\ SeenRoutes /\ SeenFrames
Best == CostKept /\ BestReply /\ BestHop
TablesInv ==
  TypeOK /\ HopKnown /\ RouteOnce /\ DiscOnce /\ Seen /\ OneDest /\ RouteBacked /\ Best


-----------------------------------------------------------------------------
\* The operators of the model.

Below == {ss \in Nat \X Nat : ss[1] < ss[2]}

LEMMA BelowWellFounded == IsWellFoundedOn(Below, Nat)
BY NatLessThanWellFounded DEF OpToRel, Below

\* A set of natural numbers that is not empty has a least element.
LEMMA LeastElement ==
  ASSUME NEW S \in SUBSET Nat, S # {}
  PROVE  \E x \in S : \A y \in S : x <= y
<1>1. PICK x \in S : \A y \in S : ~(<<y, x>> \in Below)
  BY BelowWellFounded, WFMin
<1>2. \A y \in S : ~(y < x)
  BY <1>1 DEF Below
<1>. QED BY <1>2

\* FirstEnt finds the first slot of a set, if there is one.
LEMMA FirstEntIn ==
  ASSUME NEW S \in SUBSET (Nat \ {0})
  PROVE  /\ S = {} => FirstEnt(S) = NoEnt
         /\ S # {} => FirstEnt(S) \in S /\ FirstEnt(S) # NoEnt
         /\ \A y \in S : FirstEnt(S) <= y
<1>1. CASE S = {}
  BY <1>1 DEF FirstEnt, NoEnt
<1>2. CASE S # {}
  <2>1. S \in SUBSET Nat
    OBVIOUS
  <2>2. PICK x \in S : \A y \in S : x <= y
    BY <1>2, <2>1, LeastElement
  <2>3. Min(S) \in S /\ \A y \in S : Min(S) <= y
    BY <2>2, Zenon DEF Min
  <2>. QED BY <1>2, <2>3 DEF FirstEnt, NoEnt
<1>. QED BY <1>1, <1>2

\* The cost of a link is a natural number.
LEMMA LinkCostType ==
  ASSUME NEW q \in 0 .. 255
  PROVE  LinkCost(q) \in Nat
<1>1. q \in Int /\ 0 <= q /\ q <= 255
  OBVIOUS
<1>2. CASE q <= 32
  BY <1>1, <1>2 DEF LinkCost
<1>3. CASE q > 32
  <2>1. (q - 1) \div 32 \in 0 .. 7
    BY <1>1, <1>3
  <2>. QED BY <1>1, <1>3, <2>1 DEF LinkCost
<1>. QED BY <1>1, <1>2, <1>3

\* The cost of a path is a natural number.
LEMMA PathCostType ==
  ASSUME NEW n \in Routers, NEW a \in Routers
  PROVE  PathCost(n, a) \in Nat
<1>0. a \in Devices
  BY DEF Devices
<1>1. CASE a \in Neighbors[n]
  <2>1. PICK q \in 0 .. 255 : q = Lqi[n, a]
    BY <1>0, <1>1, MeshAssumption
  <2>2. LinkCost(q) \in Nat
    BY <2>1, LinkCostType
  <2>. QED BY <1>1, <2>1, <2>2 DEF PathCost
<1>2. CASE a \notin Neighbors[n]
  BY <1>2, MeshAssumption DEF PathCost
<1>. QED BY <1>1, <1>2

\* The sizes of the tables, and what their used slots hold.
LEMMA CaseTyped ==
  ASSUME TypeOK
  PROVE  /\ drive = [case |-> drive.case, sent |-> drive.sent]
         /\ drive.case \in Cases
         /\ drive.case.routes \in Nat \ {0}
         /\ drive.case.discs \in Nat \ {0}
         /\ drive.case.pends \in Nat \ {0}
         /\ drive.case.packets \in Nat
         /\ drive.case.aging \subseteq Routers
         /\ drive.sent \in 0 .. drive.case.packets
<1>1. drive.case \in CaseType
  BY MeshAssumption DEF TypeOK
<1>. QED BY <1>1 DEF TypeOK, CaseType

LEMMA RouteSlots ==
  ASSUME TypeOK, NEW n \in Routers
  PROVE  /\ DOMAIN routing_table[n] = 1 .. drive.case.routes
         /\ DOMAIN routing_table[n] \subseteq Nat \ {0}
         /\ \A i \in UsedSlots(routing_table[n]) :
              i \in DOMAIN routing_table[n] /\ routing_table[n][i] \in Routes
         /\ \A i \in FreeSlots(routing_table[n]) : i \in DOMAIN routing_table[n]
         /\ \A d : RoutesTo(n, d) \subseteq UsedSlots(routing_table[n])
<1>1. drive.case.routes \in Nat \ {0}
  BY CaseTyped
<1>2. routing_table[n] \in [1 .. drive.case.routes -> Routes \cup {Free}]
  BY DEF TypeOK
<1>3. DOMAIN routing_table[n] = 1 .. drive.case.routes
  BY <1>2
<1>4. DOMAIN routing_table[n] \subseteq Nat \ {0}
  <2>1. PICK k \in Nat : k = drive.case.routes
    BY <1>1
  <2>2. \A i \in 1 .. k : i \in Nat /\ i # 0
    BY <2>1
  <2>. QED BY <1>3, <2>1, <2>2
<1>5. /\ UsedSlots(routing_table[n]) \subseteq DOMAIN routing_table[n]
      /\ FreeSlots(routing_table[n]) \subseteq DOMAIN routing_table[n]
      /\ \A i \in UsedSlots(routing_table[n]) : routing_table[n][i] # Free
  BY DEF UsedSlots, FreeSlots
<1>6. \A i \in UsedSlots(routing_table[n]) : routing_table[n][i] \in Routes
  BY <1>2, <1>3, <1>5
<1>. QED BY <1>3, <1>4, <1>5, <1>6 DEF RoutesTo

LEMMA DiscSlots ==
  ASSUME TypeOK, NEW n \in Routers
  PROVE  /\ DOMAIN route_disc_table[n] = 1 .. drive.case.discs
         /\ DOMAIN route_disc_table[n] \subseteq Nat \ {0}
         /\ \A i \in UsedSlots(route_disc_table[n]) :
              i \in DOMAIN route_disc_table[n] /\ route_disc_table[n][i] \in Discoveries
         /\ \A i \in FreeSlots(route_disc_table[n]) : i \in DOMAIN route_disc_table[n]
         /\ \A d : DiscoveriesTo(n, d) \subseteq UsedSlots(route_disc_table[n])
         /\ \A s, id : DiscoveriesOf(n, s, id) \subseteq UsedSlots(route_disc_table[n])
<1>1. drive.case.discs \in Nat \ {0}
  BY CaseTyped
<1>2. route_disc_table[n] \in [1 .. drive.case.discs -> Discoveries \cup {Free}]
  BY DEF TypeOK
<1>3. DOMAIN route_disc_table[n] = 1 .. drive.case.discs
  BY <1>2
<1>4. DOMAIN route_disc_table[n] \subseteq Nat \ {0}
  <2>1. PICK k \in Nat : k = drive.case.discs
    BY <1>1
  <2>2. \A i \in 1 .. k : i \in Nat /\ i # 0
    BY <2>1
  <2>. QED BY <1>3, <2>1, <2>2
<1>5. /\ UsedSlots(route_disc_table[n]) \subseteq DOMAIN route_disc_table[n]
      /\ FreeSlots(route_disc_table[n]) \subseteq DOMAIN route_disc_table[n]
      /\ \A i \in UsedSlots(route_disc_table[n]) : route_disc_table[n][i] # Free
  BY DEF UsedSlots, FreeSlots
<1>6. \A i \in UsedSlots(route_disc_table[n]) : route_disc_table[n][i] \in Discoveries
  BY <1>2, <1>3, <1>5
<1>. QED BY <1>3, <1>4, <1>5, <1>6 DEF DiscoveriesTo, DiscoveriesOf

LEMMA PendSlots ==
  ASSUME TypeOK, NEW n \in Routers
  PROVE  /\ DOMAIN pending_table[n] = 1 .. drive.case.pends
         /\ DOMAIN pending_table[n] \subseteq Nat \ {0}
         /\ \A i \in UsedSlots(pending_table[n]) :
              i \in DOMAIN pending_table[n] /\ pending_table[n][i] \in Pendings
         /\ \A i \in FreeSlots(pending_table[n]) : i \in DOMAIN pending_table[n]
         /\ \A d : Waiting(n, d) \subseteq UsedSlots(pending_table[n])
<1>1. drive.case.pends \in Nat \ {0}
  BY CaseTyped
<1>2. pending_table[n] \in [1 .. drive.case.pends -> Pendings \cup {Free}]
  BY DEF TypeOK
<1>3. DOMAIN pending_table[n] = 1 .. drive.case.pends
  BY <1>2
<1>4. DOMAIN pending_table[n] \subseteq Nat \ {0}
  <2>1. PICK k \in Nat : k = drive.case.pends
    BY <1>1
  <2>2. \A i \in 1 .. k : i \in Nat /\ i # 0
    BY <2>1
  <2>. QED BY <1>3, <2>1, <2>2
<1>5. /\ UsedSlots(pending_table[n]) \subseteq DOMAIN pending_table[n]
      /\ FreeSlots(pending_table[n]) \subseteq DOMAIN pending_table[n]
      /\ \A i \in UsedSlots(pending_table[n]) : pending_table[n][i] # Free
  BY DEF UsedSlots, FreeSlots
<1>6. \A i \in UsedSlots(pending_table[n]) : pending_table[n][i] \in Pendings
  BY <1>2, <1>3, <1>5
<1>. QED BY <1>3, <1>4, <1>5, <1>6 DEF Waiting

\* The route and the discovery a handler looks up are of the kind it looks for.
LEMMA RouteFound ==
  ASSUME TypeOK, NEW n \in Routers, NEW d
  PROVE  /\ RoutesTo(n, d) = {} <=> FindRoute(n, d) = NoEnt
         /\ FindRoute(n, d) # NoEnt => FindRoute(n, d) \in RoutesTo(n, d)
<1>1. RoutesTo(n, d) \in SUBSET (Nat \ {0})
  BY RouteSlots
<1>. QED BY <1>1, FirstEntIn DEF FindRoute

LEMMA DiscFound ==
  ASSUME TypeOK, NEW n \in Routers, NEW s, NEW id
  PROVE  /\ DiscoveriesOf(n, s, id) = {} <=> FirstEnt(DiscoveriesOf(n, s, id)) = NoEnt
         /\ FirstEnt(DiscoveriesOf(n, s, id)) # NoEnt =>
              FirstEnt(DiscoveriesOf(n, s, id)) \in DiscoveriesOf(n, s, id)
<1>1. DiscoveriesOf(n, s, id) \in SUBSET (Nat \ {0})
  BY DiscSlots
<1>. QED BY <1>1, FirstEntIn

-----------------------------------------------------------------------------
\* What a handler does, in the states that are reached.

\* The slot r of the routing table is the route to d, or free if there is none.
Takes(n, r, d) ==
  /\ r \in DOMAIN routing_table[n]
  /\ RoutesTo(n, d) # {} => r \in RoutesTo(n, d)
  /\ RoutesTo(n, d) = {} => r \in FreeSlots(routing_table[n])

\* A request that is handled opens a discovery, or finds no room for it and frees
\* its route, or finds no room for the route.
Opens(n, sender, source, id, d, cost, radius, others) ==
  \E r, new :
    /\ Takes(n, r, d)
    /\ new \in FreeSlots(route_disc_table[n])
    /\ routing_table' = [routing_table EXCEPT ![n][r] = OpenRoute(@, d)]
    /\ route_disc_table' =
         [route_disc_table EXCEPT ![n][new] = NewDiscovery(source, id, d, sender, cost)]
    /\ air' = others \cup AnswerRreq(n, sender, source, id, d, cost, radius)

NoRoom(n, d, others) ==
  \E r : /\ Takes(n, r, d)
         /\ air' = others
         /\ routing_table' = [routing_table EXCEPT ![n][r] = Free]
         /\ UNCHANGED route_disc_table

NoRoute(others) ==
  air' = others /\ UNCHANGED <<routing_table, route_disc_table>>

\* A router has no discovery for a request it has not seen.
LEMMA Unseen ==
  ASSUME TypeOK, SeenDiscs, NEW n \in Routers, NEW s, NEW id, <<s, id>> \notin btt[n]
  PROVE  DiscoveriesOf(n, s, id) = {}
<1>1. SUFFICES ASSUME NEW i \in DiscoveriesOf(n, s, id) PROVE FALSE
  OBVIOUS
<1>2. /\ i \in UsedSlots(route_disc_table[n])
      /\ route_disc_table[n][i].source_addr = s
      /\ route_disc_table[n][i].request_id = id
  BY <1>1 DEF DiscoveriesOf
<1>3. route_disc_table[n][i] \in Discs(n)
  BY <1>2 DEF Discs
<1>. QED BY <1>2, <1>3 DEF SeenDiscs

LEMMA TakesSlot ==
  ASSUME TypeOK, NEW n \in Routers, NEW d, NEW r, r # NoEnt,
         r = IF RoutesTo(n, d) # {} THEN FindRoute(n, d)
             ELSE FirstEnt(FreeSlots(routing_table[n]))
  PROVE  Takes(n, r, d)
<1>1. FreeSlots(routing_table[n]) \in SUBSET (Nat \ {0})
  BY RouteSlots
<1>2. CASE RoutesTo(n, d) # {}
  <2>1. r \in RoutesTo(n, d)
    BY <1>2, RouteFound
  <2>2. r \in DOMAIN routing_table[n]
    BY <2>1, RouteSlots
  <2>. QED BY <1>2, <2>1, <2>2 DEF Takes
<1>3. CASE RoutesTo(n, d) = {}
  <2>1. r \in FreeSlots(routing_table[n])
    BY <1>1, <1>3, FirstEntIn
  <2>2. r \in DOMAIN routing_table[n]
    BY <2>1, RouteSlots
  <2>. QED BY <1>3, <2>1, <2>2 DEF Takes
<1>. QED BY <1>2, <1>3

LEMMA HandlerOutcome ==
  ASSUME TypeOK, SeenDiscs, NEW n \in Routers, NEW sender, NEW source, NEW id, NEW d,
         NEW rcost, NEW radius, NEW others, <<source, id>> \notin btt[n],
         RreqHandler(n, sender, source, id, d, rcost, radius, others)
  PROVE  \/ Opens(n, sender, source, id, d, rcost + PathCost(n, source), radius, others)
         \/ NoRoom(n, d, others)
         \/ NoRoute(others)
<1> DEFINE cost == rcost + PathCost(n, source)
           r == IF RoutesTo(n, d) # {} THEN FindRoute(n, d)
                ELSE FirstEnt(FreeSlots(routing_table[n]))
           e == FirstEnt(DiscoveriesOf(n, source, id))
           new == FirstEnt(FreeSlots(route_disc_table[n]))
<1>1. e = NoEnt
  BY Unseen, DiscFound
<1>2. \/ NoRoute(others)
      \/ /\ r # NoEnt /\ new # NoEnt
         /\ routing_table' = [routing_table EXCEPT ![n][r] = OpenRoute(@, d)]
         /\ route_disc_table' =
              [route_disc_table EXCEPT ![n][new] = NewDiscovery(source, id, d, sender, cost)]
         /\ air' = others \cup AnswerRreq(n, sender, source, id, d, cost, radius)
      \/ /\ r # NoEnt
         /\ air' = others
         /\ routing_table' = [routing_table EXCEPT ![n][r] = Free]
         /\ UNCHANGED route_disc_table
  BY <1>1, Zenon DEF RreqHandler, NoRoute
<1>3. r # NoEnt => Takes(n, r, d)
  <2>1. SUFFICES ASSUME r # NoEnt PROVE Takes(n, r, d)
    OBVIOUS
  <2>. QED BY <2>1, TakesSlot, Zenon
<1>4. new # NoEnt => new \in FreeSlots(route_disc_table[n])
  <2>1. FreeSlots(route_disc_table[n]) \in SUBSET (Nat \ {0})
    BY DiscSlots
  <2>. QED BY <2>1, FirstEntIn
<1>. HIDE DEF cost, r, e, new
<1>5. CASE NoRoute(others)
  BY <1>5
<1>6. CASE /\ r # NoEnt /\ new # NoEnt
           /\ routing_table' = [routing_table EXCEPT ![n][r] = OpenRoute(@, d)]
           /\ route_disc_table' =
                [route_disc_table EXCEPT ![n][new] = NewDiscovery(source, id, d, sender, cost)]
           /\ air' = others \cup AnswerRreq(n, sender, source, id, d, cost, radius)
  <2>1. Opens(n, sender, source, id, d, cost, radius, others)
    BY <1>3, <1>4, <1>6, Zenon DEF Opens
  <2>. QED BY <2>1 DEF cost
<1>7. CASE /\ r # NoEnt
           /\ air' = others
           /\ routing_table' = [routing_table EXCEPT ![n][r] = Free]
           /\ UNCHANGED route_disc_table
  BY <1>3, <1>7, Zenon DEF NoRoom
<1>. QED BY <1>2, <1>5, <1>6, <1>7

-----------------------------------------------------------------------------
\* The steps of the routing part.

\* A frame on the air by its type.
LEMMA FrameKinds ==
  ASSUME TypeOK, NEW f \in air
  PROVE  /\ f.type \in {"rreq", "rrep", "data"}
         /\ f.type = "rreq" =>
              /\ f.from \in Routers /\ f.to \in Routers /\ f.source \in Routers
              /\ f.rreq_id \in 1 .. MaxRreq /\ f.dest \in Devices /\ f.cost \in Nat
              /\ f.radius \in 0 .. MaxRadius
         /\ f.type = "rrep" =>
              /\ f.from \in Routers /\ f.to \in Routers /\ f.source \in Routers
              /\ f.rreq_id \in 1 .. MaxRreq /\ f.dest \in Devices /\ f.cost \in Nat
         /\ f.type = "data" =>
              /\ f.from \in Routers /\ f.to \in Devices /\ f.packet \in Packets
BY DEF TypeOK, Frames

LEMMA Bounds == /\ MaxRadius \in Nat \ {0} /\ StaticCost \in Nat /\ MaxCost \in Nat
                /\ DiscExpiry \in Nat /\ PendExpiry \in Nat /\ MaxRreq \in Nat
BY MeshAssumption

\* Handled once: router n meets a request for the first time, its own or one that
\* router sender passed on; others is what stays on the air.
Meets(n, sender, source, id, d, cost, radius, others) ==
  /\ n \in Routers /\ sender \in Routers /\ source \in Routers
  /\ id \in 1 .. MaxRreq /\ d \in Devices /\ cost \in Nat /\ radius \in 0 .. MaxRadius
  /\ others \subseteq air
  /\ <<source, id>> \notin btt[n]
  /\ btt' = [btt EXCEPT ![n] = @ \cup {<<source, id>>}]
  /\ \/ Passed(sender, source, id, d)
     \/ sender = n /\ source = n
  /\ \A e \in Discs(sender) :
       e.source_addr = source /\ e.request_id = id =>
         cost = e.forward_cost + PathCost(n, source)
  /\ \A q \in Requests : q[1] = source /\ q[2] = id => q[3] = d
  /\ rreq_id' \in [Routers -> 0 .. MaxRreq]
  /\ \A m \in Routers : rreq_id[m] <= rreq_id'[m]
  /\ id <= rreq_id'[source]
  /\ \/ Opens(n, sender, source, id, d, cost, radius, others)
     \/ NoRoom(n, d, others)
     \/ NoRoute(others)

\* The identifiers of the requests that are met were given out.
LEMMA RequestsGiven ==
  ASSUME TypeOK, Seen
  PROVE  \A q \in Requests : q[2] <= rreq_id[q[1]]
<1>1. SUFFICES ASSUME NEW q \in Requests PROVE q[2] <= rreq_id[q[1]]
  OBVIOUS
<1>2. CASE \E f \in Control : q = <<f.source, f.rreq_id, f.dest>>
  <2>1. PICK f \in Control : q = <<f.source, f.rreq_id, f.dest>>
    BY <1>2
  <2>2. f \in air /\ f.type \in {"rreq", "rrep"}
    BY DEF Control
  <2>3. PICK n \in Routers : <<f.source, f.rreq_id>> \in btt[n]
    BY <2>1, <2>2, FrameKinds DEF Seen, SeenFrames, Passed
  <2>. QED BY <2>1, <2>3 DEF Seen, SeenIds
<1>3. CASE \E n \in Routers : \E e \in Discs(n) : q = <<e.source_addr, e.request_id, e.dest_addr>>
  <2>1. PICK n \in Routers : \E e \in Discs(n) : q = <<e.source_addr, e.request_id, e.dest_addr>>
    BY <1>3
  <2>2. PICK e \in Discs(n) : q = <<e.source_addr, e.request_id, e.dest_addr>>
    BY <2>1
  <2>3. <<e.source_addr, e.request_id>> \in btt[n]
    BY <2>2 DEF Seen, SeenDiscs
  <2>. QED BY <2>2, <2>3 DEF Seen, SeenIds
<1>4. \/ \E f \in Control : q = <<f.source, f.rreq_id, f.dest>>
      \/ \E n \in Routers : \E e \in Discs(n) : q = <<e.source_addr, e.request_id, e.dest_addr>>
  BY DEF Requests
<1>. QED BY <1>2, <1>3, <1>4

LEMMA DiscOf ==
  ASSUME TypeOK, NEW n \in Routers, NEW e \in Discs(n)
  PROVE  e \in Discoveries /\ <<e.source_addr, e.request_id, e.dest_addr>> \in Requests
<1>1. PICK i \in UsedSlots(route_disc_table[n]) : e = route_disc_table[n][i]
  BY DEF Discs
<1>. QED BY <1>1, DiscSlots DEF Requests

LEMMA FrameRequest ==
  ASSUME NEW f \in Control
  PROVE  <<f.source, f.rreq_id, f.dest>> \in Requests
BY DEF Requests

\* A request of the router's own.
LEMMA OwnMeets ==
  ASSUME TypeOK, Seen, NEW n \in Routers, NEW d \in Devices, RouteDiscovery(n, d)
  PROVE  \E id, cost : Meets(n, n, n, id, d, cost, MaxRadius, air)
<1> DEFINE id == rreq_id[n] + 1
           cost == 0 + PathCost(n, n)
<1>1. /\ rreq_id \in [Routers -> 0 .. MaxRreq] /\ rreq_id[n] < MaxRreq
      /\ rreq_id' = [rreq_id EXCEPT ![n] = @ + 1]
      /\ btt' = [btt EXCEPT ![n] = @ \cup {<<n, id>>}]
      /\ RreqHandler(n, n, n, id, d, 0, MaxRadius, air)
  BY DEF RouteDiscovery, TypeOK
<1>2. id \in 1 .. MaxRreq /\ id > rreq_id[n]
  BY <1>1, Bounds
<1>3. <<n, id>> \notin btt[n]
  <2>1. \A q \in btt[n] : q[2] <= rreq_id[q[1]]
    BY DEF Seen, SeenIds
  <2>. QED BY <1>1, <1>2, <2>1
<1>4. cost \in Nat
  BY PathCostType
<1>5. /\ rreq_id' \in [Routers -> 0 .. MaxRreq]
      /\ \A m \in Routers : rreq_id[m] <= rreq_id'[m]
      /\ id <= rreq_id'[n]
  BY <1>1, <1>2
<1>6. \A q \in Requests : q[1] = n /\ q[2] = id => q[3] = d
  BY <1>1, <1>2, RequestsGiven
<1>7. \A e \in Discs(n) :
        e.source_addr = n /\ e.request_id = id => cost = e.forward_cost + PathCost(n, n)
  BY <1>3 DEF Seen, SeenDiscs
<1>8. MaxRadius \in 0 .. MaxRadius
  BY Bounds
<1>9. \/ Opens(n, n, n, id, d, cost, MaxRadius, air)
      \/ NoRoom(n, d, air)
      \/ NoRoute(air)
  <2>1. SeenDiscs
    BY DEF Seen
  <2>. HIDE DEF id
  <2>. QED BY <1>1, <1>3, <2>1, HandlerOutcome
<1>. HIDE DEF id, cost
<1>10. air \subseteq air
  OBVIOUS
<1>11. Meets(n, n, n, id, d, cost, MaxRadius, air)
  BY <1>1, <1>2, <1>3, <1>4, <1>5, <1>6, <1>7, <1>8, <1>9, <1>10, Zenon DEF Meets
<1>. QED BY <1>11, Zenon

\* A request that arrives is dropped, or met.
LEMMA FrameMeets ==
  ASSUME TypeOK, Seen, OneDest, CostKept, NEW f \in air, ReceiveRreq(f)
  PROVE  \/ /\ UNCHANGED <<routing_table, route_disc_table, btt, rreq_id>>
            /\ air' \subseteq air
         \/ \E n, sender, source, id, d, cost, radius :
              Meets(n, sender, source, id, d, cost, radius, air \ {f})
<1> DEFINE n == f.to
           cost == f.cost + PathCost(n, f.source)
<1>0. f.type = "rreq" /\ f \in Control
  BY DEF ReceiveRreq, Control
<1>1. /\ f.from \in Routers /\ n \in Routers /\ f.source \in Routers
      /\ f.rreq_id \in 1 .. MaxRreq /\ f.dest \in Devices /\ f.cost \in Nat
      /\ f.radius \in 0 .. MaxRadius
  BY <1>0, FrameKinds
<1>2. CASE f.radius = 0 \/ <<f.source, f.rreq_id>> \in btt[n]
  BY <1>2 DEF ReceiveRreq
<1>3. CASE ~(f.radius = 0 \/ <<f.source, f.rreq_id>> \in btt[n])
  <2>1. /\ btt' = [btt EXCEPT ![n] = @ \cup {<<f.source, f.rreq_id>>}]
        /\ RreqHandler(n, f.from, f.source, f.rreq_id, f.dest, f.cost, f.radius - 1, air \ {f})
        /\ rreq_id' = rreq_id
    BY <1>3 DEF ReceiveRreq
  <2>2. cost \in Nat /\ f.radius - 1 \in 0 .. MaxRadius
    BY <1>1, <1>3, PathCostType, Bounds
  <2>3. Passed(f.from, f.source, f.rreq_id, f.dest)
    BY <1>0, Zenon DEF Seen, SeenFrames
  <2>4. \A e \in Discs(f.from) :
          e.source_addr = f.source /\ e.request_id = f.rreq_id =>
            cost = e.forward_cost + PathCost(n, f.source)
    BY <1>0, <1>1 DEF CostKept
  <2>5. \A q \in Requests : q[1] = f.source /\ q[2] = f.rreq_id => q[3] = f.dest
    <3>1. <<f.source, f.rreq_id, f.dest>> \in Requests
      BY <1>0, FrameRequest
    <3>. QED BY <3>1 DEF OneDest
  <2>6. /\ rreq_id' \in [Routers -> 0 .. MaxRreq]
        /\ \A m \in Routers : rreq_id[m] <= rreq_id'[m]
        /\ f.rreq_id <= rreq_id'[f.source]
    <3>1. f.rreq_id <= rreq_id[f.source]
      BY <1>0, FrameRequest, RequestsGiven
    <3>2. rreq_id \in [Routers -> 0 .. MaxRreq]
      BY DEF TypeOK
    <3>. QED BY <2>1, <3>1, <3>2
  <2>7. \/ Opens(n, f.from, f.source, f.rreq_id, f.dest, cost, f.radius - 1, air \ {f})
        \/ NoRoom(n, f.dest, air \ {f})
        \/ NoRoute(air \ {f})
    <3>1. SeenDiscs
      BY DEF Seen
    <3>2. <<f.source, f.rreq_id>> \notin btt[n]
      BY <1>3
    <3>3. n \in Routers
      BY <1>1
    <3>. HIDE DEF n
    <3>. QED BY <2>1, <3>1, <3>2, <3>3, HandlerOutcome
  <2>8. air \ {f} \subseteq air
    OBVIOUS
  <2>9. <<f.source, f.rreq_id>> \notin btt[n]
    BY <1>3
  <2>. HIDE DEF n, cost
  <2>10. Meets(n, f.from, f.source, f.rreq_id, f.dest, cost, f.radius - 1, air \ {f})
    BY <1>1, <2>1, <2>2, <2>3, <2>4, <2>5, <2>6, <2>7, <2>8, <2>9, Zenon DEF Meets
  <2>. QED BY <2>10, Zenon
<1>. QED BY <1>2, <1>3

-----------------------------------------------------------------------------
\* What the steps do to the entries of the tables.

\* A route of the next state that is one of this state's, but for its status.
SameRoute(m, i) ==
  /\ i \in UsedSlots(routing_table[m])
  /\ routing_table'[m][i].dest_addr = routing_table[m][i].dest_addr
  /\ routing_table'[m][i].next_hop_addr = routing_table[m][i].next_hop_addr
  /\ routing_table'[m][i].by = routing_table[m][i].by

NewRoute(m, i, n, d) ==
  /\ m = n /\ RoutesTo(n, d) = {}
  /\ i \notin UsedSlots(routing_table[n])
  /\ routing_table'[n][i] = Route(d, "underway", NoHop, NoRequest)

MetRoutes(n, d, r) ==
  \A m \in Routers : \A i \in UsedSlots(routing_table[m])' :
    \/ SameRoute(m, i) /\ routing_table'[m][i].status = routing_table[m][i].status
    \/ NewRoute(m, i, n, d) /\ i = r

LEMMA OpenRouteType ==
  ASSUME NEW d \in Devices, NEW entry \in Routes \cup {Free},
         entry # Free => entry.dest_addr = d
  PROVE  /\ OpenRoute(entry, d) \in Routes
         /\ entry = Free => OpenRoute(entry, d) = Route(d, "underway", NoHop, NoRequest)
         /\ entry # Free =>
              /\ OpenRoute(entry, d).dest_addr = entry.dest_addr
              /\ OpenRoute(entry, d).next_hop_addr = entry.next_hop_addr
              /\ OpenRoute(entry, d).by = entry.by
              /\ OpenRoute(entry, d).status = entry.status
<1>1. Free \notin Routes
  BY FreeAssumption
<1>2. CASE entry = Free
  BY <1>2 DEF OpenRoute, Route, Routes
<1>3. CASE entry # Free /\ entry.status \in {"active", "validation"}
  BY <1>3 DEF OpenRoute
<1>4. CASE entry # Free /\ entry.status \notin {"active", "validation"}
  <2>1. entry \in Routes /\ entry.status = "underway"
    BY <1>4 DEF Routes
  <2>2. OpenRoute(entry, d) = [entry EXCEPT !.status = "underway"]
    BY <1>4 DEF OpenRoute
  <2>. QED BY <1>4, <2>1, <2>2 DEF Routes
<1>. QED BY <1>2, <1>3, <1>4

LEMMA NewDiscoveryType ==
  ASSUME NEW source \in Routers, NEW id \in 1 .. MaxRreq, NEW d \in Devices,
         NEW sender \in Routers, NEW cost \in Nat
  PROVE  NewDiscovery(source, id, d, sender, cost) \in Discoveries
BY Bounds DEF NewDiscovery, Discoveries

\* The slot of a route that is opened.
LEMMA TakenRoute ==
  ASSUME TypeOK, NEW n \in Routers, NEW d \in Devices, NEW r, Takes(n, r, d)
  PROVE  /\ r \in 1 .. drive.case.routes
         /\ routing_table[n][r] \in Routes \cup {Free}
         /\ routing_table[n][r] # Free =>
              /\ r \in UsedSlots(routing_table[n])
              /\ routing_table[n][r].dest_addr = d
         /\ routing_table[n][r] = Free => RoutesTo(n, d) = {}
<1>1. r \in 1 .. drive.case.routes
  BY RouteSlots DEF Takes
<1>2. routing_table[n][r] \in Routes \cup {Free}
  <2>1. routing_table \in [Routers -> [1 .. drive.case.routes -> Routes \cup {Free}]]
    BY DEF TypeOK
  <2>. QED BY <1>1, <2>1
<1>3. CASE RoutesTo(n, d) = {}
  BY <1>1, <1>2, <1>3 DEF Takes, FreeSlots
<1>4. CASE RoutesTo(n, d) # {}
  <2>1. r \in UsedSlots(routing_table[n]) /\ routing_table[n][r].dest_addr = d
    BY <1>4 DEF Takes, RoutesTo
  <2>2. routing_table[n][r] # Free
    BY <2>1 DEF UsedSlots, FreeSlots
  <2>. QED BY <1>1, <1>2, <1>4, <2>1, <2>2
<1>. QED BY <1>3, <1>4

LEMMA MeetsRoutes ==
  ASSUME TypeOK, NEW n, NEW sender, NEW source, NEW id, NEW d, NEW cost, NEW radius,
         NEW others, Meets(n, sender, source, id, d, cost, radius, others)
  PROVE  /\ routing_table' \in [Routers -> [1 .. drive.case.routes -> Routes \cup {Free}]]
         /\ \E r : MetRoutes(n, d, r)
<1>0. n \in Routers /\ d \in Devices
  BY DEF Meets
<1>1. routing_table \in [Routers -> [1 .. drive.case.routes -> Routes \cup {Free}]]
  BY DEF TypeOK
<1>2. CASE UNCHANGED routing_table
  BY <1>1, <1>2 DEF MetRoutes, SameRoute, UsedSlots, FreeSlots
<1>3. ASSUME NEW r, Takes(n, r, d), NEW x \in Routes \cup {Free},
             routing_table' = [routing_table EXCEPT ![n][r] = x],
             x = Free \/ x = OpenRoute(routing_table[n][r], d)
      PROVE  /\ routing_table' \in [Routers -> [1 .. drive.case.routes -> Routes \cup {Free}]]
             /\ MetRoutes(n, d, r)
  <2>1. r \in 1 .. drive.case.routes
    BY <1>0, <1>3, TakenRoute
  <2>2. routing_table' \in [Routers -> [1 .. drive.case.routes -> Routes \cup {Free}]]
    BY <1>0, <1>1, <1>3, <2>1
  <2>3. SUFFICES ASSUME NEW m \in Routers, NEW i \in UsedSlots(routing_table[m])'
                 PROVE  \/ SameRoute(m, i) /\ routing_table'[m][i].status = routing_table[m][i].status
                        \/ NewRoute(m, i, n, d) /\ i = r
    BY <2>2, Zenon DEF MetRoutes
  <2>4. i \in 1 .. drive.case.routes /\ routing_table'[m][i] # Free
    BY <2>2, <2>3 DEF UsedSlots, FreeSlots
  <2>5. CASE m # n \/ i # r
    <3>1. routing_table'[m][i] = routing_table[m][i]
      BY <1>0, <1>1, <1>3, <2>1, <2>4, <2>5
    <3>2. i \in UsedSlots(routing_table[m])
      BY <1>1, <2>4, <3>1 DEF UsedSlots, FreeSlots
    <3>. QED BY <3>1, <3>2 DEF SameRoute
  <2>6. CASE m = n /\ i = r
    <3>1. routing_table'[m][i] = x
      BY <1>0, <1>1, <1>3, <2>1, <2>6
    <3>2. x = OpenRoute(routing_table[n][r], d)
      BY <1>3, <2>4, <3>1
    <3>3. CASE routing_table[n][r] = Free
      <4>1. x = Route(d, "underway", NoHop, NoRequest) /\ RoutesTo(n, d) = {}
        BY <1>0, <1>3, <3>2, <3>3, TakenRoute, OpenRouteType
      <4>2. i \notin UsedSlots(routing_table[n])
        BY <2>1, <2>6, <3>3 DEF UsedSlots, FreeSlots
      <4>. QED BY <2>6, <3>1, <4>1, <4>2 DEF NewRoute
    <3>4. CASE routing_table[n][r] # Free
      <4>1. /\ r \in UsedSlots(routing_table[n])
            /\ routing_table[n][r].dest_addr = d
            /\ routing_table[n][r] \in Routes \cup {Free}
        BY <1>0, <1>3, <3>4, TakenRoute
      <4>2. /\ x.dest_addr = routing_table[n][r].dest_addr
            /\ x.next_hop_addr = routing_table[n][r].next_hop_addr
            /\ x.by = routing_table[n][r].by
            /\ x.status = routing_table[n][r].status
        BY <1>0, <3>2, <3>4, <4>1, OpenRouteType
      <4>. QED BY <2>6, <3>1, <4>1, <4>2 DEF SameRoute
    <3>. QED BY <3>3, <3>4
  <2>. QED BY <2>5, <2>6
<1>4. CASE NoRoute(others)
  BY <1>2, <1>4 DEF NoRoute
<1>5. CASE NoRoom(n, d, others)
  <2>1. PICK r : Takes(n, r, d) /\ routing_table' = [routing_table EXCEPT ![n][r] = Free]
    BY <1>5, Zenon DEF NoRoom
  <2>2. Free \in Routes \cup {Free}
    OBVIOUS
  <2>. QED BY <1>3, <2>1, <2>2, Zenon
<1>6. CASE Opens(n, sender, source, id, d, cost, radius, others)
  <2>1. PICK r : Takes(n, r, d) /\ routing_table' = [routing_table EXCEPT ![n][r] = OpenRoute(@, d)]
    BY <1>6, Zenon DEF Opens
  <2>2. OpenRoute(routing_table[n][r], d) \in Routes \cup {Free}
    <3>1. routing_table[n][r] \in Routes \cup {Free}
      BY <1>0, <2>1, TakenRoute
    <3>2. routing_table[n][r] # Free => routing_table[n][r].dest_addr = d
      BY <1>0, <2>1, TakenRoute
    <3>. QED BY <1>0, <3>1, <3>2, OpenRouteType
  <2>3. routing_table' = [routing_table EXCEPT ![n][r] = OpenRoute(routing_table[n][r], d)]
    BY <2>1
  <2>. QED BY <1>3, <2>1, <2>2, <2>3, Zenon
<1>. QED BY <1>4, <1>5, <1>6 DEF Meets

\* A discovery of the next state that is one of this state's.
SameDisc(m, i) ==
  /\ i \in UsedSlots(route_disc_table[m])
  /\ route_disc_table'[m][i] = route_disc_table[m][i]

LEMMA MeetsDiscs ==
  ASSUME TypeOK, NEW n, NEW sender, NEW source, NEW id, NEW d, NEW cost, NEW radius,
         NEW others, Meets(n, sender, source, id, d, cost, radius, others)
  PROVE  /\ route_disc_table' \in [Routers -> [1 .. drive.case.discs -> Discoveries \cup {Free}]]
         /\ \E new : \A m \in Routers : \A i \in UsedSlots(route_disc_table[m])' :
              \/ SameDisc(m, i)
              \/ /\ m = n /\ i = new
                 /\ route_disc_table'[m][i] = NewDiscovery(source, id, d, sender, cost)
<1>0. /\ n \in Routers /\ d \in Devices /\ sender \in Routers /\ source \in Routers
      /\ id \in 1 .. MaxRreq /\ cost \in Nat
  BY DEF Meets
<1>1. route_disc_table \in [Routers -> [1 .. drive.case.discs -> Discoveries \cup {Free}]]
  BY DEF TypeOK
<1>2. CASE UNCHANGED route_disc_table
  BY <1>1, <1>2 DEF SameDisc, UsedSlots, FreeSlots
<1>3. CASE Opens(n, sender, source, id, d, cost, radius, others)
  <2> DEFINE x == NewDiscovery(source, id, d, sender, cost)
  <2>1. PICK new \in FreeSlots(route_disc_table[n]) :
          route_disc_table' = [route_disc_table EXCEPT ![n][new] = x]
    BY <1>3, Zenon DEF Opens
  <2>2. x \in Discoveries
    BY <1>0, NewDiscoveryType
  <2>. HIDE DEF x
  <2>3. new \in 1 .. drive.case.discs
    BY <1>0, <2>1, DiscSlots
  <2>4. route_disc_table' \in [Routers -> [1 .. drive.case.discs -> Discoveries \cup {Free}]]
    BY <1>0, <1>1, <2>1, <2>2, <2>3
  <2>5. ASSUME NEW m \in Routers, NEW i \in UsedSlots(route_disc_table[m])'
        PROVE  SameDisc(m, i) \/ (m = n /\ i = new /\ route_disc_table'[m][i] = x)
    <3>1. i \in 1 .. drive.case.discs /\ route_disc_table'[m][i] # Free
      BY <2>4, <2>5 DEF UsedSlots, FreeSlots
    <3>2. CASE m # n \/ i # new
      <4>1. route_disc_table'[m][i] = route_disc_table[m][i]
        BY <1>0, <1>1, <2>1, <2>3, <3>1, <3>2
      <4>2. i \in UsedSlots(route_disc_table[m])
        BY <1>1, <3>1, <4>1 DEF UsedSlots, FreeSlots
      <4>. QED BY <4>1, <4>2 DEF SameDisc
    <3>3. CASE m = n /\ i = new
      BY <1>0, <1>1, <2>1, <2>3, <3>3
    <3>. QED BY <3>2, <3>3
  <2>6. \A m \in Routers : \A i \in UsedSlots(route_disc_table[m])' :
          SameDisc(m, i) \/ (m = n /\ i = new /\ route_disc_table'[m][i] = x)
    BY <2>5
  <2>. QED BY <2>4, <2>6 DEF x
<1>. QED BY <1>2, <1>3 DEF Meets, NoRoom, NoRoute

\* The frames a request that is met leaves behind: the old ones, the copies for
\* the neighbors, or one answer.
MetFrames(n, sender, source, id, d, cost, f) ==
  \/ f \in air
  \/ /\ f.type = "rreq" /\ f.from = n /\ f.source = source /\ f.rreq_id = id /\ f.dest = d
     /\ f.cost = cost /\ ~Answers(n, d)
  \/ /\ f.type = "rrep" /\ f.from = n /\ f.to = sender /\ f.source = source
     /\ f.rreq_id = id /\ f.dest = d /\ f.cost = cost /\ Answers(n, d) /\ sender \in Neighbors[n]

LEMMA AnswerType ==
  ASSUME NEW n \in Routers, NEW sender \in Routers, NEW source \in Routers,
         NEW id \in 1 .. MaxRreq, NEW d \in Devices, NEW cost \in Nat,
         NEW radius \in 0 .. MaxRadius,
         NEW f \in AnswerRreq(n, sender, source, id, d, cost, radius)
  PROVE  f \in Frames /\ MetFrames(n, sender, source, id, d, cost, f)
<1>1. CASE Answers(n, d)
  <2>1. f \in SendRrep(n, sender, source, id, d, cost)
    BY <1>1 DEF AnswerRreq, Answers
  <2>2. f = RrepFrame(n, sender, source, id, d, cost) /\ sender \in Neighbors[n]
    BY <2>1 DEF SendRrep
  <2>3. f = [type |-> "rrep", from |-> n, to |-> sender, source |-> source,
             rreq_id |-> id, dest |-> d, cost |-> cost]
    BY <2>2 DEF RrepFrame
  <2>4. f \in Frames
    BY <2>3 DEF Frames
  <2>. QED BY <1>1, <2>2, <2>3, <2>4 DEF MetFrames
<1>2. CASE ~Answers(n, d)
  <2>1. f \in SendRreq(n, source, id, d, cost, radius)
    BY <1>2 DEF AnswerRreq, Answers
  <2>2. PICK m \in Neighbors[n] \cap Routers : f = RreqFrame(n, m, source, id, d, cost, radius)
    BY <2>1 DEF SendRreq
  <2>3. f = [type |-> "rreq", from |-> n, to |-> m, source |-> source,
             rreq_id |-> id, dest |-> d, cost |-> cost, radius |-> radius]
    BY <2>2 DEF RreqFrame
  <2>4. f \in Frames
    BY <2>3 DEF Frames
  <2>. QED BY <1>2, <2>3, <2>4 DEF MetFrames
<1>. QED BY <1>1, <1>2

LEMMA MeetsFrames ==
  ASSUME TypeOK, NEW n, NEW sender, NEW source, NEW id, NEW d, NEW cost, NEW radius,
         NEW others, Meets(n, sender, source, id, d, cost, radius, others)
  PROVE  /\ air' \subseteq Frames
         /\ \A f \in air' : MetFrames(n, sender, source, id, d, cost, f)
<1>0. /\ n \in Routers /\ d \in Devices /\ sender \in Routers /\ source \in Routers
      /\ id \in 1 .. MaxRreq /\ cost \in Nat /\ radius \in 0 .. MaxRadius
      /\ others \subseteq air /\ air \subseteq Frames
  BY DEF Meets, TypeOK
<1>1. CASE air' = others
  BY <1>0, <1>1 DEF MetFrames
<1>2. CASE air' = others \cup AnswerRreq(n, sender, source, id, d, cost, radius)
  <2>1. SUFFICES ASSUME NEW f \in air'
                 PROVE  f \in Frames /\ MetFrames(n, sender, source, id, d, cost, f)
    OBVIOUS
  <2>2. CASE f \in others
    BY <1>0, <2>2 DEF MetFrames
  <2>3. CASE f \in AnswerRreq(n, sender, source, id, d, cost, radius)
    BY <1>0, <2>3, AnswerType
  <2>. QED BY <1>2, <2>1, <2>2, <2>3
<1>. QED BY <1>1, <1>2, Zenon DEF Meets, Opens, NoRoom, NoRoute

-----------------------------------------------------------------------------
\* A request that is met preserves the invariant.

LEMMA MeetsKeepsRoutes ==
  ASSUME TablesInv, NEW n, NEW sender, NEW source, NEW id, NEW d, NEW cost, NEW radius,
         NEW others, Meets(n, sender, source, id, d, cost, radius, others)
  PROVE  HopKnown' /\ RouteOnce' /\ SeenRoutes'
<1>0. TypeOK /\ n \in Routers /\ d \in Devices
  BY DEF Meets, TablesInv
<1>a. PICK r : MetRoutes(n, d, r)
  BY <1>0, MeetsRoutes, Zenon
<1>1. \A m \in Routers : \A i \in UsedSlots(routing_table[m])' :
        \/ SameRoute(m, i) /\ routing_table'[m][i].status = routing_table[m][i].status
        \/ NewRoute(m, i, n, d) /\ i = r
  BY <1>a DEF MetRoutes
<1>2. HopKnown'
  <2>1. SUFFICES ASSUME NEW m \in Routers, NEW i \in UsedSlots(routing_table[m])',
                        routing_table'[m][i].status # "underway"
                 PROVE  routing_table'[m][i].next_hop_addr \in Routers
    BY DEF HopKnown
  <2>2. CASE SameRoute(m, i) /\ routing_table'[m][i].status = routing_table[m][i].status
    BY <2>1, <2>2 DEF SameRoute, TablesInv, HopKnown
  <2>3. CASE NewRoute(m, i, n, d)
    BY <2>1, <2>3 DEF NewRoute, Route
  <2>. QED BY <1>1, <2>2, <2>3
<1>3. RouteOnce'
  <2>1. SUFFICES ASSUME NEW m \in Routers, NEW i \in UsedSlots(routing_table[m])',
                        NEW j \in UsedSlots(routing_table[m])',
                        routing_table'[m][i].dest_addr = routing_table'[m][j].dest_addr
                 PROVE  i = j
    BY DEF RouteOnce
  <2>2. ASSUME NEW k \in UsedSlots(routing_table[m])', NewRoute(m, k, n, d)
        PROVE  /\ m = n /\ k = r /\ routing_table'[m][k].dest_addr = d
               /\ \A l \in UsedSlots(routing_table[m]) : routing_table[m][l].dest_addr # d
    <3>1. m = n /\ routing_table'[n][k].dest_addr = d /\ RoutesTo(n, d) = {}
      BY <2>2 DEF NewRoute, Route
    <3>2. k \notin UsedSlots(routing_table[m])
      BY <2>2 DEF NewRoute
    <3>3. k = r
      BY <1>1, <3>2 DEF SameRoute
    <3>. QED BY <3>1, <3>3 DEF RoutesTo
  <2>3. CASE SameRoute(m, i) /\ SameRoute(m, j)
    BY <2>1, <2>3 DEF SameRoute, TablesInv, RouteOnce
  <2>4. CASE SameRoute(m, i) /\ NewRoute(m, j, n, d)
    BY <2>1, <2>2, <2>4 DEF SameRoute
  <2>5. CASE NewRoute(m, i, n, d) /\ SameRoute(m, j)
    BY <2>1, <2>2, <2>5 DEF SameRoute
  <2>6. CASE NewRoute(m, i, n, d) /\ NewRoute(m, j, n, d)
    BY <2>2, <2>6
  <2>. QED BY <1>1, <2>3, <2>4, <2>5, <2>6
<1>4. SeenRoutes'
  <2>1. SUFFICES ASSUME NEW m \in Routers, NEW i \in UsedSlots(routing_table[m])'
                 PROVE  routing_table'[m][i].by = NoRequest \/ routing_table'[m][i].by \in btt'[m]
    BY DEF SeenRoutes
  <2>2. CASE NewRoute(m, i, n, d)
    BY <2>2 DEF NewRoute, Route
  <2>3. CASE SameRoute(m, i)
    <3>1. routing_table[m][i].by = NoRequest \/ routing_table[m][i].by \in btt[m]
      BY <2>3 DEF SameRoute, TablesInv, Seen, SeenRoutes
    <3>2. btt[m] \subseteq btt'[m]
      BY <1>0 DEF Meets, TypeOK
    <3>. QED BY <2>3, <3>1, <3>2 DEF SameRoute
  <2>. QED BY <1>1, <2>2, <2>3
<1>. QED BY <1>2, <1>3, <1>4

\* The discoveries after a request was met, as a set.
LEMMA MeetsDiscSet ==
  ASSUME TypeOK, NEW n, NEW sender, NEW source, NEW id, NEW d, NEW cost, NEW radius,
         NEW others, Meets(n, sender, source, id, d, cost, radius, others),
         NEW m \in Routers, NEW e \in Discs(m)'
  PROVE  e \in Discs(m) \/ (m = n /\ e = NewDiscovery(source, id, d, sender, cost))
<1>1. PICK i \in UsedSlots(route_disc_table[m])' : e = route_disc_table'[m][i]
  BY DEF Discs
<1>2. \/ SameDisc(m, i)
      \/ m = n /\ route_disc_table'[m][i] = NewDiscovery(source, id, d, sender, cost)
  BY <1>1, MeetsDiscs
<1>. QED BY <1>1, <1>2 DEF SameDisc, Discs

LEMMA MeetsKeepsDiscs ==
  ASSUME TablesInv, NEW n, NEW sender, NEW source, NEW id, NEW d, NEW cost, NEW radius,
         NEW others, Meets(n, sender, source, id, d, cost, radius, others)
  PROVE  DiscOnce'
<1>0. TypeOK /\ n \in Routers
  BY DEF Meets, TablesInv
<1>1. PICK new : \A m \in Routers : \A i \in UsedSlots(route_disc_table[m])' :
              \/ SameDisc(m, i)
              \/ /\ m = n /\ i = new
                 /\ route_disc_table'[m][i] = NewDiscovery(source, id, d, sender, cost)
  BY <1>0, MeetsDiscs
<1>2. SUFFICES ASSUME NEW m \in Routers, NEW i \in UsedSlots(route_disc_table[m])',
                      NEW j \in UsedSlots(route_disc_table[m])',
                      route_disc_table'[m][i].source_addr = route_disc_table'[m][j].source_addr,
                      route_disc_table'[m][i].request_id = route_disc_table'[m][j].request_id
               PROVE  i = j
  BY DEF DiscOnce
<1>3. ASSUME NEW k, SameDisc(n, k),
             route_disc_table'[n][k].source_addr = source,
             route_disc_table'[n][k].request_id = id
      PROVE  FALSE
  <2>1. route_disc_table[n][k] \in Discs(n)
    BY <1>3 DEF SameDisc, Discs
  <2>2. <<source, id>> \in btt[n]
    BY <1>0, <1>3, <2>1 DEF SameDisc, TablesInv, Seen, SeenDiscs
  <2>. QED BY <2>2 DEF Meets
<1>4. /\ NewDiscovery(source, id, d, sender, cost).source_addr = source
      /\ NewDiscovery(source, id, d, sender, cost).request_id = id
  BY DEF NewDiscovery
<1>5. CASE SameDisc(m, i) /\ SameDisc(m, j)
  BY <1>2, <1>5 DEF SameDisc, TablesInv, DiscOnce
<1>6. CASE ~SameDisc(m, i) /\ SameDisc(m, j)
  BY <1>1, <1>2, <1>3, <1>4, <1>6
<1>7. CASE SameDisc(m, i) /\ ~SameDisc(m, j)
  BY <1>1, <1>2, <1>3, <1>4, <1>7
<1>8. CASE ~SameDisc(m, i) /\ ~SameDisc(m, j)
  BY <1>1, <1>8
<1>. QED BY <1>5, <1>6, <1>7, <1>8

LEMMA MeetsKeepsSeen ==
  ASSUME TablesInv, NEW n, NEW sender, NEW source, NEW id, NEW d, NEW cost, NEW radius,
         NEW others, Meets(n, sender, source, id, d, cost, radius, others)
  PROVE  Seen' /\ btt' \in [Routers -> SUBSET (Routers \X (1 .. MaxRreq))]
<1>0. /\ TypeOK /\ n \in Routers /\ sender \in Routers /\ source \in Routers
      /\ id \in 1 .. MaxRreq
  BY DEF Meets, TablesInv
<1>1. btt \in [Routers -> SUBSET (Routers \X (1 .. MaxRreq))]
  BY <1>0 DEF TypeOK
<1>2. btt' = [btt EXCEPT ![n] = @ \cup {<<source, id>>}]
  BY DEF Meets
<1>3. btt' \in [Routers -> SUBSET (Routers \X (1 .. MaxRreq))]
  BY <1>0, <1>1, <1>2
<1>4. \A m \in Routers : btt[m] \subseteq btt'[m]
  BY <1>1, <1>2
<1>5. \A m \in Routers : \A q \in btt'[m] : q \in btt[m] \/ q = <<source, id>>
  BY <1>1, <1>2
<1>6. <<source, id>> \in btt'[n]
  BY <1>0, <1>1, <1>2
<1>7. SeenIds'
  <2>1. SUFFICES ASSUME NEW m \in Routers, NEW q \in btt'[m] PROVE q[2] <= rreq_id'[q[1]]
    BY DEF SeenIds
  <2>2. CASE q = <<source, id>>
    BY <2>2 DEF Meets
  <2>3. CASE q \in btt[m]
    <3>1. q[2] <= rreq_id[q[1]]
      BY <2>3 DEF TablesInv, Seen, SeenIds
    <3>2. q[1] \in Routers /\ q[2] \in 1 .. MaxRreq
      BY <1>1, <2>3
    <3>3. rreq_id[q[1]] <= rreq_id'[q[1]]
      BY <3>2 DEF Meets
    <3>4. rreq_id[q[1]] \in 0 .. MaxRreq /\ rreq_id'[q[1]] \in 0 .. MaxRreq
      BY <1>0, <3>2 DEF Meets, TypeOK
    <3>. QED BY <3>1, <3>2, <3>3, <3>4
  <2>. QED BY <1>5, <2>2, <2>3
<1>8. SeenRoutes'
  BY MeetsKeepsRoutes
<1>9. SeenDiscs'
  <2>1. SUFFICES ASSUME NEW m \in Routers, NEW e \in Discs(m)'
                 PROVE  /\ <<e.source_addr, e.request_id>> \in btt'[m]
                        /\ e.source_addr = m \/
                           Passed(e.sender_addr, e.source_addr, e.request_id, e.dest_addr)'
    BY DEF SeenDiscs
  <2>2. CASE e \in Discs(m)
    <3>1. /\ <<e.source_addr, e.request_id>> \in btt[m]
          /\ e.source_addr = m \/
             Passed(e.sender_addr, e.source_addr, e.request_id, e.dest_addr)
      BY <2>2 DEF TablesInv, Seen, SeenDiscs
    <3>2. e.sender_addr \in Routers
      BY <1>0, <2>2, DiscOf DEF Discoveries
    <3>. QED BY <1>4, <3>1, <3>2 DEF Passed, Answers
  <2>3. CASE m = n /\ e = NewDiscovery(source, id, d, sender, cost)
    <3>1. /\ e.source_addr = source /\ e.request_id = id /\ e.dest_addr = d
          /\ e.sender_addr = sender
      BY <2>3 DEF NewDiscovery
    <3>2. Passed(sender, source, id, d) \/ source = n
      BY DEF Meets
    <3>. QED BY <1>0, <1>4, <1>6, <2>3, <3>1, <3>2 DEF Passed, Answers
  <2>. QED BY <1>0, <2>1, <2>2, <2>3, MeetsDiscSet
<1>10. SeenFrames'
  <2>1. SUFFICES ASSUME NEW f \in Control'
                 PROVE  Passed(IF f.type = "rreq" THEN f.from ELSE f.to, f.source,
                               f.rreq_id, f.dest)'
    BY DEF SeenFrames
  <2>2. f \in air' /\ f.type \in {"rreq", "rrep"}
    BY <2>1 DEF Control
  <2>3. MetFrames(n, sender, source, id, d, cost, f)
    BY <1>0, <2>2, MeetsFrames
  <2>4. CASE f \in air
    <3>1. f \in Control
      BY <2>2, <2>4 DEF Control
    <3>2. PICK k \in Routers : k = IF f.type = "rreq" THEN f.from ELSE f.to
      BY <1>0, <2>2, <2>4, FrameKinds
    <3>3. Passed(k, f.source, f.rreq_id, f.dest)
      BY <3>1, <3>2, Zenon DEF TablesInv, Seen, SeenFrames
    <3>. QED BY <1>4, <3>2, <3>3 DEF Passed, Answers
  <2>5. CASE /\ f.type = "rreq" /\ f.from = n /\ f.source = source /\ f.rreq_id = id
             /\ f.dest = d /\ f.cost = cost /\ ~Answers(n, d)
    BY <1>6, <2>5 DEF Passed, Answers
  <2>6. CASE /\ f.type = "rrep" /\ f.from = n /\ f.to = sender /\ f.source = source
             /\ f.rreq_id = id /\ f.dest = d /\ f.cost = cost /\ Answers(n, d)
             /\ sender \in Neighbors[n]
    <3>1. sender # n
      BY <1>0, <2>6, MeshAssumption
    <3>2. Passed(sender, source, id, d)
      BY <3>1 DEF Meets
    <3>. QED BY <1>0, <1>4, <2>6, <3>2 DEF Passed, Answers
  <2>. QED BY <2>3, <2>4, <2>5, <2>6 DEF MetFrames
<1>. QED BY <1>3, <1>7, <1>8, <1>9, <1>10 DEF Seen

LEMMA MeetsKeepsDest ==
  ASSUME TablesInv, NEW n, NEW sender, NEW source, NEW id, NEW d, NEW cost, NEW radius,
         NEW others, Meets(n, sender, source, id, d, cost, radius, others)
  PROVE  OneDest'
<1>0. TypeOK
  BY DEF TablesInv
<1>1. \A q \in Requests' : q \in Requests \/ q = <<source, id, d>>
  <2>1. SUFFICES ASSUME NEW q \in Requests' PROVE q \in Requests \/ q = <<source, id, d>>
    OBVIOUS
  <2>2. ASSUME NEW f \in Control', q = <<f.source, f.rreq_id, f.dest>>
        PROVE  q \in Requests \/ q = <<source, id, d>>
    <3>1. f \in air' /\ f.type \in {"rreq", "rrep"}
      BY <2>2 DEF Control
    <3>2. MetFrames(n, sender, source, id, d, cost, f)
      BY <1>0, <3>1, MeetsFrames
    <3>3. CASE f \in air
      BY <2>2, <3>1, <3>3 DEF Requests, Control
    <3>4. CASE f \notin air
      BY <2>2, <3>2, <3>4 DEF MetFrames
    <3>. QED BY <3>3, <3>4
  <2>3. ASSUME NEW m \in Routers, NEW e \in Discs(m)',
               q = <<e.source_addr, e.request_id, e.dest_addr>>
        PROVE  q \in Requests \/ q = <<source, id, d>>
    <3>1. CASE e \in Discs(m)
      BY <1>0, <2>3, <3>1, DiscOf
    <3>2. CASE e = NewDiscovery(source, id, d, sender, cost)
      BY <2>3, <3>2 DEF NewDiscovery
    <3>. QED BY <1>0, <2>3, <3>1, <3>2, MeetsDiscSet
  <2>. QED BY <2>1, <2>2, <2>3 DEF Requests
<1>2. \A q \in Requests : q[1] = source /\ q[2] = id => q[3] = d
  BY DEF Meets
<1>. QED BY <1>1, <1>2 DEF TablesInv, OneDest

\* A discovery that is opened takes a free slot, and is for the route's destination.
LEMMA MeetsDiscsStay ==
  ASSUME TypeOK, NEW n, NEW sender, NEW source, NEW id, NEW d, NEW cost, NEW radius,
         NEW others, Meets(n, sender, source, id, d, cost, radius, others)
  PROVE  /\ \A m \in Routers : \A i \in UsedSlots(route_disc_table[m]) :
              /\ i \in UsedSlots(route_disc_table[m])'
              /\ route_disc_table'[m][i] = route_disc_table[m][i]
         /\ \A m \in Routers : \A i \in UsedSlots(routing_table[m])' :
              NewRoute(m, i, n, d) =>
                \E j \in UsedSlots(route_disc_table[n])' : route_disc_table'[n][j].dest_addr = d
<1>0. /\ n \in Routers /\ d \in Devices /\ sender \in Routers /\ source \in Routers
      /\ id \in 1 .. MaxRreq /\ cost \in Nat
  BY DEF Meets
<1>1. /\ route_disc_table \in [Routers -> [1 .. drive.case.discs -> Discoveries \cup {Free}]]
      /\ routing_table \in [Routers -> [1 .. drive.case.routes -> Routes \cup {Free}]]
  BY DEF TypeOK
<1>2. CASE Opens(n, sender, source, id, d, cost, radius, others)
  <2> DEFINE x == NewDiscovery(source, id, d, sender, cost)
  <2>1. PICK new \in FreeSlots(route_disc_table[n]) :
          route_disc_table' = [route_disc_table EXCEPT ![n][new] = x]
    BY <1>2, Zenon DEF Opens
  <2>2. x \in Discoveries /\ x.dest_addr = d
    BY <1>0, NewDiscoveryType DEF NewDiscovery
  <2>a. x # Free
    BY <2>2, FreeAssumption
  <2>. HIDE DEF x
  <2>3. new \in 1 .. drive.case.discs /\ route_disc_table[n][new] = Free
    BY <1>0, <2>1, DiscSlots DEF FreeSlots
  <2>4. new \in UsedSlots(route_disc_table[n])' /\ route_disc_table'[n][new] = x
    BY <1>0, <1>1, <2>1, <2>a, <2>3 DEF UsedSlots, FreeSlots
  <2>5. ASSUME NEW m \in Routers, NEW i \in UsedSlots(route_disc_table[m])
        PROVE  /\ i \in UsedSlots(route_disc_table[m])'
               /\ route_disc_table'[m][i] = route_disc_table[m][i]
    <3>1. i \in 1 .. drive.case.discs /\ route_disc_table[m][i] # Free
      BY <1>1, <2>5 DEF UsedSlots, FreeSlots
    <3>2. m # n \/ i # new
      BY <2>3, <3>1
    <3>3. route_disc_table'[m][i] = route_disc_table[m][i]
      BY <1>0, <1>1, <2>1, <2>3, <3>1, <3>2
    <3>4. i \in DOMAIN route_disc_table'[m]
      BY <1>0, <1>1, <2>1, <2>3, <3>1
    <3>. QED BY <3>1, <3>3, <3>4 DEF UsedSlots, FreeSlots
  <2>. QED BY <2>2, <2>4, <2>5, Zenon
<1>3. CASE NoRoom(n, d, others)
  <2>1. PICK r : Takes(n, r, d) /\ routing_table' = [routing_table EXCEPT ![n][r] = Free]
    BY <1>3, Zenon DEF NoRoom
  <2>2. route_disc_table' = route_disc_table
    BY <1>3 DEF NoRoom
  <2>3. r \in 1 .. drive.case.routes
    BY <1>0, <2>1, TakenRoute
  <2>4. ASSUME NEW m \in Routers, NEW i \in UsedSlots(routing_table[m])'
        PROVE  i \in UsedSlots(routing_table[m])
    <3>1. i \in 1 .. drive.case.routes /\ routing_table'[m][i] # Free
      BY <1>0, <1>1, <2>1, <2>3, <2>4 DEF UsedSlots, FreeSlots
    <3>. QED BY <1>0, <1>1, <2>1, <2>3, <3>1 DEF UsedSlots, FreeSlots
  <2>. QED BY <2>2, <2>4 DEF NewRoute
<1>4. CASE NoRoute(others)
  BY <1>4 DEF NoRoute, NewRoute, UsedSlots, FreeSlots
<1>. QED BY <1>2, <1>3, <1>4 DEF Meets

LEMMA MeetsKeepsBacked ==
  ASSUME TablesInv, NEW n, NEW sender, NEW source, NEW id, NEW d, NEW cost, NEW radius,
         NEW others, Meets(n, sender, source, id, d, cost, radius, others)
  PROVE  RouteBacked'
<1>0. TypeOK /\ n \in Routers
  BY DEF Meets, TablesInv
<1>a. PICK r : MetRoutes(n, d, r)
  BY <1>0, MeetsRoutes, Zenon
<1>1. SUFFICES ASSUME NEW m \in Routers, NEW i \in UsedSlots(routing_table[m])',
                      routing_table'[m][i].status # "active"
               PROVE  \E j \in UsedSlots(route_disc_table[m])' :
                        route_disc_table'[m][j].dest_addr = routing_table'[m][i].dest_addr
  BY DEF RouteBacked, DiscoveriesTo
<1>3. CASE NewRoute(m, i, n, d)
  <2>1. routing_table'[m][i].dest_addr = d /\ m = n
    BY <1>3 DEF NewRoute, Route
  <2>. QED BY <1>0, <1>1, <1>3, <2>1, MeetsDiscsStay
<1>4. CASE SameRoute(m, i) /\ routing_table'[m][i].status = routing_table[m][i].status
  <2>1. DiscoveriesTo(m, routing_table[m][i].dest_addr) # {}
    BY <1>1, <1>4 DEF SameRoute, TablesInv, RouteBacked
  <2>2. PICK j \in UsedSlots(route_disc_table[m]) :
          route_disc_table[m][j].dest_addr = routing_table[m][i].dest_addr
    BY <2>1 DEF DiscoveriesTo
  <2>3. j \in UsedSlots(route_disc_table[m])' /\ route_disc_table'[m][j] = route_disc_table[m][j]
    BY <1>0, MeetsDiscsStay
  <2>. QED BY <1>4, <2>2, <2>3 DEF SameRoute
<1>. QED BY <1>a, <1>3, <1>4 DEF MetRoutes

LEMMA MeetsKeepsCost ==
  ASSUME TablesInv, NEW n, NEW sender, NEW source, NEW id, NEW d, NEW cost, NEW radius,
         NEW others, Meets(n, sender, source, id, d, cost, radius, others)
  PROVE  CostKept'
<1>0. TypeOK /\ n \in Routers /\ sender \in Routers
  BY DEF Meets, TablesInv
<1>1. SUFFICES ASSUME NEW m \in Routers, NEW e \in Discs(m)', NEW f \in Control',
                      f.source = e.source_addr, f.rreq_id = e.request_id
               PROVE  /\ f.type = "rreq" /\ f.from = m => f.cost = e.forward_cost
                      /\ f.type = "rrep" /\ f.to = m /\ Answers(f.from, f.dest) =>
                           f.cost = e.forward_cost + PathCost(f.from, f.source)
  BY DEF CostKept, Answers, PathCost, LinkCost
<1>2. f \in air' /\ f.type \in {"rreq", "rrep"}
  BY DEF Control
<1>3. MetFrames(n, sender, source, id, d, cost, f)
  BY <1>0, <1>2, MeetsFrames
<1>4. <<source, id>> \notin btt[n]
  BY DEF Meets
<1>5. CASE e \in Discs(m)
  <2>1. CASE f \in air
    <3>1. f \in Control
      BY <1>2, <2>1 DEF Control
    <3>. QED BY <1>1, <1>5, <3>1 DEF TablesInv, Best, CostKept
  <2>2. CASE /\ f.type = "rreq" /\ f.from = n /\ f.source = source /\ f.rreq_id = id
    <3>1. m # n
      BY <1>1, <1>4, <1>5, <2>2 DEF TablesInv, Seen, SeenDiscs
    <3>. QED BY <2>2, <3>1
  <2>3. CASE /\ f.type = "rrep" /\ f.from = n /\ f.to = sender /\ f.source = source
             /\ f.rreq_id = id /\ f.cost = cost
    <3>1. m = sender => cost = e.forward_cost + PathCost(n, source)
      BY <1>1, <1>5, <2>3 DEF Meets
    <3>. QED BY <2>3, <3>1
  <2>. QED BY <1>3, <2>1, <2>2, <2>3 DEF MetFrames
<1>6. CASE m = n /\ e = NewDiscovery(source, id, d, sender, cost)
  <2>0. e.source_addr = source /\ e.request_id = id /\ e.forward_cost = cost
    BY <1>6 DEF NewDiscovery
  <2>1. CASE f \in air
    <3>1. f \in Control
      BY <1>2, <2>1 DEF Control
    <3>2. Passed(IF f.type = "rreq" THEN f.from ELSE f.to, f.source, f.rreq_id, f.dest)
      BY <3>1, Zenon DEF TablesInv, Seen, SeenFrames
    <3>3. f.type = "rreq" => f.from # n
      BY <1>1, <1>4, <2>0, <3>2 DEF Passed
    <3>4. f.type = "rrep" => f.to # n
      BY <1>1, <1>4, <2>0, <3>2 DEF Passed
    <3>. QED BY <1>2, <1>6, <3>3, <3>4
  <2>2. CASE f.type = "rreq" /\ f.cost = cost
    BY <2>0, <2>2
  <2>3. CASE f.type = "rrep" /\ f.to = sender /\ f.from = n /\ sender \in Neighbors[n]
    <3>1. sender # n
      BY <1>0, <2>3, MeshAssumption
    <3>. QED BY <1>6, <2>3, <3>1
  <2>. QED BY <1>3, <2>1, <2>2, <2>3 DEF MetFrames
<1>. QED BY <1>0, <1>5, <1>6, MeetsDiscSet

LEMMA MeetsKeepsBest ==
  ASSUME TablesInv, NEW n, NEW sender, NEW source, NEW id, NEW d, NEW cost, NEW radius,
         NEW others, Meets(n, sender, source, id, d, cost, radius, others)
  PROVE  BestReply' /\ BestHop'
<1>0. TypeOK /\ n \in Routers /\ source \in Routers /\ id \in 1 .. MaxRreq
  BY DEF Meets, TablesInv
<1>a. PICK r : MetRoutes(n, d, r)
  BY <1>0, MeetsRoutes, Zenon
<1>1. BestReply'
  <2>1. SUFFICES ASSUME NEW m \in Routers, NEW e \in Discs(m)', NEW k \in e.heard,
                        Answers(k, e.dest_addr)
                 PROVE  e.residual_cost <= ReplyCost(m, k, e.source_addr, e.forward_cost)
    BY DEF BestReply, ReplyCost, Answers, PathCost, LinkCost
  <2>2. CASE e \in Discs(m)
    BY <2>1, <2>2 DEF TablesInv, Best, BestReply
  <2>3. CASE e = NewDiscovery(source, id, d, sender, cost)
    BY <2>1, <2>3 DEF NewDiscovery
  <2>. QED BY <1>0, <2>2, <2>3, MeetsDiscSet
<1>2. BestHop'
  <2>1. SUFFICES ASSUME NEW m \in Routers, NEW i \in UsedSlots(routing_table[m])',
                        NEW e \in Discs(m)',
                        routing_table'[m][i].by = <<e.source_addr, e.request_id>>
                 PROVE  /\ e.dest_addr = routing_table'[m][i].dest_addr
                        /\ routing_table'[m][i].next_hop_addr \in e.heard
                        /\ Answers(routing_table'[m][i].next_hop_addr, e.dest_addr) =>
                             e.residual_cost =
                               ReplyCost(m, routing_table'[m][i].next_hop_addr,
                                         e.source_addr, e.forward_cost)
    BY DEF BestHop, ReplyCost, Answers, PathCost, LinkCost
  <2>2. CASE NewRoute(m, i, n, d)
    <3>1. e.request_id = 0
      BY <2>1, <2>2 DEF NewRoute, Route, NoRequest
    <3>2. e.request_id \in 1 .. MaxRreq
      <4>1. CASE e \in Discs(m)
        BY <1>0, <4>1, DiscOf DEF Discoveries
      <4>2. CASE e = NewDiscovery(source, id, d, sender, cost)
        BY <1>0, <4>2 DEF NewDiscovery
      <4>. QED BY <1>0, <4>1, <4>2, MeetsDiscSet
    <3>. QED BY <3>1, <3>2
  <2>3. CASE SameRoute(m, i)
    <3>1. CASE e \in Discs(m)
      BY <2>1, <2>3, <3>1 DEF SameRoute, TablesInv, Best, BestHop
    <3>2. CASE m = n /\ e = NewDiscovery(source, id, d, sender, cost)
      <4>1. routing_table[m][i].by = <<source, id>>
        BY <2>1, <2>3, <3>2 DEF SameRoute, NewDiscovery
      <4>2. routing_table[m][i].by = NoRequest \/ routing_table[m][i].by \in btt[n]
        BY <2>3, <3>2 DEF SameRoute, TablesInv, Seen, SeenRoutes
      <4>3. <<source, id>> # NoRequest
        BY <1>0 DEF NoRequest
      <4>. QED BY <4>1, <4>2, <4>3 DEF Meets
    <3>. QED BY <1>0, <3>1, <3>2, MeetsDiscSet
  <2>. QED BY <1>a, <2>2, <2>3 DEF MetRoutes
<1>. QED BY <1>1, <1>2

-----------------------------------------------------------------------------
\* A reply preserves the invariant.

\* The entries after router k replied.
LEMMA HeardType ==
  ASSUME NEW x \in Discoveries, NEW k \in Routers
  PROVE  /\ Heard(x, k) \in Discoveries
         /\ Heard(x, k).source_addr = x.source_addr
         /\ Heard(x, k).request_id = x.request_id
         /\ Heard(x, k).dest_addr = x.dest_addr
         /\ Heard(x, k).sender_addr = x.sender_addr
         /\ Heard(x, k).forward_cost = x.forward_cost
         /\ Heard(x, k).residual_cost = x.residual_cost
         /\ Heard(x, k).heard = x.heard \cup {k}
BY DEF Heard, Discoveries

LEMMA BetterType ==
  ASSUME NEW x \in Discoveries, NEW k \in Routers, NEW cost \in Nat
  PROVE  /\ Better(x, k, cost) \in Discoveries
         /\ Better(x, k, cost).source_addr = x.source_addr
         /\ Better(x, k, cost).request_id = x.request_id
         /\ Better(x, k, cost).dest_addr = x.dest_addr
         /\ Better(x, k, cost).sender_addr = x.sender_addr
         /\ Better(x, k, cost).forward_cost = x.forward_cost
         /\ Better(x, k, cost).residual_cost = cost
         /\ Better(x, k, cost).heard = x.heard \cup {k}
<1>1. PICK y \in Discoveries : y = Heard(x, k)
  BY HeardType
<1>2. [y EXCEPT !.residual_cost = cost, !.expiration_time = DiscExpiry] = Better(x, k, cost)
  BY <1>1 DEF Better
<1>3. DiscExpiry \in 0 .. DiscExpiry
  BY Bounds
<1>4. Better(x, k, cost) \in Discoveries
  BY <1>2, <1>3 DEF Discoveries
<1>5. /\ Better(x, k, cost).source_addr = y.source_addr
      /\ Better(x, k, cost).request_id = y.request_id
      /\ Better(x, k, cost).dest_addr = y.dest_addr
      /\ Better(x, k, cost).sender_addr = y.sender_addr
      /\ Better(x, k, cost).forward_cost = y.forward_cost
      /\ Better(x, k, cost).heard = y.heard
      /\ Better(x, k, cost).residual_cost = cost
  BY <1>2 DEF Discoveries
<1>. QED BY <1>1, <1>4, <1>5, HeardType

LEMMA ViaType ==
  ASSUME NEW y \in Routes, NEW k \in Routers, NEW source \in Routers, NEW id \in 1 .. MaxRreq
  PROVE  /\ Via(y, k, source, id) \in Routes
         /\ Via(y, k, source, id).dest_addr = y.dest_addr
         /\ Via(y, k, source, id).next_hop_addr = k
         /\ Via(y, k, source, id).by = <<source, id>>
BY DEF Via, Routes

\* The discovery and the route a reply belongs to, in slots e and r of n.
Replies(f, n, e, r, cost) ==
  /\ f \in Control /\ f.type = "rrep" /\ n = f.to
  /\ f.from \in Routers /\ n \in Routers /\ f.source \in Routers /\ f.rreq_id \in 1 .. MaxRreq
  /\ f.dest \in Devices /\ f.cost \in Nat
  /\ cost = f.cost + PathCost(n, f.from)
  /\ cost \in Nat
  /\ e # NoEnt => e \in DiscoveriesOf(n, f.source, f.rreq_id)
  /\ e = NoEnt => DiscoveriesOf(n, f.source, f.rreq_id) = {}
  /\ r # NoEnt => r \in RoutesTo(n, f.dest)
  /\ r = NoEnt => RoutesTo(n, f.dest) = {}
  /\ btt' = btt /\ rreq_id' = rreq_id

ReplyUseful(f, n, e, r, cost) ==
  /\ e # NoEnt /\ r # NoEnt
  /\ cost <= route_disc_table[n][e].residual_cost
  /\ route_disc_table' = [route_disc_table EXCEPT ![n][e] = Better(@, f.from, cost)]
  /\ routing_table' = [routing_table EXCEPT ![n][r] = Via(@, f.from, f.source, f.rreq_id)]
  /\ \A g \in air' :
       \/ g \in air
       \/ /\ f.source # n
          /\ route_disc_table[n][e].sender_addr \in Neighbors[n]
          /\ g = RrepFrame(n, route_disc_table[n][e].sender_addr, f.source, f.rreq_id,
                           f.dest, cost)

ReplyHeard(f, n, e, r, cost) ==
  /\ e # NoEnt /\ r # NoEnt
  /\ cost > route_disc_table[n][e].residual_cost
  /\ route_disc_table' = [route_disc_table EXCEPT ![n][e] = Heard(@, f.from)]
  /\ routing_table' = routing_table
  /\ air' \subseteq air

ReplyLate(f, n, e, r) ==
  /\ e = NoEnt \/ r = NoEnt
  /\ route_disc_table' = IF e # NoEnt THEN [route_disc_table EXCEPT ![n][e] = Free]
                         ELSE route_disc_table
  /\ routing_table' = IF r # NoEnt THEN [routing_table EXCEPT ![n][r] = Free]
                      ELSE routing_table
  /\ air' \subseteq air

LEMMA ReplyOutcome ==
  ASSUME TypeOK, NEW f \in air, ReceiveRrep(f)
  PROVE  \E n, e, r, cost :
           /\ Replies(f, n, e, r, cost)
           /\ \/ ReplyUseful(f, n, e, r, cost)
              \/ ReplyHeard(f, n, e, r, cost)
              \/ ReplyLate(f, n, e, r)
<1> DEFINE n == f.to
           cost == f.cost + PathCost(n, f.from)
           e == FirstEnt(DiscoveriesOf(n, f.source, f.rreq_id))
           r == FindRoute(n, f.dest)
<1>0. f.type = "rrep" /\ f \in Control /\ btt' = btt /\ rreq_id' = rreq_id
  BY DEF ReceiveRrep, Control
<1>1. /\ f.from \in Routers /\ n \in Routers /\ f.source \in Routers
      /\ f.rreq_id \in 1 .. MaxRreq /\ f.dest \in Devices /\ f.cost \in Nat
  BY <1>0, FrameKinds
<1>2. cost \in Nat
  BY <1>1, PathCostType
<1>3. /\ e # NoEnt => e \in DiscoveriesOf(n, f.source, f.rreq_id)
      /\ e = NoEnt => DiscoveriesOf(n, f.source, f.rreq_id) = {}
  BY <1>1, DiscFound
<1>4. /\ r # NoEnt => r \in RoutesTo(n, f.dest)
      /\ r = NoEnt => RoutesTo(n, f.dest) = {}
  BY <1>1, RouteFound
<1>5. Replies(f, n, e, r, cost)
  BY <1>0, <1>1, <1>2, <1>3, <1>4, Zenon DEF Replies
<1>6. IF Useful(n, e, r, cost)
        THEN /\ route_disc_table' =
                  [route_disc_table EXCEPT ![n][e] = Better(@, f.from, cost)]
             /\ routing_table' =
                  [routing_table EXCEPT ![n][r] = Via(@, f.from, f.source, f.rreq_id)]
             /\ IF f.source = n
                  THEN FlushPending(n, f.dest) /\ air' = air \ {f}
                  ELSE /\ air' = (air \ {f}) \cup
                             SendRrep(n, route_disc_table[n][e].sender_addr,
                                      f.source, f.rreq_id, f.dest, cost)
                       /\ UNCHANGED <<forward, pending_table>>
        ELSE /\ air' = air \ {f}
             /\ route_disc_table' =
                  IF e # NoEnt
                    THEN [route_disc_table EXCEPT
                            ![n][e] = IF r = NoEnt THEN Free
                                      ELSE Heard(@, f.from)]
                    ELSE route_disc_table
             /\ routing_table' =
                  IF r # NoEnt /\ e = NoEnt
                    THEN [routing_table EXCEPT ![n][r] = Free]
                    ELSE routing_table
             /\ UNCHANGED <<forward, pending_table>>
  BY Zenon DEF ReceiveRrep
<1>7. /\ route_disc_table \in [Routers -> [1 .. drive.case.discs -> Discoveries \cup {Free}]]
      /\ routing_table \in [Routers -> [1 .. drive.case.routes -> Routes \cup {Free}]]
  BY DEF TypeOK
<1>8. e # NoEnt => e \in 1 .. drive.case.discs /\ route_disc_table[n][e] \in Discoveries
  BY <1>1, <1>3, DiscSlots
<1>9. r # NoEnt => r \in 1 .. drive.case.routes /\ routing_table[n][r] \in Routes
  BY <1>1, <1>4, RouteSlots
<1>. HIDE DEF n, cost, e, r
<1>10. CASE Useful(n, e, r, cost)
  <2>0. e # NoEnt /\ r # NoEnt /\ cost <= route_disc_table[n][e].residual_cost
    BY <1>10 DEF Useful
  <2>1. route_disc_table' = [route_disc_table EXCEPT ![n][e] = Better(@, f.from, cost)]
    BY <1>6, <1>10
  <2>2. routing_table' = [routing_table EXCEPT ![n][r] = Via(@, f.from, f.source, f.rreq_id)]
    BY <1>6, <1>10
  <2>3. \A g \in air' :
          \/ g \in air
          \/ /\ f.source # n
             /\ route_disc_table[n][e].sender_addr \in Neighbors[n]
             /\ g = RrepFrame(n, route_disc_table[n][e].sender_addr, f.source, f.rreq_id,
                              f.dest, cost)
    BY <1>6, <1>10 DEF SendRrep
  <2>4. ReplyUseful(f, n, e, r, cost)
    BY <2>0, <2>1, <2>2, <2>3, Zenon DEF ReplyUseful
  <2>. QED BY <1>5, <2>4, Zenon
<1>11. CASE ~Useful(n, e, r, cost) /\ e # NoEnt /\ r # NoEnt
  <2>1. cost > route_disc_table[n][e].residual_cost
    BY <1>2, <1>8, <1>11 DEF Useful, Discoveries
  <2>2. air' \subseteq air /\ routing_table' = routing_table
    BY <1>6, <1>11
  <2>a. route_disc_table' = [route_disc_table EXCEPT ![n][e] = Heard(@, f.from)]
    BY <1>6, <1>11
  <2>3. ReplyHeard(f, n, e, r, cost)
    BY <1>11, <2>1, <2>2, <2>a, Zenon DEF ReplyHeard
  <2>. QED BY <1>5, <2>3, Zenon
<1>12. CASE ~Useful(n, e, r, cost) /\ (e = NoEnt \/ r = NoEnt)
  <2>1. /\ air' \subseteq air
        /\ route_disc_table' = IF e # NoEnt THEN [route_disc_table EXCEPT ![n][e] = Free]
                               ELSE route_disc_table
        /\ routing_table' = IF r # NoEnt THEN [routing_table EXCEPT ![n][r] = Free]
                            ELSE routing_table
    BY <1>6, <1>12
  <2>2. ReplyLate(f, n, e, r)
    BY <1>12, <2>1, Zenon DEF ReplyLate
  <2>. QED BY <1>5, <2>2, Zenon
<1>13. Useful(n, e, r, cost) => e # NoEnt /\ r # NoEnt
  BY DEF Useful
<1>. QED BY <1>10, <1>11, <1>12, <1>13, Zenon

\* A step that changes one slot of a table.
DiscEdited(n, e, v) ==
  /\ route_disc_table' \in [Routers -> [1 .. drive.case.discs -> Discoveries \cup {Free}]]
  /\ \A m \in Routers : \A i \in UsedSlots(route_disc_table[m])' :
       \/ SameDisc(m, i) /\ ~(m = n /\ i = e)
       \/ m = n /\ i = e /\ route_disc_table'[m][i] = v
  /\ \A m \in Routers : \A i \in UsedSlots(route_disc_table[m]) :
       ~(m = n /\ i = e) =>
         /\ i \in UsedSlots(route_disc_table[m])'
         /\ route_disc_table'[m][i] = route_disc_table[m][i]
  /\ v # Free => e \in UsedSlots(route_disc_table[n])' /\ route_disc_table'[n][e] = v
  /\ v = Free => e \notin UsedSlots(route_disc_table[n])'

RouteEdited(n, r, v) ==
  /\ routing_table' \in [Routers -> [1 .. drive.case.routes -> Routes \cup {Free}]]
  /\ \A m \in Routers : \A i \in UsedSlots(routing_table[m])' :
       \/ /\ i \in UsedSlots(routing_table[m]) /\ ~(m = n /\ i = r)
          /\ routing_table'[m][i] = routing_table[m][i]
       \/ m = n /\ i = r /\ routing_table'[m][i] = v /\ v # Free

LEMMA DiscEdit ==
  ASSUME TypeOK, NEW n \in Routers, NEW e \in 1 .. drive.case.discs,
         NEW v \in Discoveries \cup {Free},
         route_disc_table' = [route_disc_table EXCEPT ![n][e] = v]
  PROVE  DiscEdited(n, e, v)
<1>1. route_disc_table \in [Routers -> [1 .. drive.case.discs -> Discoveries \cup {Free}]]
  BY DEF TypeOK
<1>2. route_disc_table' \in [Routers -> [1 .. drive.case.discs -> Discoveries \cup {Free}]]
  BY <1>1
<1>3. /\ route_disc_table'[n][e] = v
      /\ \A m \in Routers, i \in 1 .. drive.case.discs :
           ~(m = n /\ i = e) => route_disc_table'[m][i] = route_disc_table[m][i]
  BY <1>1
<1>4. \A m \in Routers : \A i :
        /\ i \in UsedSlots(route_disc_table[m]) <=>
             i \in 1 .. drive.case.discs /\ route_disc_table[m][i] # Free
        /\ i \in UsedSlots(route_disc_table[m])' <=>
             i \in 1 .. drive.case.discs /\ route_disc_table'[m][i] # Free
  BY <1>1, <1>2 DEF UsedSlots, FreeSlots
<1>. QED BY <1>2, <1>3, <1>4 DEF SameDisc, DiscEdited

LEMMA RouteEdit ==
  ASSUME TypeOK, NEW n \in Routers, NEW r \in 1 .. drive.case.routes,
         NEW v \in Routes \cup {Free},
         routing_table' = [routing_table EXCEPT ![n][r] = v]
  PROVE  RouteEdited(n, r, v)
<1>1. routing_table \in [Routers -> [1 .. drive.case.routes -> Routes \cup {Free}]]
  BY DEF TypeOK
<1>2. routing_table' \in [Routers -> [1 .. drive.case.routes -> Routes \cup {Free}]]
  BY <1>1
<1>3. /\ routing_table'[n][r] = v
      /\ \A m \in Routers, i \in 1 .. drive.case.routes :
           ~(m = n /\ i = r) => routing_table'[m][i] = routing_table[m][i]
  BY <1>1
<1>4. \A m \in Routers : \A i :
        /\ i \in UsedSlots(routing_table[m]) <=>
             i \in 1 .. drive.case.routes /\ routing_table[m][i] # Free
        /\ i \in UsedSlots(routing_table[m])' <=>
             i \in 1 .. drive.case.routes /\ routing_table'[m][i] # Free
  BY <1>1, <1>2 DEF UsedSlots, FreeSlots
<1>. QED BY <1>2, <1>3, <1>4 DEF RouteEdited

\* A step that opens nothing: discoveries keep what their request says, routes
\* their destination, and the new frames are replies that are passed on.
Kind(x, y) ==
  /\ x.source_addr = y.source_addr /\ x.request_id = y.request_id
  /\ x.dest_addr = y.dest_addr /\ x.sender_addr = y.sender_addr
  /\ x.forward_cost = y.forward_cost

Turns ==
  /\ \A m \in Routers : \A i \in UsedSlots(route_disc_table[m])' :
       /\ i \in UsedSlots(route_disc_table[m])
       /\ Kind(route_disc_table'[m][i], route_disc_table[m][i])
  /\ \A m \in Routers : \A i \in UsedSlots(routing_table[m])' :
       /\ i \in UsedSlots(routing_table[m])
       /\ routing_table'[m][i].dest_addr = routing_table[m][i].dest_addr
       /\ \/ routing_table'[m][i].by = routing_table[m][i].by
          \/ routing_table'[m][i].by \in btt[m]
       /\ routing_table'[m][i].status # "underway" =>
            routing_table'[m][i].next_hop_addr \in Routers
  /\ \A f \in Control' :
       \/ f \in Control
       \/ /\ f.type = "rrep" /\ Passed(f.to, f.source, f.rreq_id, f.dest)
          /\ ~Answers(f.from, f.dest)
          /\ <<f.source, f.rreq_id, f.dest>> \in Requests
  /\ btt' = btt /\ rreq_id' = rreq_id

LEMMA TurnsDiscSet ==
  ASSUME Turns, NEW m \in Routers, NEW e \in Discs(m)'
  PROVE  \E x \in Discs(m) : Kind(e, x)
<1>1. PICK i \in UsedSlots(route_disc_table[m])' : e = route_disc_table'[m][i]
  BY DEF Discs
<1>2. i \in UsedSlots(route_disc_table[m]) /\ Kind(e, route_disc_table[m][i])
  BY <1>1 DEF Turns
<1>. QED BY <1>2 DEF Discs

LEMMA TurnsKeeps ==
  ASSUME TablesInv, Turns
  PROVE  HopKnown' /\ RouteOnce' /\ DiscOnce' /\ Seen' /\ OneDest' /\ CostKept'
<1>1. HopKnown'
  BY DEF Turns, HopKnown
<1>2. RouteOnce'
  BY DEF Turns, TablesInv, RouteOnce
<1>3. DiscOnce'
  BY DEF Turns, Kind, TablesInv, DiscOnce
<1>4. Seen'
  <2>1. SeenIds'
    BY DEF Turns, TablesInv, Seen, SeenIds
  <2>2. SeenDiscs'
    <3>1. SUFFICES ASSUME NEW m \in Routers, NEW e \in Discs(m)'
                   PROVE  /\ <<e.source_addr, e.request_id>> \in btt[m]
                          /\ e.source_addr = m \/
                             Passed(e.sender_addr, e.source_addr, e.request_id, e.dest_addr)
      BY DEF SeenDiscs, Turns, Passed, Answers
    <3>2. PICK x \in Discs(m) : Kind(e, x)
      BY TurnsDiscSet
    <3>. QED BY <3>2 DEF Kind, TablesInv, Seen, SeenDiscs
  <2>3. SeenRoutes'
    BY DEF Turns, TablesInv, Seen, SeenRoutes
  <2>4. SeenFrames'
    BY DEF Turns, TablesInv, Seen, SeenFrames, Passed, Answers
  <2>. QED BY <2>1, <2>2, <2>3, <2>4 DEF Seen
<1>5. OneDest'
  <2>1. \A q \in Requests' : q \in Requests
    <3>1. SUFFICES ASSUME NEW q \in Requests' PROVE q \in Requests
      OBVIOUS
    <3>2. ASSUME NEW f \in Control', q = <<f.source, f.rreq_id, f.dest>>
          PROVE  q \in Requests
      BY <3>2 DEF Turns, Requests
    <3>3. ASSUME NEW m \in Routers, NEW e \in Discs(m)',
                 q = <<e.source_addr, e.request_id, e.dest_addr>>
          PROVE  q \in Requests
      <4>1. PICK x \in Discs(m) : Kind(e, x)
        BY <3>3, TurnsDiscSet
      <4>. QED BY <3>3, <4>1 DEF Kind, Requests
    <3>. QED BY <3>1, <3>2, <3>3 DEF Requests
  <2>. QED BY <2>1 DEF TablesInv, OneDest
<1>6. CostKept'
  <2>1. SUFFICES ASSUME NEW m \in Routers, NEW e \in Discs(m)', NEW f \in Control',
                        f.source = e.source_addr, f.rreq_id = e.request_id
                 PROVE  /\ f.type = "rreq" /\ f.from = m => f.cost = e.forward_cost
                        /\ f.type = "rrep" /\ f.to = m /\ Answers(f.from, f.dest) =>
                             f.cost = e.forward_cost + PathCost(f.from, f.source)
    BY DEF CostKept, Answers, PathCost, LinkCost
  <2>2. PICK x \in Discs(m) : Kind(e, x)
    BY TurnsDiscSet
  <2>3. CASE f \in Control
    BY <2>1, <2>2, <2>3 DEF Kind, TablesInv, Best, CostKept
  <2>4. CASE f.type = "rrep" /\ ~Answers(f.from, f.dest)
    BY <2>4
  <2>. QED BY <2>3, <2>4 DEF Turns
<1>. QED BY <1>1, <1>2, <1>3, <1>4, <1>5, <1>6

\* A step that only loses discoveries, routes and frames, or changes what the
\* rest of the invariant does not speak of.
Alike(x, y) ==
  Kind(x, y) /\ x.residual_cost = y.residual_cost /\ x.heard = y.heard

Shrinks ==
  /\ \A m \in Routers : \A i \in UsedSlots(route_disc_table[m])' :
       /\ i \in UsedSlots(route_disc_table[m])
       /\ Alike(route_disc_table'[m][i], route_disc_table[m][i])
  /\ \A m \in Routers : \A i \in UsedSlots(routing_table[m])' :
       /\ SameRoute(m, i)
       /\ routing_table'[m][i].status # "underway" => routing_table[m][i].status # "underway"
  /\ Control' \subseteq Control
  /\ btt' = btt /\ rreq_id' = rreq_id

LEMMA ShrinksDiscSet ==
  ASSUME Shrinks, NEW m \in Routers, NEW e \in Discs(m)'
  PROVE  \E x \in Discs(m) : Alike(e, x)
<1>1. PICK i \in UsedSlots(route_disc_table[m])' : e = route_disc_table'[m][i]
  BY DEF Discs
<1>2. i \in UsedSlots(route_disc_table[m]) /\ Alike(e, route_disc_table[m][i])
  BY <1>1 DEF Shrinks
<1>. QED BY <1>2 DEF Discs

LEMMA ShrinksKeeps ==
  ASSUME TablesInv, Shrinks
  PROVE  HopKnown' /\ RouteOnce' /\ DiscOnce' /\ Seen' /\ OneDest' /\ Best'
<1>1. Turns
  BY DEF Shrinks, Turns, Alike, SameRoute, TablesInv, HopKnown
<1>2. BestReply'
  <2>1. SUFFICES ASSUME NEW m \in Routers, NEW e \in Discs(m)', NEW k \in e.heard,
                        Answers(k, e.dest_addr)
                 PROVE  e.residual_cost <= ReplyCost(m, k, e.source_addr, e.forward_cost)
    BY DEF BestReply, ReplyCost, Answers, PathCost, LinkCost
  <2>2. PICK x \in Discs(m) : Alike(e, x)
    BY ShrinksDiscSet
  <2>. QED BY <2>1, <2>2 DEF Alike, Kind, TablesInv, Best, BestReply
<1>3. BestHop'
  <2>1. SUFFICES ASSUME NEW m \in Routers, NEW i \in UsedSlots(routing_table[m])',
                        NEW e \in Discs(m)',
                        routing_table'[m][i].by = <<e.source_addr, e.request_id>>
                 PROVE  /\ e.dest_addr = routing_table'[m][i].dest_addr
                        /\ routing_table'[m][i].next_hop_addr \in e.heard
                        /\ Answers(routing_table'[m][i].next_hop_addr, e.dest_addr) =>
                             e.residual_cost =
                               ReplyCost(m, routing_table'[m][i].next_hop_addr,
                                         e.source_addr, e.forward_cost)
    BY DEF BestHop, ReplyCost, Answers, PathCost, LinkCost
  <2>2. PICK x \in Discs(m) : Alike(e, x)
    BY ShrinksDiscSet
  <2>3. SameRoute(m, i)
    BY DEF Shrinks
  <2>. QED BY <2>1, <2>2, <2>3 DEF Alike, Kind, SameRoute, TablesInv, Best, BestHop
<1>. QED BY <1>1, <1>2, <1>3, TurnsKeeps DEF Best

\* The tables keep their types, and the routes their discoveries.
TablesTyped ==
  /\ routing_table' \in [Routers -> [1 .. drive.case.routes -> Routes \cup {Free}]]
  /\ route_disc_table' \in [Routers -> [1 .. drive.case.discs -> Discoveries \cup {Free}]]

LEMMA Unchanging ==
  ASSUME TypeOK
  PROVE  /\ routing_table' = routing_table =>
              /\ routing_table' \in [Routers -> [1 .. drive.case.routes -> Routes \cup {Free}]]
              /\ \A m \in Routers : \A i \in UsedSlots(routing_table[m])' :
                   /\ i \in UsedSlots(routing_table[m])
                   /\ routing_table'[m][i] = routing_table[m][i]
         /\ route_disc_table' = route_disc_table =>
              /\ route_disc_table' \in
                   [Routers -> [1 .. drive.case.discs -> Discoveries \cup {Free}]]
              /\ \A m \in Routers : \A i \in UsedSlots(route_disc_table[m])' : SameDisc(m, i)
              /\ \A m \in Routers : \A i \in UsedSlots(route_disc_table[m]) :
                   /\ i \in UsedSlots(route_disc_table[m])'
                   /\ route_disc_table'[m][i] = route_disc_table[m][i]
BY DEF TypeOK, SameDisc, UsedSlots, FreeSlots

\* The slots of the entries a reply belongs to.
LEMMA RepliesSlots ==
  ASSUME TypeOK, NEW f, NEW n, NEW e, NEW r, NEW cost, Replies(f, n, e, r, cost)
  PROVE  /\ n \in Routers
         /\ e # NoEnt =>
              /\ e \in 1 .. drive.case.discs /\ e \in UsedSlots(route_disc_table[n])
              /\ route_disc_table[n][e] \in Discoveries
              /\ route_disc_table[n][e] \in Discs(n)
              /\ route_disc_table[n][e].source_addr = f.source
              /\ route_disc_table[n][e].request_id = f.rreq_id
         /\ r # NoEnt =>
              /\ r \in 1 .. drive.case.routes /\ r \in UsedSlots(routing_table[n])
              /\ routing_table[n][r] \in Routes
              /\ routing_table[n][r].dest_addr = f.dest
<1>0. n \in Routers
  BY DEF Replies
<1>1. ASSUME e # NoEnt
      PROVE  /\ e \in 1 .. drive.case.discs /\ e \in UsedSlots(route_disc_table[n])
             /\ route_disc_table[n][e] \in Discoveries
             /\ route_disc_table[n][e] \in Discs(n)
             /\ route_disc_table[n][e].source_addr = f.source
             /\ route_disc_table[n][e].request_id = f.rreq_id
  <2>1. e \in DiscoveriesOf(n, f.source, f.rreq_id)
    BY <1>1 DEF Replies
  <2>2. /\ e \in UsedSlots(route_disc_table[n])
        /\ route_disc_table[n][e].source_addr = f.source
        /\ route_disc_table[n][e].request_id = f.rreq_id
    BY <2>1 DEF DiscoveriesOf
  <2>. QED BY <1>0, <2>2, DiscSlots DEF Discs
<1>2. ASSUME r # NoEnt
      PROVE  /\ r \in 1 .. drive.case.routes /\ r \in UsedSlots(routing_table[n])
             /\ routing_table[n][r] \in Routes
             /\ routing_table[n][r].dest_addr = f.dest
  <2>1. r \in RoutesTo(n, f.dest)
    BY <1>2 DEF Replies
  <2>2. r \in UsedSlots(routing_table[n]) /\ routing_table[n][r].dest_addr = f.dest
    BY <2>1 DEF RoutesTo
  <2>. QED BY <1>0, <2>2, RouteSlots
<1>. QED BY <1>0, <1>1, <1>2

\* The request a reply answers has one destination.
LEMMA RepliesDest ==
  ASSUME TablesInv, NEW f, NEW n, NEW e, NEW r, NEW cost, Replies(f, n, e, r, cost),
         e # NoEnt
  PROVE  route_disc_table[n][e].dest_addr = f.dest
<1>0. TypeOK
  BY DEF TablesInv
<1>1. /\ n \in Routers /\ route_disc_table[n][e] \in Discs(n)
      /\ route_disc_table[n][e].source_addr = f.source
      /\ route_disc_table[n][e].request_id = f.rreq_id
  BY <1>0, RepliesSlots
<1>2. <<f.source, f.rreq_id, route_disc_table[n][e].dest_addr>> \in Requests
  BY <1>0, <1>1, DiscOf
<1>3. <<f.source, f.rreq_id, f.dest>> \in Requests
  BY FrameRequest DEF Replies
<1>. QED BY <1>2, <1>3 DEF TablesInv, OneDest

LEMMA ControlSubset ==
  ASSUME air' \subseteq air
  PROVE  Control' \subseteq Control
BY DEF Control

LEMMA LateKeeps ==
  ASSUME TablesInv, NEW f, NEW n, NEW e, NEW r, NEW cost, Replies(f, n, e, r, cost),
         ReplyLate(f, n, e, r)
  PROVE  Shrinks /\ TablesTyped /\ RouteBacked'
<1>0. TypeOK /\ n \in Routers
  BY RepliesSlots DEF TablesInv
<1>a. PICK v \in (Discoveries \cup {Free}) \cap (Routes \cup {Free}) : v = Free
  OBVIOUS
<1>c. v \in Discoveries \cup {Free} /\ v \in Routes \cup {Free}
  OBVIOUS
<1>b. Control' \subseteq Control /\ btt' = btt /\ rreq_id' = rreq_id
  BY ControlSubset DEF ReplyLate, Replies
<1>1. CASE e # NoEnt
  <2>1. /\ routing_table' = routing_table
        /\ route_disc_table' = [route_disc_table EXCEPT ![n][e] = v]
        /\ r = NoEnt
    BY <1>1, <1>a DEF ReplyLate
  <2>2. e \in 1 .. drive.case.discs
    BY <1>0, <1>1, RepliesSlots
  <2>3. /\ \A m \in Routers : \A i \in UsedSlots(route_disc_table[m])' : SameDisc(m, i)
        /\ \A m \in Routers : \A i \in UsedSlots(route_disc_table[m]) :
             ~(m = n /\ i = e) =>
               /\ i \in UsedSlots(route_disc_table[m])'
               /\ route_disc_table'[m][i] = route_disc_table[m][i]
        /\ route_disc_table' \in [Routers -> [1 .. drive.case.discs -> Discoveries \cup {Free}]]
    <3>1. DiscEdited(n, e, v)
      BY <1>0, <1>c, <2>1, <2>2, DiscEdit
    <3>. QED BY <1>a, <3>1 DEF DiscEdited
  <2>4. /\ \A m \in Routers : \A i \in UsedSlots(routing_table[m])' :
             /\ i \in UsedSlots(routing_table[m])
             /\ routing_table'[m][i] = routing_table[m][i]
        /\ routing_table' \in [Routers -> [1 .. drive.case.routes -> Routes \cup {Free}]]
    BY <1>0, <2>1, Unchanging
  <2>5. Shrinks
    BY <1>b, <2>3, <2>4 DEF Shrinks, SameDisc, SameRoute, Alike, Kind
  <2>6. RouteBacked'
    <3>1. SUFFICES ASSUME NEW m \in Routers, NEW i \in UsedSlots(routing_table[m])',
                          routing_table'[m][i].status # "active"
                   PROVE  \E j \in UsedSlots(route_disc_table[m])' :
                            route_disc_table'[m][j].dest_addr = routing_table'[m][i].dest_addr
      BY DEF RouteBacked, DiscoveriesTo
    <3>2. i \in UsedSlots(routing_table[m]) /\ routing_table'[m][i] = routing_table[m][i]
      BY <2>4
    <3>3. PICK j \in UsedSlots(route_disc_table[m]) :
            route_disc_table[m][j].dest_addr = routing_table[m][i].dest_addr
      BY <3>1, <3>2 DEF TablesInv, RouteBacked, DiscoveriesTo
    <3>4. ~(m = n /\ j = e)
      <4>1. SUFFICES ASSUME m = n, j = e PROVE FALSE
        OBVIOUS
      <4>2. routing_table[n][i].dest_addr = f.dest
        BY <1>1, <3>3, <4>1, RepliesDest
      <4>3. i \in RoutesTo(n, f.dest)
        BY <3>2, <4>1, <4>2 DEF RoutesTo
      <4>. QED BY <2>1, <4>3 DEF Replies
    <3>. QED BY <2>3, <3>2, <3>3, <3>4
  <2>. QED BY <2>3, <2>4, <2>5, <2>6 DEF TablesTyped
<1>2. CASE e = NoEnt
  <2>1. /\ route_disc_table' = route_disc_table
        /\ routing_table' = IF r # NoEnt THEN [routing_table EXCEPT ![n][r] = Free]
                            ELSE routing_table
    BY <1>2 DEF ReplyLate
  <2>2. /\ \A m \in Routers : \A i \in UsedSlots(routing_table[m])' :
             /\ i \in UsedSlots(routing_table[m])
             /\ routing_table'[m][i] = routing_table[m][i]
        /\ routing_table' \in [Routers -> [1 .. drive.case.routes -> Routes \cup {Free}]]
    <3>1. CASE r = NoEnt
      BY <1>0, <2>1, <3>1, Unchanging
    <3>2. CASE r # NoEnt
      <4>1. r \in 1 .. drive.case.routes
        BY <1>0, <3>2, RepliesSlots
      <4>2. routing_table' = [routing_table EXCEPT ![n][r] = v]
        BY <1>a, <2>1, <3>2
      <4>3. RouteEdited(n, r, v)
        BY <1>0, <1>c, <4>1, <4>2, RouteEdit
      <4>. QED BY <1>a, <4>3 DEF RouteEdited
    <3>. QED BY <3>1, <3>2
  <2>3. /\ \A m \in Routers : \A i \in UsedSlots(route_disc_table[m])' : SameDisc(m, i)
        /\ \A m \in Routers : \A i \in UsedSlots(route_disc_table[m]) :
             /\ i \in UsedSlots(route_disc_table[m])'
             /\ route_disc_table'[m][i] = route_disc_table[m][i]
        /\ route_disc_table' \in [Routers -> [1 .. drive.case.discs -> Discoveries \cup {Free}]]
    BY <1>0, <2>1, Unchanging
  <2>4. Shrinks
    BY <1>b, <2>2, <2>3 DEF Shrinks, SameDisc, SameRoute, Alike, Kind
  <2>5. RouteBacked'
    <3>1. SUFFICES ASSUME NEW m \in Routers, NEW i \in UsedSlots(routing_table[m])',
                          routing_table'[m][i].status # "active"
                   PROVE  \E j \in UsedSlots(route_disc_table[m])' :
                            route_disc_table'[m][j].dest_addr = routing_table'[m][i].dest_addr
      BY DEF RouteBacked, DiscoveriesTo
    <3>2. i \in UsedSlots(routing_table[m]) /\ routing_table'[m][i] = routing_table[m][i]
      BY <2>2
    <3>3. PICK j \in UsedSlots(route_disc_table[m]) :
            route_disc_table[m][j].dest_addr = routing_table[m][i].dest_addr
      BY <3>1, <3>2 DEF TablesInv, RouteBacked, DiscoveriesTo
    <3>. QED BY <2>3, <3>2, <3>3
  <2>. QED BY <2>2, <2>3, <2>4, <2>5 DEF TablesTyped
<1>. QED BY <1>1, <1>2

\* Routes keep a discovery when the discoveries stay, with their destinations.
LEMMA BackedStays ==
  ASSUME TablesInv,
         \A m \in Routers : \A i \in UsedSlots(route_disc_table[m]) :
           /\ i \in UsedSlots(route_disc_table[m])'
           /\ route_disc_table'[m][i].dest_addr = route_disc_table[m][i].dest_addr,
         \A m \in Routers : \A i \in UsedSlots(routing_table[m])' :
           /\ i \in UsedSlots(routing_table[m])
           /\ routing_table'[m][i].dest_addr = routing_table[m][i].dest_addr
           /\ routing_table'[m][i].status # "active" => routing_table[m][i].status # "active"
  PROVE  RouteBacked'
<1>1. SUFFICES ASSUME NEW m \in Routers, NEW i \in UsedSlots(routing_table[m])',
                      routing_table'[m][i].status # "active"
               PROVE  \E j \in UsedSlots(route_disc_table[m])' :
                        route_disc_table'[m][j].dest_addr = routing_table'[m][i].dest_addr
  BY DEF RouteBacked, DiscoveriesTo
<1>2. PICK j \in UsedSlots(route_disc_table[m]) :
        route_disc_table[m][j].dest_addr = routing_table[m][i].dest_addr
  BY <1>1 DEF TablesInv, RouteBacked, DiscoveriesTo
<1>. QED BY <1>1, <1>2

\* The cost a reply brings is that of its discovery, if its sender answered.
LEMMA ReplyBrings ==
  ASSUME TablesInv, NEW f, NEW n, NEW e, NEW r, NEW cost, Replies(f, n, e, r, cost),
         e # NoEnt, Answers(f.from, f.dest)
  PROVE  cost = ReplyCost(n, f.from, route_disc_table[n][e].source_addr,
                          route_disc_table[n][e].forward_cost)
<1>0. TypeOK
  BY DEF TablesInv
<1>1. /\ n \in Routers /\ route_disc_table[n][e] \in Discs(n)
      /\ route_disc_table[n][e].source_addr = f.source
      /\ route_disc_table[n][e].request_id = f.rreq_id
  BY <1>0, RepliesSlots
<1>2. /\ f \in Control /\ f.type = "rrep" /\ f.to = n
      /\ cost = f.cost + PathCost(n, f.from)
  BY DEF Replies
<1>3. f.cost = route_disc_table[n][e].forward_cost + PathCost(f.from, f.source)
  BY <1>1, <1>2 DEF TablesInv, Best, CostKept
<1>. QED BY <1>1, <1>2, <1>3 DEF ReplyCost

LEMMA HeardKeeps ==
  ASSUME TablesInv, NEW f, NEW n, NEW e, NEW r, NEW cost, Replies(f, n, e, r, cost),
         ReplyHeard(f, n, e, r, cost)
  PROVE  /\ TablesTyped /\ RouteBacked'
         /\ HopKnown' /\ RouteOnce' /\ DiscOnce' /\ Seen' /\ OneDest' /\ Best'
<1>0. TypeOK /\ n \in Routers /\ f.from \in Routers /\ e # NoEnt /\ cost \in Nat
  BY RepliesSlots DEF TablesInv, Replies, ReplyHeard
<1>1. PICK x \in Discoveries : x = route_disc_table[n][e]
  BY <1>0, RepliesSlots
<1>2. PICK v \in Discoveries \cup {Free} : v = Heard(x, f.from)
  BY <1>0, <1>1, HeardType
<1>3. /\ v # Free /\ Kind(v, x) /\ v.residual_cost = x.residual_cost
      /\ v.heard = x.heard \cup {f.from}
  BY <1>0, <1>1, <1>2, HeardType, FreeAssumption DEF Kind
<1>4. /\ e \in 1 .. drive.case.discs /\ e \in UsedSlots(route_disc_table[n])
      /\ x \in Discs(n)
  BY <1>0, <1>1, RepliesSlots
<1>5. DiscEdited(n, e, v)
  <2>1. route_disc_table' = [route_disc_table EXCEPT ![n][e] = v]
    BY <1>1, <1>2 DEF ReplyHeard
  <2>. QED BY <1>0, <1>4, <2>1, DiscEdit
<1>6. /\ routing_table' \in [Routers -> [1 .. drive.case.routes -> Routes \cup {Free}]]
      /\ \A m \in Routers : \A i \in UsedSlots(routing_table[m])' :
           /\ i \in UsedSlots(routing_table[m])
           /\ routing_table'[m][i] = routing_table[m][i]
  BY <1>0, Unchanging DEF ReplyHeard
<1>7. TablesTyped
  BY <1>5, <1>6 DEF TablesTyped, DiscEdited
<1>8. RouteBacked'
  <2>1. \A m \in Routers : \A i \in UsedSlots(route_disc_table[m]) :
          /\ i \in UsedSlots(route_disc_table[m])'
          /\ route_disc_table'[m][i].dest_addr = route_disc_table[m][i].dest_addr
    BY <1>1, <1>3, <1>5 DEF DiscEdited, Kind
  <2>. QED BY <1>6, <2>1, BackedStays
<1>9. Turns
  <2>1. \A m \in Routers : \A i \in UsedSlots(route_disc_table[m])' :
          /\ i \in UsedSlots(route_disc_table[m])
          /\ Kind(route_disc_table'[m][i], route_disc_table[m][i])
    BY <1>1, <1>3, <1>4, <1>5 DEF DiscEdited, SameDisc, Kind
  <2>2. Control' \subseteq Control /\ btt' = btt /\ rreq_id' = rreq_id
    BY ControlSubset DEF ReplyHeard, Replies
  <2>. QED BY <1>6, <2>1, <2>2 DEF Turns, TablesInv, HopKnown
<1>10. \A m \in Routers : \A y \in Discs(m)' : y \in Discs(m) \/ (m = n /\ y = v)
  BY <1>5 DEF DiscEdited, SameDisc, Discs
<1>11. BestReply'
  <2>1. SUFFICES ASSUME NEW m \in Routers, NEW y \in Discs(m)', NEW k \in y.heard,
                        Answers(k, y.dest_addr)
                 PROVE  y.residual_cost <= ReplyCost(m, k, y.source_addr, y.forward_cost)
    BY DEF BestReply, ReplyCost, Answers, PathCost, LinkCost
  <2>2. CASE y \in Discs(m)
    BY <2>1, <2>2 DEF TablesInv, Best, BestReply
  <2>3. CASE m = n /\ y = v
    <3>1. CASE k \in x.heard
      BY <1>3, <1>4, <2>1, <2>3, <3>1 DEF Kind, TablesInv, Best, BestReply
    <3>2. CASE k = f.from
      <4>1. x.dest_addr = f.dest
        BY <1>0, <1>1, RepliesDest
      <4>2. cost = ReplyCost(n, k, x.source_addr, x.forward_cost)
        BY <1>0, <1>1, <1>3, <2>1, <2>3, <3>2, <4>1, ReplyBrings DEF Kind
      <4>3. x.residual_cost < cost
        BY <1>1 DEF ReplyHeard
      <4>4. x.residual_cost \in Nat
        BY DEF Discoveries
      <4>. QED BY <1>0, <1>3, <2>3, <4>2, <4>3, <4>4 DEF Kind
    <3>. QED BY <1>3, <2>1, <2>3, <3>1, <3>2
  <2>. QED BY <1>10, <2>2, <2>3
<1>12. BestHop'
  <2>1. SUFFICES ASSUME NEW m \in Routers, NEW i \in UsedSlots(routing_table[m])',
                        NEW y \in Discs(m)',
                        routing_table'[m][i].by = <<y.source_addr, y.request_id>>
                 PROVE  /\ y.dest_addr = routing_table'[m][i].dest_addr
                        /\ routing_table'[m][i].next_hop_addr \in y.heard
                        /\ Answers(routing_table'[m][i].next_hop_addr, y.dest_addr) =>
                             y.residual_cost =
                               ReplyCost(m, routing_table'[m][i].next_hop_addr,
                                         y.source_addr, y.forward_cost)
    BY DEF BestHop, ReplyCost, Answers, PathCost, LinkCost
  <2>2. i \in UsedSlots(routing_table[m]) /\ routing_table'[m][i] = routing_table[m][i]
    BY <1>6
  <2>3. PICK z \in Discs(m) : Kind(y, z) /\ y.residual_cost = z.residual_cost
                              /\ z.heard \subseteq y.heard
    BY <1>3, <1>4, <1>10 DEF Kind
  <2>. QED BY <2>1, <2>2, <2>3 DEF Kind, TablesInv, Best, BestHop
<1>. QED BY <1>7, <1>8, <1>9, <1>11, <1>12, TurnsKeeps DEF Best

LEMMA UsefulKeeps ==
  ASSUME TablesInv, NEW f, NEW n, NEW e, NEW r, NEW cost, Replies(f, n, e, r, cost),
         ReplyUseful(f, n, e, r, cost)
  PROVE  /\ TablesTyped /\ RouteBacked'
         /\ HopKnown' /\ RouteOnce' /\ DiscOnce' /\ Seen' /\ OneDest' /\ Best'
<1>0. /\ TypeOK /\ n \in Routers /\ f.from \in Routers /\ e # NoEnt /\ r # NoEnt
      /\ cost \in Nat /\ f.source \in Routers /\ f.rreq_id \in 1 .. MaxRreq /\ f \in Control
      /\ f.type = "rrep" /\ f.to = n
  BY RepliesSlots DEF TablesInv, Replies, ReplyUseful
<1>1. PICK x \in Discoveries : x = route_disc_table[n][e]
  BY <1>0, RepliesSlots
<1>2. PICK v \in Discoveries \cup {Free} : v = Better(x, f.from, cost)
  BY <1>0, <1>1, BetterType
<1>3. /\ v # Free /\ Kind(v, x) /\ v.residual_cost = cost
      /\ v.heard = x.heard \cup {f.from}
  <2>1. f.from \in Routers /\ cost \in Nat
    BY <1>0
  <2>2. v \in Discoveries /\ v.residual_cost = cost /\ v.heard = x.heard \cup {f.from}
    BY <1>2, <2>1, BetterType
  <2>3. /\ v.source_addr = x.source_addr /\ v.request_id = x.request_id
        /\ v.dest_addr = x.dest_addr /\ v.sender_addr = x.sender_addr
        /\ v.forward_cost = x.forward_cost
    BY <1>2, <2>1, BetterType
  <2>. QED BY <2>2, <2>3, FreeAssumption DEF Kind
<1>4. /\ e \in 1 .. drive.case.discs /\ e \in UsedSlots(route_disc_table[n])
      /\ x \in Discs(n) /\ x.source_addr = f.source /\ x.request_id = f.rreq_id
      /\ x.dest_addr = f.dest
  BY <1>0, <1>1, RepliesSlots, RepliesDest
<1>5. DiscEdited(n, e, v)
  <2>1. route_disc_table' = [route_disc_table EXCEPT ![n][e] = v]
    BY <1>1, <1>2 DEF ReplyUseful
  <2>. QED BY <1>0, <1>4, <2>1, DiscEdit
<1>6. PICK y \in Routes : y = routing_table[n][r]
  BY <1>0, RepliesSlots
<1>7. PICK w \in Routes \cup {Free} : w = Via(y, f.from, f.source, f.rreq_id)
  BY <1>0, <1>6, ViaType
<1>8. /\ w.dest_addr = f.dest /\ w.next_hop_addr = f.from
      /\ w.by = <<f.source, f.rreq_id>> /\ w.dest_addr = y.dest_addr
      /\ w.status # "active" => y.status # "active"
      /\ r \in 1 .. drive.case.routes /\ r \in UsedSlots(routing_table[n])
  <2>1. /\ w.dest_addr = y.dest_addr /\ w.next_hop_addr = f.from
        /\ w.by = <<f.source, f.rreq_id>>
    BY <1>0, <1>7, ViaType
  <2>2. y.dest_addr = f.dest /\ r \in 1 .. drive.case.routes /\ r \in UsedSlots(routing_table[n])
    BY <1>0, <1>6, RepliesSlots
  <2>3. w.status # "active" => y.status # "active"
    BY <1>7 DEF Via, Routes
  <2>. QED BY <2>1, <2>2, <2>3
<1>9. RouteEdited(n, r, w)
  <2>1. routing_table' = [routing_table EXCEPT ![n][r] = w]
    BY <1>6, <1>7 DEF ReplyUseful
  <2>. QED BY <1>0, <1>8, <2>1, RouteEdit
<1>10. TablesTyped
  BY <1>5, <1>9 DEF TablesTyped, DiscEdited, RouteEdited
<1>11. RouteBacked'
  <2>1. \A m \in Routers : \A i \in UsedSlots(route_disc_table[m]) :
          /\ i \in UsedSlots(route_disc_table[m])'
          /\ route_disc_table'[m][i].dest_addr = route_disc_table[m][i].dest_addr
    BY <1>1, <1>3, <1>5 DEF DiscEdited, Kind
  <2>2. \A m \in Routers : \A i \in UsedSlots(routing_table[m])' :
          /\ i \in UsedSlots(routing_table[m])
          /\ routing_table'[m][i].dest_addr = routing_table[m][i].dest_addr
          /\ routing_table'[m][i].status # "active" => routing_table[m][i].status # "active"
    BY <1>6, <1>8, <1>9 DEF RouteEdited
  <2>. QED BY <2>1, <2>2, BackedStays
<1>12. Passed(n, f.source, f.rreq_id, f.dest)
  BY <1>0, Zenon DEF TablesInv, Seen, SeenFrames
<1>13. \A g \in Control' :
         \/ g \in Control
         \/ /\ g.type = "rrep" /\ Passed(g.to, g.source, g.rreq_id, g.dest)
            /\ ~Answers(g.from, g.dest)
            /\ <<g.source, g.rreq_id, g.dest>> \in Requests
  <2>1. SUFFICES ASSUME NEW g \in Control', g \notin Control
                 PROVE  /\ g.type = "rrep" /\ Passed(g.to, g.source, g.rreq_id, g.dest)
                        /\ ~Answers(g.from, g.dest)
                        /\ <<g.source, g.rreq_id, g.dest>> \in Requests
    OBVIOUS
  <2>2. g \in air' /\ g \notin air
    BY <2>1 DEF Control
  <2>3. /\ f.source # n
        /\ g = RrepFrame(n, x.sender_addr, f.source, f.rreq_id, f.dest, cost)
    BY <1>1, <2>2 DEF ReplyUseful
  <2>4. /\ g.type = "rrep" /\ g.from = n /\ g.to = x.sender_addr /\ g.source = f.source
        /\ g.rreq_id = f.rreq_id /\ g.dest = f.dest
    BY <2>3 DEF RrepFrame
  <2>5. Passed(x.sender_addr, f.source, f.rreq_id, f.dest)
    BY <1>0, <1>4, <2>3 DEF TablesInv, Seen, SeenDiscs
  <2>6. ~Answers(n, f.dest)
    BY <1>12 DEF Passed
  <2>7. <<f.source, f.rreq_id, f.dest>> \in Requests
    BY <1>0, FrameRequest
  <2>. QED BY <2>4, <2>5, <2>6, <2>7
<1>14. Turns
  <2>1. \A m \in Routers : \A i \in UsedSlots(route_disc_table[m])' :
          /\ i \in UsedSlots(route_disc_table[m])
          /\ Kind(route_disc_table'[m][i], route_disc_table[m][i])
    BY <1>1, <1>3, <1>4, <1>5 DEF DiscEdited, SameDisc, Kind
  <2>2. btt' = btt /\ rreq_id' = rreq_id
    BY DEF Replies
  <2>3. <<f.source, f.rreq_id>> \in btt[n]
    BY <1>12 DEF Passed
  <2>4. \A m \in Routers : \A i \in UsedSlots(routing_table[m])' :
          /\ i \in UsedSlots(routing_table[m])
          /\ routing_table'[m][i].dest_addr = routing_table[m][i].dest_addr
          /\ \/ routing_table'[m][i].by = routing_table[m][i].by
             \/ routing_table'[m][i].by \in btt[m]
          /\ routing_table'[m][i].status # "underway" =>
               routing_table'[m][i].next_hop_addr \in Routers
    BY <1>0, <1>6, <1>8, <1>9, <2>3 DEF RouteEdited, TablesInv, HopKnown
  <2>. QED BY <1>13, <2>1, <2>2, <2>4 DEF Turns
<1>15. \A m \in Routers : \A z \in Discs(m)' : (z \in Discs(m) /\ z # x) \/ (m = n /\ z = v)
                                               \/ (z \in Discs(m) /\ m # n)
  <2>1. SUFFICES ASSUME NEW m \in Routers, NEW z \in Discs(m)', ~(m = n /\ z = v)
                 PROVE  z \in Discs(m) /\ (z # x \/ m # n)
    OBVIOUS
  <2>2. PICK i \in UsedSlots(route_disc_table[m])' : z = route_disc_table'[m][i]
    BY DEF Discs
  <2>3. SameDisc(m, i) /\ ~(m = n /\ i = e)
    BY <1>5, <2>1, <2>2 DEF DiscEdited
  <2>4. z \in Discs(m)
    BY <2>2, <2>3 DEF SameDisc, Discs
  <2>5. m = n => z # x
    BY <1>1, <1>4, <2>2, <2>3 DEF SameDisc, TablesInv, DiscOnce
  <2>. QED BY <2>4, <2>5
<1>16. ASSUME Answers(f.from, f.dest)
       PROVE  cost = ReplyCost(n, f.from, x.source_addr, x.forward_cost)
  BY <1>0, <1>1, <1>16, ReplyBrings
<1>17. BestReply'
  <2>1. SUFFICES ASSUME NEW m \in Routers, NEW z \in Discs(m)', NEW k \in z.heard,
                        Answers(k, z.dest_addr)
                 PROVE  z.residual_cost <= ReplyCost(m, k, z.source_addr, z.forward_cost)
    BY DEF BestReply, ReplyCost, Answers, PathCost, LinkCost
  <2>2. CASE z \in Discs(m)
    BY <2>1, <2>2 DEF TablesInv, Best, BestReply
  <2>3. CASE m = n /\ z = v
    <3>0. /\ z.residual_cost = cost /\ z.dest_addr = x.dest_addr
          /\ z.source_addr = x.source_addr /\ z.forward_cost = x.forward_cost
          /\ z.heard = x.heard \cup {f.from}
      BY <1>3, <2>3 DEF Kind
    <3>1. CASE k \in x.heard
      <4>1. x.residual_cost <= ReplyCost(n, k, x.source_addr, x.forward_cost)
        BY <1>0, <1>4, <2>1, <3>0, <3>1 DEF TablesInv, Best, BestReply
      <4>2. ReplyCost(n, k, x.source_addr, x.forward_cost) \in Int
        <5>1. k \in Routers /\ x.source_addr \in Routers /\ x.forward_cost \in Nat
          BY <3>1 DEF Discoveries
        <5>2. PathCost(k, x.source_addr) \in Nat /\ PathCost(n, k) \in Nat
          BY <1>0, <5>1, PathCostType
        <5>. QED BY <5>1, <5>2 DEF ReplyCost
      <4>3. cost <= x.residual_cost /\ x.residual_cost \in Nat
        BY <1>1 DEF Discoveries, ReplyUseful
      <4>. QED BY <1>0, <2>3, <3>0, <4>1, <4>2, <4>3
    <3>2. CASE k = f.from
      BY <1>0, <1>4, <1>16, <2>1, <2>3, <3>0, <3>2
    <3>. QED BY <2>1, <3>0, <3>1, <3>2
  <2>. QED BY <1>15, <2>2, <2>3
<1>18. BestHop'
  <2>1. SUFFICES ASSUME NEW m \in Routers, NEW i \in UsedSlots(routing_table[m])',
                        NEW z \in Discs(m)',
                        routing_table'[m][i].by = <<z.source_addr, z.request_id>>
                 PROVE  /\ z.dest_addr = routing_table'[m][i].dest_addr
                        /\ routing_table'[m][i].next_hop_addr \in z.heard
                        /\ Answers(routing_table'[m][i].next_hop_addr, z.dest_addr) =>
                             z.residual_cost =
                               ReplyCost(m, routing_table'[m][i].next_hop_addr,
                                         z.source_addr, z.forward_cost)
    BY DEF BestHop, ReplyCost, Answers, PathCost, LinkCost
  <2>2. CASE m = n /\ i = r
    <3>1. routing_table'[m][i] = w
      BY <1>9, <2>1, <2>2 DEF RouteEdited
    <3>2. z.source_addr = x.source_addr /\ z.request_id = x.request_id
      BY <1>4, <1>8, <2>1, <3>1
    <3>3. z = v
      <4>1. SUFFICES ASSUME z \in Discs(n), z # x PROVE FALSE
        BY <1>15, <2>2
      <4>2. PICK j \in UsedSlots(route_disc_table[n]) : z = route_disc_table[n][j]
        BY <4>1 DEF Discs
      <4>3. j = e
        BY <1>0, <1>1, <1>4, <3>2, <4>2 DEF TablesInv, DiscOnce
      <4>. QED BY <1>1, <4>1, <4>2, <4>3
    <3>. QED BY <1>3, <1>4, <1>8, <1>16, <2>2, <3>1, <3>3 DEF Kind
  <2>3. CASE ~(m = n /\ i = r)
    <3>1. i \in UsedSlots(routing_table[m]) /\ routing_table'[m][i] = routing_table[m][i]
      BY <1>9, <2>1, <2>3 DEF RouteEdited
    <3>2. CASE z \in Discs(m)
      BY <2>1, <3>1, <3>2 DEF TablesInv, Best, BestHop
    <3>3. CASE m = n /\ z = v
      <4>1. routing_table[n][i].by = <<x.source_addr, x.request_id>>
        BY <1>3, <2>1, <3>1, <3>3 DEF Kind
      <4>2. x.dest_addr = routing_table[n][i].dest_addr
        BY <1>0, <1>4, <3>1, <3>3, <4>1 DEF TablesInv, Best, BestHop
      <4>3. i = r
        BY <1>0, <1>4, <1>6, <1>8, <3>1, <3>3, <4>2 DEF TablesInv, RouteOnce
      <4>. QED BY <2>3, <3>3, <4>3
    <3>. QED BY <1>15, <3>2, <3>3
  <2>. QED BY <2>2, <2>3
<1>. QED BY <1>10, <1>11, <1>14, <1>17, <1>18, TurnsKeeps DEF Best

-----------------------------------------------------------------------------
\* The other steps.

RoutingKept ==
  /\ TablesTyped /\ RouteBacked'
  /\ HopKnown' /\ RouteOnce' /\ DiscOnce' /\ Seen' /\ OneDest' /\ Best'
  /\ btt' \in [Routers -> SUBSET (Routers \X (1 .. MaxRreq))]
  /\ rreq_id' \in [Routers -> 0 .. MaxRreq]

LEMMA QuietKeeps ==
  ASSUME TablesInv, UNCHANGED <<routing_table, route_disc_table, btt, rreq_id>>,
         Control' \subseteq Control
  PROVE  RoutingKept
<1>0. TypeOK
  BY DEF TablesInv
<1>1. TablesTyped
  BY <1>0 DEF TypeOK, TablesTyped
<1>2. Shrinks
  BY <1>0, Unchanging DEF Shrinks, SameDisc, SameRoute, Alike, Kind
<1>3. RouteBacked'
  BY DEF TablesInv, RouteBacked, DiscoveriesTo
<1>4. /\ btt' \in [Routers -> SUBSET (Routers \X (1 .. MaxRreq))]
      /\ rreq_id' \in [Routers -> 0 .. MaxRreq]
  BY <1>0 DEF TypeOK
<1>. QED BY <1>1, <1>2, <1>3, <1>4, ShrinksKeeps DEF RoutingKept

LEMMA DataQuiet ==
  ASSUME NEW n, NEW m, NEW p, air' = air \cup {DataFrame(n, m, p)}
  PROVE  Control' \subseteq Control
<1>1. DataFrame(n, m, p).type \notin {"rreq", "rrep"}
  BY DEF DataFrame
<1>. QED BY <1>1 DEF Control

LEMMA ForwardByRouteKeeps ==
  ASSUME TablesInv, NEW n \in Routers, ForwardByRoute(n)
  PROVE  RoutingKept
<1>0. TypeOK
  BY DEF TablesInv
<1> DEFINE d == Head(forward[n]).dst
           r == FindRoute(n, d)
<1>1. /\ r # NoEnt /\ routing_table[n][r].status \in {"active", "validation"}
      /\ routing_table' = [routing_table EXCEPT ![n][r].status = "active"]
      /\ air' = air \cup {DataFrame(n, routing_table[n][r].next_hop_addr, Head(forward[n]))}
      /\ route_disc_table' = route_disc_table /\ btt' = btt /\ rreq_id' = rreq_id
  BY DEF ForwardByRoute, Taken, HasRoute
<1>. HIDE DEF d
<1>2. r \in RoutesTo(n, d)
  BY <1>0, <1>1, RouteFound
<1>. HIDE DEF r
<1>3. r \in 1 .. drive.case.routes /\ r \in UsedSlots(routing_table[n])
  BY <1>0, <1>2, RouteSlots
<1>4. PICK y \in Routes : y = routing_table[n][r]
  BY <1>0, <1>3, RouteSlots
<1>5. PICK w \in Routes \cup {Free} : w = [y EXCEPT !.status = "active"]
  BY <1>4 DEF Routes
<1>6. /\ w.dest_addr = y.dest_addr /\ w.next_hop_addr = y.next_hop_addr /\ w.by = y.by
      /\ w.status = "active" /\ y.status # "underway"
  BY <1>1, <1>4, <1>5 DEF Routes
<1>7. RouteEdited(n, r, w)
  <2>1. routing_table' = [routing_table EXCEPT ![n][r] = w]
    BY <1>1, <1>4, <1>5
  <2>. QED BY <1>0, <1>3, <2>1, RouteEdit
<1>8. Control' \subseteq Control
  BY <1>1, DataQuiet
<1>9. \A m \in Routers : \A i \in UsedSlots(routing_table[m])' :
        /\ SameRoute(m, i)
        /\ routing_table'[m][i].status # "underway" => routing_table[m][i].status # "underway"
        /\ routing_table'[m][i].status # "active" => routing_table[m][i].status # "active"
  BY <1>3, <1>4, <1>6, <1>7 DEF RouteEdited, SameRoute
<1>10. Shrinks
  BY <1>0, <1>1, <1>8, <1>9, Unchanging DEF Shrinks, SameDisc, Alike, Kind
<1>11. TablesTyped
  BY <1>0, <1>1, <1>7, Unchanging DEF TablesTyped, RouteEdited
<1>12. RouteBacked'
  <2>1. \A m \in Routers : \A i \in UsedSlots(route_disc_table[m]) :
          /\ i \in UsedSlots(route_disc_table[m])'
          /\ route_disc_table'[m][i].dest_addr = route_disc_table[m][i].dest_addr
    BY <1>0, <1>1, Unchanging
  <2>2. \A m \in Routers : \A i \in UsedSlots(routing_table[m])' :
          /\ i \in UsedSlots(routing_table[m])
          /\ routing_table'[m][i].dest_addr = routing_table[m][i].dest_addr
          /\ routing_table'[m][i].status # "active" => routing_table[m][i].status # "active"
    BY <1>9 DEF SameRoute
  <2>. QED BY <2>1, <2>2, BackedStays
<1>13. /\ btt' \in [Routers -> SUBSET (Routers \X (1 .. MaxRreq))]
       /\ rreq_id' \in [Routers -> 0 .. MaxRreq]
  BY <1>0, <1>1 DEF TypeOK
<1>. QED BY <1>10, <1>11, <1>12, <1>13, ShrinksKeeps DEF RoutingKept

\* An entry that gets older is freed or stays what it is.
LEMMA AgedType ==
  ASSUME NEW x \in Discoveries \cup {Free}
  PROVE  /\ Aged(x) \in Discoveries \cup {Free}
         /\ Aged(x) # Free => x # Free /\ Alike(Aged(x), x)
         /\ x # Free /\ x.expiration_time # 0 => Aged(x) # Free
<1>0. Free \notin Discoveries
  BY FreeAssumption
<1>1. CASE x = Free \/ x.expiration_time = 0
  BY <1>1 DEF Aged
<1>2. CASE ~(x = Free \/ x.expiration_time = 0)
  <2>1. x \in Discoveries /\ Aged(x) = [x EXCEPT !.expiration_time = @ - 1]
    BY <1>2 DEF Aged
  <2>2. x.expiration_time - 1 \in 0 .. DiscExpiry
    BY <1>2, <2>1, Bounds DEF Discoveries
  <2>3. Aged(x) \in Discoveries
    BY <2>1, <2>2 DEF Discoveries
  <2>4. Alike(Aged(x), x)
    BY <2>1 DEF Discoveries, Alike, Kind
  <2>. QED BY <1>0, <1>2, <2>3, <2>4
<1>. QED BY <1>1, <1>2

\* Some entries of n get older.
SomeAged(n) ==
  /\ route_disc_table' \in [Routers -> [1 .. drive.case.discs -> Discoveries \cup {Free}]]
  /\ \A m \in Routers : m # n => route_disc_table'[m] = route_disc_table[m]
  /\ \A i \in 1 .. drive.case.discs :
       \/ route_disc_table'[n][i] = route_disc_table[n][i]
       \/ route_disc_table'[n][i] = Aged(route_disc_table[n][i])

LEMMA SomeAgedAlike ==
  ASSUME TypeOK, NEW n \in Routers, SomeAged(n)
  PROVE  /\ \A m \in Routers : \A i \in UsedSlots(route_disc_table[m])' :
              /\ i \in UsedSlots(route_disc_table[m])
              /\ Alike(route_disc_table'[m][i], route_disc_table[m][i])
         /\ \A m \in Routers : \A i \in UsedSlots(route_disc_table[m]) :
              \/ /\ i \in UsedSlots(route_disc_table[m])'
                 /\ Alike(route_disc_table'[m][i], route_disc_table[m][i])
              \/ m = n /\ i \in Expired(n) /\ route_disc_table'[n][i] = Aged(route_disc_table[n][i])
<1>1. route_disc_table \in [Routers -> [1 .. drive.case.discs -> Discoveries \cup {Free}]]
  BY DEF TypeOK
<1>2. \A m \in Routers : \A i :
        /\ i \in UsedSlots(route_disc_table[m]) <=>
             i \in 1 .. drive.case.discs /\ route_disc_table[m][i] # Free
        /\ i \in UsedSlots(route_disc_table[m])' <=>
             i \in 1 .. drive.case.discs /\ route_disc_table'[m][i] # Free
  BY <1>1 DEF SomeAged, UsedSlots, FreeSlots
<1>3. \A i \in 1 .. drive.case.discs :
        /\ Aged(route_disc_table[n][i]) # Free =>
             route_disc_table[n][i] # Free /\ Alike(Aged(route_disc_table[n][i]), route_disc_table[n][i])
        /\ route_disc_table[n][i] # Free /\ route_disc_table[n][i].expiration_time # 0 =>
             Aged(route_disc_table[n][i]) # Free
  BY <1>1, AgedType
<1>4. ASSUME NEW m \in Routers, NEW i \in 1 .. drive.case.discs,
             route_disc_table'[m][i] = route_disc_table[m][i]
      PROVE  Alike(route_disc_table'[m][i], route_disc_table[m][i])
  BY <1>4 DEF Alike, Kind
<1>5. ASSUME NEW m \in Routers, NEW i \in UsedSlots(route_disc_table[m])'
      PROVE  /\ i \in UsedSlots(route_disc_table[m])
             /\ Alike(route_disc_table'[m][i], route_disc_table[m][i])
  <2>1. CASE route_disc_table'[m][i] = route_disc_table[m][i]
    BY <1>2, <1>4, <1>5, <2>1
  <2>2. CASE m = n /\ route_disc_table'[m][i] = Aged(route_disc_table[m][i])
    BY <1>2, <1>3, <1>5, <2>2
  <2>. QED BY <1>2, <1>5, <2>1, <2>2 DEF SomeAged
<1>6. ASSUME NEW m \in Routers, NEW i \in UsedSlots(route_disc_table[m])
      PROVE  \/ /\ i \in UsedSlots(route_disc_table[m])'
                /\ Alike(route_disc_table'[m][i], route_disc_table[m][i])
             \/ /\ m = n /\ i \in Expired(n)
                /\ route_disc_table'[n][i] = Aged(route_disc_table[n][i])
  <2>1. CASE route_disc_table'[m][i] = route_disc_table[m][i]
    BY <1>2, <1>4, <1>6, <2>1
  <2>2. CASE m = n /\ route_disc_table'[m][i] = Aged(route_disc_table[m][i])
    <3>1. CASE route_disc_table[n][i].expiration_time = 0
      BY <1>6, <2>2, <3>1 DEF Expired
    <3>2. CASE route_disc_table[n][i].expiration_time # 0
      BY <1>2, <1>3, <1>6, <2>2, <3>2
    <3>. QED BY <3>1, <3>2
  <2>. QED BY <1>2, <1>6, <2>1, <2>2 DEF SomeAged
<1>. QED BY <1>5, <1>6

LEMMA ExpiryKeeps ==
  ASSUME TablesInv, NEW n \in Routers, ExpiryRouteDisc(n)
  PROVE  RoutingKept
<1> DEFINE stops == {i \in Expired(n) : InactiveTo(n, route_disc_table[n][i].dest_addr) # {}}
           stop == FirstEnt(stops)
           r == FirstEnt(InactiveTo(n, route_disc_table[n][stop].dest_addr))
<1>0. TypeOK
  BY DEF TablesInv
<1>1. /\ IF stops = {}
           THEN /\ route_disc_table' =
                     [route_disc_table EXCEPT ![n] = [i \in DOMAIN @ |-> Aged(@[i])]]
                /\ routing_table' = routing_table
           ELSE /\ route_disc_table' =
                     [route_disc_table EXCEPT ![n] =
                        [i \in DOMAIN @ |-> IF i <= stop THEN Aged(@[i]) ELSE @[i]]]
                /\ routing_table' = [routing_table EXCEPT ![n][r] = Free]
      /\ btt' = btt /\ rreq_id' = rreq_id /\ air' = air
  BY Zenon DEF ExpiryRouteDisc
<1>2. stops \in SUBSET (Nat \ {0})
  BY <1>0, DiscSlots DEF Expired
<1>3. route_disc_table \in [Routers -> [1 .. drive.case.discs -> Discoveries \cup {Free}]]
  BY <1>0 DEF TypeOK
<1>4. \A i \in 1 .. drive.case.discs : Aged(route_disc_table[n][i]) \in Discoveries \cup {Free}
  BY <1>3, AgedType
<1>5. Control' \subseteq Control
  BY <1>1, ControlSubset
<1>6. /\ btt' \in [Routers -> SUBSET (Routers \X (1 .. MaxRreq))]
      /\ rreq_id' \in [Routers -> 0 .. MaxRreq]
  BY <1>0, <1>1 DEF TypeOK
<1>7. CASE stops = {}
  <2>1. /\ route_disc_table' =
             [route_disc_table EXCEPT ![n] = [i \in DOMAIN @ |-> Aged(@[i])]]
        /\ routing_table' = routing_table
    BY <1>1, <1>7
  <2>2. SomeAged(n)
    BY <1>3, <1>4, <2>1 DEF SomeAged
  <2>3. /\ routing_table' \in [Routers -> [1 .. drive.case.routes -> Routes \cup {Free}]]
        /\ \A m \in Routers : \A i \in UsedSlots(routing_table[m])' :
             /\ i \in UsedSlots(routing_table[m])
             /\ routing_table'[m][i] = routing_table[m][i]
    BY <1>0, <2>1, Unchanging
  <2>4. Shrinks
    BY <1>0, <1>1, <1>5, <2>2, <2>3, SomeAgedAlike DEF Shrinks, SameRoute
  <2>5. TablesTyped
    BY <2>2, <2>3 DEF TablesTyped, SomeAged
  <2>6. RouteBacked'
    <3>1. SUFFICES ASSUME NEW m \in Routers, NEW i \in UsedSlots(routing_table[m])',
                          routing_table'[m][i].status # "active"
                   PROVE  \E j \in UsedSlots(route_disc_table[m])' :
                            route_disc_table'[m][j].dest_addr = routing_table'[m][i].dest_addr
      BY DEF RouteBacked, DiscoveriesTo
    <3>2. i \in UsedSlots(routing_table[m]) /\ routing_table'[m][i] = routing_table[m][i]
      BY <2>3
    <3>3. PICK j \in UsedSlots(route_disc_table[m]) :
            route_disc_table[m][j].dest_addr = routing_table[m][i].dest_addr
      BY <3>1, <3>2 DEF TablesInv, RouteBacked, DiscoveriesTo
    <3>4. ~(m = n /\ j \in Expired(n))
      <4>1. SUFFICES ASSUME m = n, j \in Expired(n) PROVE FALSE
        OBVIOUS
      <4>2. i \in InactiveTo(n, route_disc_table[n][j].dest_addr)
        BY <3>1, <3>2, <3>3, <4>1 DEF InactiveTo, RoutesTo
      <4>. QED BY <1>7, <4>1, <4>2
    <3>5. j \in UsedSlots(route_disc_table[m])' /\ Alike(route_disc_table'[m][j], route_disc_table[m][j])
      BY <1>0, <2>2, <3>4, SomeAgedAlike
    <3>. QED BY <3>2, <3>3, <3>5 DEF Alike, Kind
  <2>. QED BY <1>6, <2>4, <2>5, <2>6, ShrinksKeeps DEF RoutingKept
<1>8. CASE stops # {}
  <2>1. stop \in stops /\ \A y \in stops : stop <= y
    BY <1>2, <1>8, FirstEntIn
  <2>2. InactiveTo(n, route_disc_table[n][stop].dest_addr) \in SUBSET (Nat \ {0})
    BY <1>0, RouteSlots DEF InactiveTo
  <2>3. r \in InactiveTo(n, route_disc_table[n][stop].dest_addr)
    BY <2>1, <2>2, FirstEntIn
  <2>4. /\ route_disc_table' =
             [route_disc_table EXCEPT ![n] =
                [i \in DOMAIN @ |-> IF i <= stop THEN Aged(@[i]) ELSE @[i]]]
        /\ routing_table' = [routing_table EXCEPT ![n][r] = Free]
    BY <1>1, <1>8
  <2>5. \A i \in stops : i \in Expired(n)
    OBVIOUS
  <2>6. ASSUME NEW i \in Expired(n), InactiveTo(n, route_disc_table[n][i].dest_addr) # {}
        PROVE  i \in stops
    BY <2>6
  <2>a. stop \in Nat /\ stops \subseteq Nat
    BY <1>2, <2>1
  <2>. HIDE DEF r, stop, stops
  <2>7. SomeAged(n)
    BY <1>3, <1>4, <2>4 DEF SomeAged
  <2>8. \A i \in 1 .. drive.case.discs :
          ~(i <= stop) => route_disc_table'[n][i] = route_disc_table[n][i]
    BY <1>3, <2>4
  <2>9. /\ r \in 1 .. drive.case.routes /\ r \in RoutesTo(n, route_disc_table[n][stop].dest_addr)
        /\ r \in UsedSlots(routing_table[n])
        /\ routing_table[n][r].dest_addr = route_disc_table[n][stop].dest_addr
    BY <1>0, <2>3, RouteSlots DEF InactiveTo, RoutesTo
  <2>10. PICK v \in Routes \cup {Free} : v = Free
    OBVIOUS
  <2>11. RouteEdited(n, r, v)
    BY <1>0, <2>4, <2>9, <2>10, RouteEdit
  <2>12. /\ routing_table' \in [Routers -> [1 .. drive.case.routes -> Routes \cup {Free}]]
         /\ \A m \in Routers : \A i \in UsedSlots(routing_table[m])' :
              /\ i \in UsedSlots(routing_table[m]) /\ ~(m = n /\ i = r)
              /\ routing_table'[m][i] = routing_table[m][i]
    BY <2>10, <2>11 DEF RouteEdited
  <2>13. Shrinks
    BY <1>0, <1>1, <1>5, <2>7, <2>12, SomeAgedAlike DEF Shrinks, SameRoute
  <2>14. TablesTyped
    BY <2>7, <2>12 DEF TablesTyped, SomeAged
  <2>15. RouteBacked'
    <3>1. SUFFICES ASSUME NEW m \in Routers, NEW i \in UsedSlots(routing_table[m])',
                          routing_table'[m][i].status # "active"
                   PROVE  \E j \in UsedSlots(route_disc_table[m])' :
                            route_disc_table'[m][j].dest_addr = routing_table'[m][i].dest_addr
      BY DEF RouteBacked, DiscoveriesTo
    <3>2. /\ i \in UsedSlots(routing_table[m]) /\ routing_table'[m][i] = routing_table[m][i]
          /\ ~(m = n /\ i = r)
      BY <2>12
    <3>3. PICK j \in UsedSlots(route_disc_table[m]) :
            route_disc_table[m][j].dest_addr = routing_table[m][i].dest_addr
      BY <3>1, <3>2 DEF TablesInv, RouteBacked, DiscoveriesTo
    <3>4. CASE /\ j \in UsedSlots(route_disc_table[m])'
               /\ Alike(route_disc_table'[m][j], route_disc_table[m][j])
      BY <3>2, <3>3, <3>4 DEF Alike, Kind
    <3>5. CASE /\ m = n /\ j \in Expired(n)
               /\ j \notin UsedSlots(route_disc_table[m])'
      <4>1. i \in InactiveTo(n, route_disc_table[n][j].dest_addr)
        BY <3>1, <3>2, <3>3, <3>5 DEF InactiveTo, RoutesTo
      <4>2. j \in stops
        BY <2>6, <3>5, <4>1
      <4>3. j # stop
        BY <2>9, <3>2, <3>3, <3>5 DEF TablesInv, RouteOnce
      <4>4. j \in Nat /\ stop <= j
        BY <2>1, <2>a, <4>2
      <4>5. ~(j <= stop)
        BY <2>a, <4>3, <4>4
      <4>6. j \in 1 .. drive.case.discs
        BY <1>0, <3>3, DiscSlots
      <4>7. route_disc_table'[n][j] = route_disc_table[n][j]
        BY <2>8, <4>5, <4>6
      <4>8. j \in UsedSlots(route_disc_table[n])'
        BY <1>3, <2>7, <3>3, <3>5, <4>6, <4>7 DEF SomeAged, UsedSlots, FreeSlots
      <4>. QED BY <3>5, <4>8
    <3>6. CASE /\ m = n /\ j \in Expired(n)
               /\ j \in UsedSlots(route_disc_table[m])'
      BY <1>0, <2>7, <3>2, <3>3, <3>6, SomeAgedAlike DEF Alike, Kind
    <3>. QED BY <1>0, <2>7, <3>3, <3>4, <3>5, <3>6, SomeAgedAlike
  <2>. QED BY <1>6, <2>13, <2>14, <2>15, ShrinksKeeps DEF RoutingKept
<1>. QED BY <1>7, <1>8

\* A set of slots is finite.
LEMMA SlotsFinite ==
  ASSUME NEW N \in Nat, NEW W \in SUBSET (1 .. N)
  PROVE  IsFiniteSet(W) /\ Cardinality(W) \in Nat
<1>1. 1 \in Int /\ N \in Int
  OBVIOUS
<1>2. IsFiniteSet(1 .. N)
  BY <1>1, FS_Interval, Zenon
<1>3. IsFiniteSet(W)
  BY <1>2, FS_Subset
<1>. QED BY <1>3, FS_CardinalityType

\* The elements of a set that are below one of its elements are fewer than those
\* below a greater one.
LEMMA BelowStrict ==
  ASSUME NEW N \in Nat, NEW W \in SUBSET (1 .. N), NEW a \in W, NEW b \in W, a < b
  PROVE  Cardinality({j \in W : j < a}) # Cardinality({j \in W : j < b})
<1> DEFINE A == {j \in W : j < a}
           B == {j \in W : j < b}
<1>1. IsFiniteSet(W)
  BY SlotsFinite
<1>2. IsFiniteSet(B)
  BY <1>1, FS_Subset
<1>3. \A j \in W : j \in Int
  OBVIOUS
<1>4. A \in SUBSET B
  <2>1. a \in Int /\ b \in Int
    BY <1>3
  <2>2. \A j \in W : j < a => j < b
    BY <1>3, <2>1
  <2>. QED BY <2>2
<1>5. a \in B /\ a \notin A
  BY <1>3
<1>. HIDE DEF A, B
<1>6. A # B
  BY <1>5
<1>7. Cardinality(B) # Cardinality(A)
  BY <1>2, <1>4, <1>6, FS_Subset
<1>. QED BY <1>7 DEF A, B

LEMMA RankType ==
  ASSUME NEW N \in Nat, NEW W \in SUBSET (1 .. N), NEW i \in W
  PROVE  Cardinality({j \in W : j < i}) + 1 \in 1 .. Cardinality(W)
<1> DEFINE A == {j \in W : j < i}
<1>1. IsFiniteSet(W)
  BY SlotsFinite
<1>2. i \in Int
  OBVIOUS
<1>3. A \in SUBSET W /\ A # W
  BY <1>2
<1>. HIDE DEF A
<1>4. /\ IsFiniteSet(A) /\ Cardinality(A) <= Cardinality(W)
      /\ Cardinality(A) # Cardinality(W)
  BY <1>1, <1>3, FS_Subset
<1>5. Cardinality(A) \in Nat /\ Cardinality(W) \in Nat
  BY <1>1, <1>4, FS_CardinalityType
<1>6. Cardinality(A) + 1 \in 1 .. Cardinality(W)
  BY <1>4, <1>5
<1>. QED BY <1>6 DEF A

\* Slot numbers the slots of a set in their order.
LEMMA SlotIn ==
  ASSUME NEW N \in Nat, NEW W \in SUBSET (1 .. N)
  PROVE  /\ Cardinality(W) \in Nat
         /\ \A k \in 1 .. Cardinality(W) : Slot(W, k) \in W
         /\ \A k, l \in 1 .. Cardinality(W) : Slot(W, k) = Slot(W, l) => k = l
<1> DEFINE rank == [i \in W |-> Cardinality({j \in W : j < i}) + 1]
<1>1. IsFiniteSet(W) /\ Cardinality(W) \in Nat
  BY SlotsFinite
<1>2. IsFiniteSet(1 .. Cardinality(W)) /\ Cardinality(1 .. Cardinality(W)) = Cardinality(W)
  BY <1>1, FS_Interval
<1>3. rank \in [W -> 1 .. Cardinality(W)]
  BY RankType
<1>4. ASSUME NEW a \in W, NEW b \in W, rank[a] = rank[b]
      PROVE  a = b
  <2>1. a \in Int /\ b \in Int
    OBVIOUS
  <2>2. Cardinality({j \in W : j < a}) + 1 \in 1 .. Cardinality(W)
    BY RankType
  <2>3. Cardinality({j \in W : j < b}) + 1 \in 1 .. Cardinality(W)
    BY RankType
  <2>4. IsFiniteSet({j \in W : j < a}) /\ IsFiniteSet({j \in W : j < b})
    BY <1>1, FS_Subset
  <2>5. /\ Cardinality({j \in W : j < a}) \in Nat
        /\ Cardinality({j \in W : j < b}) \in Nat
    BY <2>4, FS_CardinalityType
  <2>6. Cardinality({j \in W : j < a}) = Cardinality({j \in W : j < b})
    BY <1>4, <2>5
  <2>7. ~(a < b) /\ ~(b < a)
    BY <2>6, BelowStrict
  <2>. QED BY <2>1, <2>7
<1>5. rank \in Injection(W, 1 .. Cardinality(W))
  BY <1>3, <1>4 DEF Injection, IsInjective
<1>. HIDE DEF rank
<1>6. rank \in Surjection(W, 1 .. Cardinality(W))
  BY <1>1, <1>2, <1>5, FS_Injection
<1>7. \A k \in 1 .. Cardinality(W) : \E i \in W : rank[i] = k
  BY <1>6 DEF Surjection
<1>8. ASSUME NEW k \in 1 .. Cardinality(W)
      PROVE  Slot(W, k) \in W /\ Cardinality({j \in W : j < Slot(W, k)}) = k - 1
  <2>1. PICK i \in W : rank[i] = k
    BY <1>7
  <2>2. Cardinality({j \in W : j < i}) + 1 = k
    BY <2>1 DEF rank
  <2>3. IsFiniteSet({j \in W : j < i})
    BY <1>1, FS_Subset
  <2>4. Cardinality({j \in W : j < i}) \in Nat
    BY <2>3, FS_CardinalityType
  <2>5. Cardinality({j \in W : j < i}) = k - 1
    BY <2>2, <2>4
  <2>. QED BY <2>5, Zenon DEF Slot
<1>9. ASSUME NEW k \in 1 .. Cardinality(W), NEW l \in 1 .. Cardinality(W),
             Slot(W, k) = Slot(W, l)
      PROVE  k = l
  <2>1. k - 1 = l - 1
    BY <1>8, <1>9
  <2>. QED BY <1>1, <2>1
<1>. QED BY <1>1, <1>8, <1>9

-----------------------------------------------------------------------------
\* The rest of the state has its type after every step.

\* What is left to show of a step that keeps the routing part.
OthersTyped ==
  /\ pending_table' \in [Routers -> [1 .. drive.case.pends -> Pendings \cup {Free}]]
  /\ forward' \in [Routers -> Seq(Packets)]
  /\ wanted' \in [Routers -> Nat]
  /\ disc_alarm' \in [Routers -> BOOLEAN] /\ report' \in [Routers -> BOOLEAN]
  /\ perepil' \subseteq Routers
  /\ drive' \in [case : Cases, sent : 0 .. drive.case.packets]
  /\ drive'.case = drive.case
  /\ air' \subseteq Frames

LEMMA StepTyped ==
  ASSUME RoutingKept, OthersTyped
  PROVE  TablesInv'
<1>1. TypeOK'
  BY DEF RoutingKept, TablesTyped, OthersTyped, TypeOK
<1>. QED BY <1>1 DEF RoutingKept, TablesInv

\* What a request that is handled leaves behind.
LEMMA MeetsKeeps ==
  ASSUME TablesInv, NEW n, NEW sender, NEW source, NEW id, NEW d, NEW cost, NEW radius,
         NEW others, Meets(n, sender, source, id, d, cost, radius, others)
  PROVE  RoutingKept /\ air' \subseteq Frames
<1>0. TypeOK
  BY DEF TablesInv
<1>1. TablesTyped
  BY <1>0, MeetsRoutes, MeetsDiscs, Zenon DEF TablesTyped
<1>2. HopKnown' /\ RouteOnce'
  BY MeetsKeepsRoutes, Zenon
<1>3. DiscOnce' /\ OneDest' /\ RouteBacked'
  BY MeetsKeepsDiscs, MeetsKeepsDest, MeetsKeepsBacked, Zenon
<1>4. Seen' /\ btt' \in [Routers -> SUBSET (Routers \X (1 .. MaxRreq))]
  BY MeetsKeepsSeen, Zenon
<1>5. CostKept' /\ BestReply' /\ BestHop'
  BY MeetsKeepsCost, MeetsKeepsBest, Zenon
<1>6. rreq_id' \in [Routers -> 0 .. MaxRreq]
  BY DEF Meets
<1>7. air' \subseteq Frames
  BY <1>0, MeetsFrames, Zenon
<1>. QED BY <1>1, <1>2, <1>3, <1>4, <1>5, <1>6, <1>7 DEF RoutingKept, Best

LEMMA RouteDiscoveryKeeps ==
  ASSUME TablesInv, NEW n \in Routers, NEW d \in Devices, RouteDiscovery(n, d)
  PROVE  RoutingKept /\ air' \subseteq Frames
<1>1. PICK id, cost : Meets(n, n, n, id, d, cost, MaxRadius, air)
  BY OwnMeets, Zenon DEF TablesInv
<1>. QED BY <1>1, MeetsKeeps, Zenon

LEMMA RequestKeeps ==
  ASSUME TablesInv, NEW n \in Routers, NEW d \in Devices, RouteDiscoveryRequest(n, d)
  PROVE  TablesInv'
<1>1. RoutingKept /\ air' \subseteq Frames
  BY RouteDiscoveryKeeps, Zenon DEF RouteDiscoveryRequest
<1>2. OthersTyped
  BY <1>1 DEF RouteDiscoveryRequest, bufVars, OthersTyped, TablesInv, TypeOK
<1>. QED BY <1>1, <1>2, StepTyped

LEMMA ReceiveRreqKeeps ==
  ASSUME TablesInv, NEW f \in air, ReceiveRreq(f)
  PROVE  TablesInv'
<1>1. CASE /\ UNCHANGED <<routing_table, route_disc_table, btt, rreq_id>>
           /\ air' \subseteq air
  <2>1. RoutingKept
    BY <1>1, ControlSubset, QuietKeeps
  <2>2. air' \subseteq Frames
    BY <1>1 DEF TablesInv, TypeOK
  <2>3. OthersTyped
    BY <2>2 DEF ReceiveRreq, bufVars, OthersTyped, TablesInv, TypeOK
  <2>. QED BY <2>1, <2>3, StepTyped
<1>2. CASE \E n, sender, source, id, d, cost, radius :
             Meets(n, sender, source, id, d, cost, radius, air \ {f})
  <2>1. RoutingKept /\ air' \subseteq Frames
    BY <1>2, MeetsKeeps, Zenon
  <2>3. OthersTyped
    BY <2>1 DEF ReceiveRreq, bufVars, OthersTyped, TablesInv, TypeOK
  <2>. QED BY <2>1, <2>3, StepTyped
<1>3. \/ /\ UNCHANGED <<routing_table, route_disc_table, btt, rreq_id>>
         /\ air' \subseteq air
      \/ \E n, sender, source, id, d, cost, radius :
           Meets(n, sender, source, id, d, cost, radius, air \ {f})
  BY FrameMeets, Zenon DEF TablesInv, Best
<1>. QED BY <1>1, <1>2, <1>3

\* One entry of the pending table is set.
PendEdited(n, i, v) ==
  /\ pending_table' \in [Routers -> [1 .. drive.case.pends -> Pendings \cup {Free}]]
  /\ \A m \in Routers : \A j \in UsedSlots(pending_table[m])' :
       \/ m = n /\ i = j /\ pending_table'[m][j] = v
       \/ j \in UsedSlots(pending_table[m]) /\ pending_table'[m][j] = pending_table[m][j]

LEMMA PendEdit ==
  ASSUME TypeOK, NEW n \in Routers, NEW i \in 1 .. drive.case.pends,
         NEW v \in Pendings \cup {Free}, pending_table' = [pending_table EXCEPT ![n][i] = v]
  PROVE  PendEdited(n, i, v)
<1>1. pending_table \in [Routers -> [1 .. drive.case.pends -> Pendings \cup {Free}]]
  BY DEF TypeOK
<1>2. pending_table' \in [Routers -> [1 .. drive.case.pends -> Pendings \cup {Free}]]
  BY <1>1
<1>3. ASSUME NEW m \in Routers, NEW j \in 1 .. drive.case.pends
      PROVE  pending_table'[m][j] = IF m = n /\ j = i THEN v ELSE pending_table[m][j]
  BY <1>1
<1>4. \A m \in Routers : \A j :
        /\ j \in UsedSlots(pending_table[m]) <=>
             j \in 1 .. drive.case.pends /\ pending_table[m][j] # Free
        /\ j \in UsedSlots(pending_table[m])' <=>
             j \in 1 .. drive.case.pends /\ pending_table'[m][j] # Free
  BY <1>1, <1>2 DEF UsedSlots, FreeSlots
<1>. QED BY <1>2, <1>3, <1>4 DEF PendEdited

\* The first packet that waits for a buffer has got it.
LEMMA InitiatePends ==
  ASSUME TypeOK, NEW n \in Routers, NEW p,
         p = FirstEnt({i \in UsedSlots(pending_table[n]) : pending_table[n][i].waiting_buf}),
         p # NoEnt,
         pending_table' = [pending_table EXCEPT ![n][p].waiting_buf = FALSE]
  PROVE  /\ p \in UsedSlots(pending_table[n])
         /\ pending_table[n][p].dest_addr \in Devices
         /\ pending_table' \in [Routers -> [1 .. drive.case.pends -> Pendings \cup {Free}]]
         /\ \A m \in Routers : \A j \in UsedSlots(pending_table[m])' :
              /\ j \in UsedSlots(pending_table[m])
              /\ pending_table'[m][j].packet = pending_table[m][j].packet
<1> DEFINE S == {i \in UsedSlots(pending_table[n]) : pending_table[n][i].waiting_buf}
<1>1. S \in SUBSET (Nat \ {0})
  BY PendSlots
<1>2. p \in S
  <2>1. p = FirstEnt(S)
    OBVIOUS
  <2>. HIDE DEF S
  <2>. QED BY <1>1, <2>1, FirstEntIn
<1>3. p \in UsedSlots(pending_table[n])
  BY <1>2
<1>4. pending_table[n][p] \in Pendings /\ p \in 1 .. drive.case.pends
  BY <1>3, PendSlots
<1>5. PICK x \in Pendings : x = pending_table[n][p]
  BY <1>4
<1>6. PICK v \in Pendings : v = [x EXCEPT !.waiting_buf = FALSE]
  BY DEF Pendings
<1>7. v.packet = x.packet
  BY <1>6 DEF Pendings
<1>8. pending_table' = [pending_table EXCEPT ![n][p] = v]
  <2>1. pending_table' = [pending_table EXCEPT ![n][p] = [@ EXCEPT !.waiting_buf = FALSE]]
    OBVIOUS
  <2>. QED BY <1>4, <1>5, <1>6, <2>1 DEF TypeOK
<1>9. v \in Pendings \cup {Free}
  OBVIOUS
<1>10. PendEdited(n, p, v)
  BY <1>4, <1>8, <1>9, PendEdit
<1>11. pending_table[n][p].dest_addr \in Devices
  BY <1>4 DEF Pendings
<1>12. ASSUME NEW m \in Routers, NEW j \in UsedSlots(pending_table[m])'
       PROVE  /\ j \in UsedSlots(pending_table[m])
              /\ pending_table'[m][j].packet = pending_table[m][j].packet
  <2>1. CASE m = n /\ p = j /\ pending_table'[m][j] = v
    BY <1>3, <1>5, <1>7, <2>1
  <2>2. CASE j \in UsedSlots(pending_table[m]) /\ pending_table'[m][j] = pending_table[m][j]
    BY <2>2
  <2>. QED BY <1>10, <1>12, <2>1, <2>2 DEF PendEdited
<1>. QED BY <1>3, <1>10, <1>11, <1>12 DEF PendEdited

LEMMA InitiateKeeps ==
  ASSUME TablesInv, NEW n \in Routers, InitiateRouteDiscovery(n)
  PROVE  TablesInv'
<1> DEFINE p == FirstEnt({i \in UsedSlots(pending_table[n]) : pending_table[n][i].waiting_buf})
<1>0. TypeOK
  BY DEF TablesInv
<1>1. /\ wanted[n] > 0 /\ wanted' = [wanted EXCEPT ![n] = @ - 1]
      /\ forward' = forward /\ disc_alarm' = disc_alarm /\ report' = report /\ drive' = drive
  BY Zenon DEF InitiateRouteDiscovery
<1>2. wanted' \in [Routers -> Nat]
  BY <1>0, <1>1 DEF TypeOK
<1>3. CASE p # NoEnt
  <2>1. /\ RouteDiscovery(n, pending_table[n][p].dest_addr)
        /\ pending_table' = [pending_table EXCEPT ![n][p].waiting_buf = FALSE]
        /\ perepil' = perepil
    BY <1>3, Zenon DEF InitiateRouteDiscovery
  <2>. HIDE DEF p
  <2>2. /\ pending_table[n][p].dest_addr \in Devices
        /\ pending_table' \in [Routers -> [1 .. drive.case.pends -> Pendings \cup {Free}]]
    BY <1>0, <1>3, <2>1, InitiatePends DEF p
  <2>3. RoutingKept /\ air' \subseteq Frames
    BY <2>1, <2>2, RouteDiscoveryKeeps
  <2>4. OthersTyped
    BY <1>0, <1>1, <1>2, <2>1, <2>2, <2>3 DEF OthersTyped, TypeOK
  <2>. QED BY <2>3, <2>4, StepTyped
<1>4. CASE p = NoEnt
  <2>1. perepil' = perepil \cup {n} /\ UNCHANGED <<tables, rreq_id, btt, air>>
    BY <1>4, Zenon DEF InitiateRouteDiscovery
  <2>. HIDE DEF p
  <2>2. Control' \subseteq Control
    BY <2>1 DEF Control
  <2>3. RoutingKept
    BY <2>1, <2>2, QuietKeeps DEF tables
  <2>4. OthersTyped
    BY <1>0, <1>1, <1>2, <2>1 DEF OthersTyped, TypeOK, tables
  <2>. QED BY <2>3, <2>4, StepTyped
<1>. QED BY <1>3, <1>4

\* The indexes of the packets that wait for zb_nwk_forward.
LEMMA ForwardSeq ==
  ASSUME TypeOK, NEW n \in Routers
  PROVE  /\ forward[n] \in Seq(Packets)
         /\ Len(forward[n]) \in Nat
         /\ DOMAIN forward[n] = 1 .. Len(forward[n])
         /\ \A k \in 1 .. Len(forward[n]) : forward[n][k] \in Packets
BY LenProperties, ElementOfSeq DEF TypeOK

\* A packet is added at the end.
Added(n, q) ==
  /\ forward' \in [Routers -> Seq(Packets)]
  /\ \A m \in Routers : \A k \in DOMAIN forward'[m] :
       \/ k \in DOMAIN forward[m] /\ forward'[m][k] = forward[m][k]
       \/ m = n /\ k = Len(forward[n]) + 1 /\ forward'[m][k] = q

LEMMA AppendAdds ==
  ASSUME TypeOK, NEW n \in Routers, NEW q \in Packets,
         forward' = [forward EXCEPT ![n] = Append(@, q)]
  PROVE  Added(n, q)
<1>1. forward \in [Routers -> Seq(Packets)]
  BY DEF TypeOK
<1>2. forward'[n] = Append(forward[n], q)
  BY <1>1
<1>3. forward[n] \in Seq(Packets) /\ Append(forward[n], q) \in Seq(Packets)
  BY <1>1
<1>4. forward' \in [Routers -> Seq(Packets)]
  BY <1>1, <1>3
<1>5. Len(forward'[n]) = Len(forward[n]) + 1
  BY <1>2, <1>3
<1>6. DOMAIN forward'[n] = 1 .. Len(forward[n]) + 1 /\ DOMAIN forward[n] = 1 .. Len(forward[n])
  BY <1>2, <1>3, <1>5, LenProperties
<1>7. \A k \in 1 .. Len(forward[n]) : forward'[n][k] = forward[n][k]
  BY <1>2, <1>3
<1>8. forward'[n][Len(forward[n]) + 1] = q
  BY <1>2, <1>3
<1>9. Len(forward[n]) \in Nat
  BY <1>3, LenProperties
<1>10. ASSUME NEW m \in Routers, NEW k \in DOMAIN forward'[m]
       PROVE  \/ k \in DOMAIN forward[m] /\ forward'[m][k] = forward[m][k]
              \/ m = n /\ k = Len(forward[n]) + 1 /\ forward'[m][k] = q
  <2>1. CASE m # n
    BY <1>1, <1>10, <2>1
  <2>2. CASE m = n
    <3>1. k \in 1 .. Len(forward[n]) + 1
      BY <1>6, <1>10, <2>2
    <3>2. k \in 1 .. Len(forward[n]) \/ k = Len(forward[n]) + 1
      BY <1>9, <3>1
    <3>. QED BY <1>6, <1>7, <1>8, <2>2, <3>2
  <2>. QED BY <2>1, <2>2
<1>. QED BY <1>4, <1>10 DEF Added

LEMMA SendAdds ==
  ASSUME TypeOK, NEW n \in Routers, NEW d \in Devices, Send(n, d)
  PROVE  /\ \E q \in Packets : q.id = drive.sent + 1 /\ Added(n, q)
         /\ drive' \in [case : Cases, sent : 0 .. drive.case.packets]
         /\ drive'.case = drive.case /\ drive'.sent = drive.sent + 1
<1>1. drive.sent < drive.case.packets /\ drive' = [drive EXCEPT !.sent = @ + 1]
  BY DEF Send
<1>2. /\ drive.case \in Cases /\ drive.case.packets \in Nat
      /\ drive.sent \in 0 .. drive.case.packets
      /\ drive \in [case : Cases, sent : 0 .. drive.case.packets]
  BY CaseTyped DEF TypeOK
<1>3. drive.sent + 1 \in 1 .. drive.case.packets
  BY <1>1, <1>2
<1>4. drive.sent + 1 \in PacketIds
  BY <1>2, <1>3 DEF PacketIds
<1>5. MaxRadius \in 1 .. MaxRadius
  BY Bounds
<1>6. PICK q \in Packets : q = [id |-> drive.sent + 1, dst |-> d, radius |-> MaxRadius]
  BY <1>4, <1>5 DEF Packets
<1>7. forward' = [forward EXCEPT ![n] = Append(@, q)]
  BY <1>6 DEF Send
<1>8. Added(n, q)
  BY <1>7, AppendAdds
<1>9. drive' \in [case : Cases, sent : 0 .. drive.case.packets]
  BY <1>1, <1>2, <1>3
<1>10. drive'.case = drive.case /\ drive'.sent = drive.sent + 1
  BY <1>1, <1>2
<1>. QED BY <1>6, <1>8, <1>9, <1>10

LEMMA SendKeeps ==
  ASSUME TablesInv, NEW n \in Routers, NEW d \in Devices, Send(n, d)
  PROVE  TablesInv'
<1>0. TypeOK
  BY DEF TablesInv
<1>1. UNCHANGED <<tables, rreq_id, btt, bufVars, air>>
  BY DEF Send
<1>2. Control' \subseteq Control
  BY <1>1 DEF Control
<1>3. RoutingKept
  BY <1>1, <1>2, QuietKeeps DEF tables
<1>4. /\ forward' \in [Routers -> Seq(Packets)]
      /\ drive' \in [case : Cases, sent : 0 .. drive.case.packets]
      /\ drive'.case = drive.case
  BY <1>0, SendAdds DEF Added
<1>5. OthersTyped
  BY <1>0, <1>1, <1>4 DEF OthersTyped, TypeOK, tables, bufVars
<1>. QED BY <1>3, <1>5, StepTyped

\* zb_nwk_forward takes the first packet of n.
Shifted(n) ==
  /\ forward' \in [Routers -> Seq(Packets)]
  /\ 1 \in DOMAIN forward[n] /\ Head(forward[n]) = forward[n][1]
  /\ Head(forward[n]) \in Packets
  /\ \A m \in Routers : \A k \in DOMAIN forward'[m] :
       IF m = n THEN k + 1 \in DOMAIN forward[n] /\ forward'[n][k] = forward[n][k + 1]
       ELSE k \in DOMAIN forward[m] /\ forward'[m][k] = forward[m][k]

LEMMA TakenShifts ==
  ASSUME TypeOK, NEW n \in Routers, Taken(n)
  PROVE  Shifted(n)
<1>1. forward \in [Routers -> Seq(Packets)] /\ forward[n] # << >>
  BY DEF TypeOK, Taken
<1>2. forward[n] \in Seq(Packets)
  BY <1>1
<1>3. forward' = [forward EXCEPT ![n] = Tail(@)]
  BY DEF Taken
<1>4. forward'[n] = Tail(forward[n])
  BY <1>1, <1>3
<1>5. /\ Head(forward[n]) \in Packets
      /\ Tail(forward[n]) \in Seq(Packets)
      /\ Len(Tail(forward[n])) = Len(forward[n]) - 1
      /\ \A k \in 1 .. Len(Tail(forward[n])) : Tail(forward[n])[k] = forward[n][k + 1]
  BY <1>1, <1>2, HeadTailProperties
<1>6. forward' \in [Routers -> Seq(Packets)]
  BY <1>1, <1>3, <1>5
<1>7. /\ DOMAIN forward[n] = 1 .. Len(forward[n]) /\ Len(forward[n]) \in Nat
      /\ DOMAIN forward'[n] = 1 .. Len(Tail(forward[n]))
  BY <1>2, <1>4, <1>5, LenProperties
<1>8. Len(forward[n]) # 0
  BY <1>1, <1>2, EmptySeq
<1>9. 1 \in DOMAIN forward[n] /\ Head(forward[n]) = forward[n][1]
  BY <1>2, <1>7, <1>8
<1>10. ASSUME NEW m \in Routers, NEW k \in DOMAIN forward'[m]
       PROVE  IF m = n THEN k + 1 \in DOMAIN forward[n] /\ forward'[n][k] = forward[n][k + 1]
              ELSE k \in DOMAIN forward[m] /\ forward'[m][k] = forward[m][k]
  <2>1. CASE m # n
    BY <1>1, <1>3, <1>10, <2>1
  <2>2. CASE m = n
    <3>1. k \in 1 .. Len(forward[n]) - 1
      BY <1>5, <1>7, <1>10, <2>2
    <3>2. k + 1 \in 1 .. Len(forward[n])
      BY <1>7, <3>1
    <3>3. forward'[n][k] = forward[n][k + 1]
      BY <1>4, <1>5, <3>1
    <3>. QED BY <1>7, <2>2, <3>2, <3>3
  <2>. QED BY <2>1, <2>2
<1>. QED BY <1>5, <1>6, <1>9, <1>10 DEF Shifted

\* A packet on the air.
LEMMA DataFrameType ==
  ASSUME NEW n \in Routers, NEW m \in Devices, NEW p \in Packets
  PROVE  DataFrame(n, m, p) \in Frames
BY DEF DataFrame, Frames

LEMMA RoutersAreDevices == Routers \subseteq Devices
BY DEF Devices

LEMMA NeighborsAreDevices ==
  ASSUME NEW n \in Routers
  PROVE  Neighbors[n] \subseteq Devices
BY DEF Devices

LEMMA ToNeighborKeeps ==
  ASSUME TablesInv, NEW n \in Routers, ForwardToNeighbor(n)
  PROVE  TablesInv'
<1> DEFINE p == Head(forward[n])
<1>0. TypeOK
  BY DEF TablesInv
<1>1. Taken(n) /\ Shifted(n)
  BY <1>0, TakenShifts DEF ForwardToNeighbor
<1>2. /\ p.dst \in Neighbors[n] /\ air' = air \cup {DataFrame(n, p.dst, p)}
      /\ tables' = tables /\ wanted' = wanted
  BY Zenon DEF ForwardToNeighbor
<1>3. p \in Packets /\ forward' \in [Routers -> Seq(Packets)]
  BY <1>1 DEF Shifted
<1>. HIDE DEF p
<1>4. p.dst \in Devices
  BY <1>2, NeighborsAreDevices
<1>5. DataFrame(n, p.dst, p) \in Frames
  BY <1>3, <1>4, DataFrameType
<1>6. Control' \subseteq Control
  BY <1>2, DataQuiet
<1>7. RoutingKept
  BY <1>1, <1>2, <1>6, QuietKeeps DEF tables, Taken
<1>8. OthersTyped
  BY <1>0, <1>1, <1>2, <1>3, <1>5 DEF OthersTyped, TypeOK, Taken, tables
<1>. QED BY <1>7, <1>8, StepTyped

\* A route that is used leads to a router.
LEMMA HopIsRouter ==
  ASSUME TablesInv, NEW n \in Routers, NEW d, HasRoute(n, d)
  PROVE  routing_table[n][FindRoute(n, d)].next_hop_addr \in Routers
<1>1. FindRoute(n, d) \in RoutesTo(n, d)
  BY RouteFound DEF TablesInv, HasRoute
<1>2. FindRoute(n, d) \in UsedSlots(routing_table[n])
  BY <1>1 DEF RoutesTo
<1>. QED BY <1>2 DEF TablesInv, HopKnown, HasRoute

LEMMA ByRouteKeeps ==
  ASSUME TablesInv, NEW n \in Routers, ForwardByRoute(n)
  PROVE  TablesInv'
<1> DEFINE p == Head(forward[n])
           hop == routing_table[n][FindRoute(n, p.dst)].next_hop_addr
<1>0. TypeOK
  BY DEF TablesInv
<1>1. Taken(n) /\ Shifted(n)
  BY <1>0, TakenShifts DEF ForwardByRoute
<1>2. /\ HasRoute(n, p.dst) /\ air' = air \cup {DataFrame(n, hop, p)}
      /\ pending_table' = pending_table /\ wanted' = wanted
  BY Zenon DEF ForwardByRoute
<1>3. p \in Packets /\ forward' \in [Routers -> Seq(Packets)]
  BY <1>1 DEF Shifted
<1>4. hop \in Devices
  BY <1>2, HopIsRouter, RoutersAreDevices
<1>. HIDE DEF p, hop
<1>5. DataFrame(n, hop, p) \in Frames
  BY <1>3, <1>4, DataFrameType
<1>6. RoutingKept
  BY ForwardByRouteKeeps
<1>7. OthersTyped
  BY <1>0, <1>1, <1>2, <1>3, <1>5 DEF OthersTyped, TypeOK, Taken
<1>. QED BY <1>6, <1>7, StepTyped

LEMMA DropKeeps ==
  ASSUME TablesInv, NEW n \in Routers, ForwardDrop(n)
  PROVE  TablesInv'
<1>0. TypeOK
  BY DEF TablesInv
<1>1. Taken(n) /\ Shifted(n)
  BY <1>0, TakenShifts DEF ForwardDrop
<1>2. tables' = tables /\ wanted' = wanted /\ air' = air
  BY DEF ForwardDrop
<1>3. Control' \subseteq Control
  BY <1>2 DEF Control
<1>4. RoutingKept
  BY <1>1, <1>2, <1>3, QuietKeeps DEF tables, Taken
<1>5. OthersTyped
  BY <1>0, <1>1, <1>2 DEF OthersTyped, TypeOK, Taken, tables, Shifted
<1>. QED BY <1>4, <1>5, StepTyped

\* A packet that waits takes a free slot.
LEMMA PendTakes ==
  ASSUME TypeOK, NEW n \in Routers, ForwardPend(n)
  PROVE  \E slot : \E v \in Pendings :
           /\ slot \notin UsedSlots(pending_table[n]) /\ v.packet = Head(forward[n])
           /\ PendEdited(n, slot, v)
<1> DEFINE p == Head(forward[n])
           slot == FirstEnt(FreeSlots(pending_table[n]))
<1>1. Shifted(n)
  BY TakenShifts DEF ForwardPend
<1>2. /\ slot # NoEnt
      /\ pending_table' =
           [pending_table EXCEPT ![n][slot] =
              [packet |-> p, dest_addr |-> p.dst, expiry |-> PendExpiry, waiting_buf |-> TRUE]]
  BY Zenon DEF ForwardPend
<1>3. p \in Packets
  BY <1>1 DEF Shifted
<1>4. FreeSlots(pending_table[n]) \in SUBSET (Nat \ {0})
  BY PendSlots
<1>5. slot \in FreeSlots(pending_table[n])
  BY <1>2, <1>4, FirstEntIn
<1>. HIDE DEF slot, p
<1>6. slot \in 1 .. drive.case.pends
  BY <1>5, PendSlots
<1>7. PendExpiry \in 0 .. PendExpiry
  BY Bounds
<1>8. PICK v \in Pendings : v = [packet |-> p, dest_addr |-> p.dst, expiry |-> PendExpiry,
                                 waiting_buf |-> TRUE]
  BY <1>3, <1>7 DEF Pendings, Packets
<1>9. v \in Pendings \cup {Free}
  OBVIOUS
<1>10. PendEdited(n, slot, v)
  BY <1>2, <1>6, <1>8, <1>9, PendEdit
<1>11. slot \notin UsedSlots(pending_table[n])
  BY <1>5 DEF UsedSlots
<1>12. v.packet = p
  BY <1>8
<1>. QED BY <1>10, <1>11, <1>12, Zenon DEF p

LEMMA PendKeeps ==
  ASSUME TablesInv, NEW n \in Routers, ForwardPend(n)
  PROVE  TablesInv'
<1>0. TypeOK
  BY DEF TablesInv
<1>1. Taken(n) /\ Shifted(n)
  BY <1>0, TakenShifts DEF ForwardPend
<1>2. /\ UNCHANGED <<routing_table, route_disc_table, air>>
      /\ wanted' = wanted \/ \E granted \in {0, 1} : wanted' = [wanted EXCEPT ![n] = @ + granted]
  BY Zenon DEF ForwardPend
<1>3. wanted' \in [Routers -> Nat]
  <2>1. CASE wanted' = wanted
    BY <1>0, <2>1 DEF TypeOK
  <2>2. ASSUME NEW granted \in {0, 1}, wanted' = [wanted EXCEPT ![n] = @ + granted]
        PROVE  wanted' \in [Routers -> Nat]
    <3>1. wanted \in [Routers -> Nat]
      BY <1>0 DEF TypeOK
    <3>2. wanted[n] + granted \in Nat
      BY <3>1
    <3>. QED BY <2>2, <3>1, <3>2
  <2>. QED BY <1>2, <2>1, <2>2
<1>4. pending_table' \in [Routers -> [1 .. drive.case.pends -> Pendings \cup {Free}]]
  BY <1>0, PendTakes DEF PendEdited
<1>5. Control' \subseteq Control
  BY <1>2 DEF Control
<1>6. RoutingKept
  BY <1>1, <1>2, <1>5, QuietKeeps DEF Taken
<1>7. OthersTyped
  BY <1>0, <1>1, <1>2, <1>3, <1>4 DEF OthersTyped, TypeOK, Taken, Shifted
<1>. QED BY <1>6, <1>7, StepTyped

\* The packets for d go to zb_nwk_forward.
Flushes(n, d) ==
  /\ forward' \in [Routers -> Seq(Packets)]
  /\ pending_table' \in [Routers -> [1 .. drive.case.pends -> Pendings \cup {Free}]]
  /\ \A m \in Routers : \A k \in DOMAIN forward'[m] :
       \/ k \in DOMAIN forward[m] /\ forward'[m][k] = forward[m][k]
       \/ /\ m = n /\ k - Len(forward[n]) \in 1 .. Cardinality(Waiting(n, d))
          /\ k \in Nat /\ Len(forward[n]) \in Nat
          /\ forward'[m][k] =
               pending_table[n][Slot(Waiting(n, d), k - Len(forward[n]))].packet
  /\ \A m \in Routers : \A i \in UsedSlots(pending_table[m])' :
       /\ i \in UsedSlots(pending_table[m]) /\ pending_table'[m][i] = pending_table[m][i]
       /\ m = n => i \notin Waiting(n, d)

\* The slots of the packets that wait for d.
LEMMA WaitingSlots ==
  ASSUME TypeOK, NEW n \in Routers, NEW d
  PROVE  /\ Waiting(n, d) \subseteq 1 .. drive.case.pends
         /\ Cardinality(Waiting(n, d)) \in Nat
         /\ \A k \in 1 .. Cardinality(Waiting(n, d)) :
              /\ Slot(Waiting(n, d), k) \in Waiting(n, d)
              /\ Slot(Waiting(n, d), k) \in UsedSlots(pending_table[n])
              /\ pending_table[n][Slot(Waiting(n, d), k)].packet \in Packets
         /\ \A k, l \in 1 .. Cardinality(Waiting(n, d)) :
              Slot(Waiting(n, d), k) = Slot(Waiting(n, d), l) => k = l
<1>1. PICK N \in Nat : N = drive.case.pends
  BY CaseTyped
<1>2. Waiting(n, d) \in SUBSET (1 .. N) /\ Waiting(n, d) \subseteq UsedSlots(pending_table[n])
  BY <1>1, PendSlots
<1>3. /\ Cardinality(Waiting(n, d)) \in Nat
      /\ \A k \in 1 .. Cardinality(Waiting(n, d)) : Slot(Waiting(n, d), k) \in Waiting(n, d)
      /\ \A k, l \in 1 .. Cardinality(Waiting(n, d)) :
           Slot(Waiting(n, d), k) = Slot(Waiting(n, d), l) => k = l
  BY <1>2, SlotIn
<1>4. ASSUME NEW i \in UsedSlots(pending_table[n])
      PROVE  pending_table[n][i].packet \in Packets
  BY <1>4, PendSlots DEF Pendings
<1>. QED BY <1>1, <1>2, <1>3, <1>4

LEMMA FlushFlushes ==
  ASSUME TypeOK, NEW n \in Routers, NEW d, FlushPending(n, d)
  PROVE  Flushes(n, d)
<1> DEFINE W == Waiting(n, d)
           c == Cardinality(W)
           s == [k \in 1 .. c |-> pending_table[n][Slot(W, k)].packet]
<1>1. c \in Nat /\ \A k \in 1 .. c : pending_table[n][Slot(W, k)].packet \in Packets
  BY WaitingSlots
<1>2. forward' = [forward EXCEPT ![n] = @ \o s]
  BY DEF FlushPending
<1>3. pending_table' = [pending_table EXCEPT ![n] =
                          [i \in DOMAIN @ |-> IF i \in W THEN Free ELSE @[i]]]
  BY DEF FlushPending
<1>. HIDE DEF c, W
<1>4. s \in [1 .. c -> Packets]
  BY <1>1
<1>5. s \in Seq(Packets)
  BY <1>1, <1>4
<1>6. Len(s) = c /\ DOMAIN s = 1 .. c /\ \A k \in 1 .. c : s[k] = pending_table[n][Slot(W, k)].packet
  BY <1>1, <1>5, LenProperties
<1>. HIDE DEF s
<1>7. forward \in [Routers -> Seq(Packets)] /\ forward[n] \in Seq(Packets)
  BY DEF TypeOK
<1>8. /\ forward[n] \o s \in Seq(Packets)
      /\ Len(forward[n] \o s) = Len(forward[n]) + Len(s)
      /\ \A k \in 1 .. Len(forward[n]) + Len(s) :
           (forward[n] \o s)[k] = IF k <= Len(forward[n]) THEN forward[n][k]
                                  ELSE s[k - Len(forward[n])]
  BY <1>5, <1>7, ConcatProperties
<1>9. forward' \in [Routers -> Seq(Packets)] /\ forward'[n] = forward[n] \o s
  BY <1>2, <1>7, <1>8
<1>10. /\ Len(forward[n]) \in Nat /\ DOMAIN forward[n] = 1 .. Len(forward[n])
       /\ DOMAIN forward'[n] = 1 .. Len(forward[n]) + c
  BY <1>6, <1>7, <1>8, <1>9, LenProperties
<1>11. ASSUME NEW m \in Routers, NEW k \in DOMAIN forward'[m]
       PROVE  \/ k \in DOMAIN forward[m] /\ forward'[m][k] = forward[m][k]
              \/ /\ m = n /\ k - Len(forward[n]) \in 1 .. c
                 /\ k \in Nat /\ Len(forward[n]) \in Nat
                 /\ forward'[m][k] = pending_table[n][Slot(W, k - Len(forward[n]))].packet
  <2>1. CASE m # n
    BY <1>2, <1>7, <1>11, <2>1
  <2>2. CASE m = n
    <3>1. k \in 1 .. Len(forward[n]) + c
      BY <1>10, <1>11, <2>2
    <3>2. k \in Nat /\ (k \in 1 .. Len(forward[n]) \/ k - Len(forward[n]) \in 1 .. c)
      BY <1>1, <1>10, <3>1
    <3>3. forward'[n][k] = IF k <= Len(forward[n]) THEN forward[n][k]
                           ELSE s[k - Len(forward[n])]
      BY <1>6, <1>8, <1>9, <3>1
    <3>4. CASE k \in 1 .. Len(forward[n])
      BY <1>10, <2>2, <3>2, <3>3, <3>4
    <3>5. CASE k - Len(forward[n]) \in 1 .. c
      <4>1. ~(k <= Len(forward[n]))
        BY <1>10, <3>2, <3>5
      <4>. QED BY <1>6, <1>10, <2>2, <3>2, <3>3, <3>5, <4>1
    <3>. QED BY <3>2, <3>4, <3>5
  <2>. QED BY <2>1, <2>2
<1>12. pending_table \in [Routers -> [1 .. drive.case.pends -> Pendings \cup {Free}]]
  BY DEF TypeOK
<1>13. ASSUME NEW m \in Routers
       PROVE  pending_table'[m] =
                IF m = n THEN [i \in 1 .. drive.case.pends |->
                                 IF i \in W THEN Free ELSE pending_table[n][i]]
                ELSE pending_table[m]
  BY <1>3, <1>12
<1>14. pending_table' \in [Routers -> [1 .. drive.case.pends -> Pendings \cup {Free}]]
  BY <1>3, <1>12
<1>15. ASSUME NEW m \in Routers, NEW i \in UsedSlots(pending_table[m])'
       PROVE  /\ i \in UsedSlots(pending_table[m]) /\ pending_table'[m][i] = pending_table[m][i]
              /\ m = n => i \notin W
  <2>1. i \in 1 .. drive.case.pends /\ pending_table'[m][i] # Free
    BY <1>14, <1>15 DEF UsedSlots, FreeSlots
  <2>2. pending_table'[m][i] = pending_table[m][i] /\ (m = n => i \notin W)
    BY <1>13, <2>1
  <2>3. i \in UsedSlots(pending_table[m])
    BY <1>12, <2>1, <2>2 DEF UsedSlots, FreeSlots
  <2>. QED BY <2>2, <2>3
<1>. QED BY <1>9, <1>11, <1>14, <1>15 DEF Flushes, W, c

\* A reply leaves the packets where they are or sends those for its destination.
LEMMA ReplyPackets ==
  ASSUME TypeOK, NEW f \in air, ReceiveRrep(f)
  PROVE  /\ f.to \in Routers
         /\ UNCHANGED <<forward, pending_table>> \/ Flushes(f.to, f.dest)
<1>1. f.type = "rrep" /\ f.to \in Routers
  BY FrameKinds DEF ReceiveRrep
<1>2. UNCHANGED <<forward, pending_table>> \/ FlushPending(f.to, f.dest)
  BY Zenon DEF ReceiveRrep
<1>. QED BY <1>1, <1>2, FlushFlushes

LEMMA RrepFrameType ==
  ASSUME NEW n \in Routers, NEW m \in Routers, NEW s \in Routers, NEW id \in 1 .. MaxRreq,
         NEW d \in Devices, NEW cost \in Nat
  PROVE  RrepFrame(n, m, s, id, d, cost) \in Frames
BY DEF RrepFrame, Frames

LEMMA UsefulFrames ==
  ASSUME TypeOK, NEW f, NEW n, NEW e, NEW r, NEW cost, Replies(f, n, e, r, cost),
         ReplyUseful(f, n, e, r, cost)
  PROVE  air' \subseteq Frames
<1>1. SUFFICES ASSUME NEW g \in air' PROVE g \in Frames
  OBVIOUS
<1>2. CASE g \in air
  BY <1>2 DEF TypeOK
<1>3. CASE g = RrepFrame(n, route_disc_table[n][e].sender_addr, f.source, f.rreq_id,
                         f.dest, cost)
  <2>1. /\ n \in Routers /\ f.source \in Routers /\ f.rreq_id \in 1 .. MaxRreq
        /\ f.dest \in Devices /\ cost \in Nat
    BY DEF Replies
  <2>2. route_disc_table[n][e] \in Discoveries
    BY RepliesSlots DEF ReplyUseful
  <2>3. route_disc_table[n][e].sender_addr \in Routers
    BY <2>2 DEF Discoveries
  <2>. QED BY <1>3, <2>1, <2>3, RrepFrameType
<1>. QED BY <1>1, <1>2, <1>3 DEF ReplyUseful

LEMMA ReceiveRrepKeeps ==
  ASSUME TablesInv, NEW f \in air, ReceiveRrep(f)
  PROVE  TablesInv'
<1>0. TypeOK
  BY DEF TablesInv
<1>1. PICK n, e, r, cost :
        /\ Replies(f, n, e, r, cost)
        /\ \/ ReplyUseful(f, n, e, r, cost)
           \/ ReplyHeard(f, n, e, r, cost)
           \/ ReplyLate(f, n, e, r)
  BY <1>0, ReplyOutcome
<1>2. /\ TablesTyped /\ RouteBacked'
      /\ HopKnown' /\ RouteOnce' /\ DiscOnce' /\ Seen' /\ OneDest' /\ Best'
  <2>1. CASE ReplyUseful(f, n, e, r, cost)
    BY <1>1, <2>1, UsefulKeeps, Zenon
  <2>2. CASE ReplyHeard(f, n, e, r, cost)
    BY <1>1, <2>2, HeardKeeps, Zenon
  <2>3. CASE ReplyLate(f, n, e, r)
    BY <1>1, <2>3, LateKeeps, ShrinksKeeps, Zenon
  <2>. QED BY <1>1, <2>1, <2>2, <2>3
<1>3. air' \subseteq Frames
  <2>1. CASE ReplyUseful(f, n, e, r, cost)
    BY <1>0, <1>1, <2>1, UsefulFrames, Zenon
  <2>2. CASE ReplyHeard(f, n, e, r, cost)
    BY <1>0, <2>2 DEF ReplyHeard, TypeOK
  <2>3. CASE ReplyLate(f, n, e, r)
    BY <1>0, <2>3 DEF ReplyLate, TypeOK
  <2>. QED BY <1>1, <2>1, <2>2, <2>3
<1>4. UNCHANGED <<rreq_id, btt, bufVars, drive>>
  BY DEF ReceiveRrep
<1>5. RoutingKept
  BY <1>0, <1>2, <1>4 DEF RoutingKept, TypeOK
<1>6. /\ forward' \in [Routers -> Seq(Packets)]
      /\ pending_table' \in [Routers -> [1 .. drive.case.pends -> Pendings \cup {Free}]]
  BY <1>0, ReplyPackets DEF TypeOK, Flushes
<1>7. OthersTyped
  BY <1>0, <1>3, <1>4, <1>6 DEF OthersTyped, TypeOK, bufVars
<1>. QED BY <1>5, <1>7, StepTyped

\* A packet that arrives stays there or goes on.
LEMMA DataAdds ==
  ASSUME TypeOK, NEW f \in air, ReceiveData(f)
  PROVE  /\ f.type = "data" /\ air' = air \ {f}
         /\ \/ forward' = forward
            \/ \E n \in Routers : \E q \in Packets : q.id = f.packet.id /\ Added(n, q)
<1>1. f.type = "data" /\ air' = air \ {f}
  BY DEF ReceiveData
<1>2. CASE f.to \in Routers /\ f.packet.dst # f.to /\ f.packet.radius > 1
  <2>1. forward' = [forward EXCEPT ![f.to] = Append(@, [f.packet EXCEPT !.radius = @ - 1])]
    BY <1>2 DEF ReceiveData
  <2>2. PICK p \in Packets : p = f.packet
    BY <1>1, FrameKinds
  <2>3. p.radius - 1 \in 1 .. MaxRadius
    BY <1>2, <2>2, Bounds DEF Packets
  <2>4. PICK q \in Packets : q = [p EXCEPT !.radius = @ - 1]
    BY <2>3 DEF Packets
  <2>5. q.id = p.id
    BY <2>4 DEF Packets
  <2>6. Added(f.to, q)
    BY <1>2, <2>1, <2>2, <2>4, AppendAdds
  <2>. QED BY <1>1, <1>2, <2>2, <2>5, <2>6
<1>3. CASE ~(f.to \in Routers /\ f.packet.dst # f.to /\ f.packet.radius > 1)
  BY <1>1, <1>3 DEF ReceiveData
<1>. QED BY <1>2, <1>3

LEMMA ReceiveDataKeeps ==
  ASSUME TablesInv, NEW f \in air, ReceiveData(f)
  PROVE  TablesInv'
<1>0. TypeOK
  BY DEF TablesInv
<1>1. UNCHANGED <<tables, rreq_id, btt, bufVars, drive>>
  BY DEF ReceiveData
<1>2. air' \subseteq air /\ forward' \in [Routers -> Seq(Packets)]
  BY <1>0, DataAdds DEF TypeOK, Added
<1>3. RoutingKept
  BY <1>1, <1>2, ControlSubset, QuietKeeps DEF tables
<1>4. OthersTyped
  BY <1>0, <1>1, <1>2 DEF OthersTyped, TypeOK, tables, bufVars
<1>. QED BY <1>3, <1>4, StepTyped

LEMMA ExpiryStepKeeps ==
  ASSUME TablesInv, NEW n \in Routers, ExpiryRouteDisc(n)
  PROVE  TablesInv'
<1>0. TypeOK
  BY DEF TablesInv
<1>1. RoutingKept
  BY ExpiryKeeps
<1>2. /\ UNCHANGED <<pending_table, forward, wanted, perepil, drive, air>>
      /\ \/ UNCHANGED <<disc_alarm, report>>
         \/ /\ disc_alarm' = [disc_alarm EXCEPT ![n] = FALSE]
            /\ \E granted \in BOOLEAN : report' = [report EXCEPT ![n] = granted]
  BY Zenon DEF ExpiryRouteDisc
<1>3. disc_alarm' \in [Routers -> BOOLEAN] /\ report' \in [Routers -> BOOLEAN]
  BY <1>0, <1>2 DEF TypeOK
<1>4. OthersTyped
  BY <1>0, <1>2, <1>3 DEF OthersTyped, TypeOK
<1>. QED BY <1>1, <1>4, StepTyped

LEMMA FailedKeeps ==
  ASSUME TablesInv, NEW n \in Routers, RouteDiscFailed(n)
  PROVE  TablesInv'
<1>0. TypeOK
  BY DEF TablesInv
<1>1. /\ report' = [report EXCEPT ![n] = FALSE] /\ disc_alarm' = [disc_alarm EXCEPT ![n] = TRUE]
      /\ UNCHANGED <<tables, rreq_id, btt, forward, wanted, perepil, drive, air>>
  BY DEF RouteDiscFailed
<1>2. disc_alarm' \in [Routers -> BOOLEAN] /\ report' \in [Routers -> BOOLEAN]
  BY <1>0, <1>1 DEF TypeOK
<1>3. Control' \subseteq Control
  BY <1>1 DEF Control
<1>4. RoutingKept
  BY <1>1, <1>3, QuietKeeps DEF tables
<1>5. OthersTyped
  BY <1>0, <1>1, <1>2 DEF OthersTyped, TypeOK, tables
<1>. QED BY <1>4, <1>5, StepTyped

\* Packets that wait get older or are freed.
LEMMA AgedPacketType ==
  ASSUME NEW x \in Pendings \cup {Free}
  PROVE  /\ AgedPacket(x) \in Pendings \cup {Free}
         /\ AgedPacket(x) # Free => x # Free /\ AgedPacket(x).packet = x.packet
<1>1. CASE x = Free \/ x.expiry = 0
  BY <1>1 DEF AgedPacket
<1>2. CASE ~(x = Free \/ x.expiry = 0)
  <2>1. x \in Pendings /\ AgedPacket(x) = [x EXCEPT !.expiry = @ - 1]
    BY <1>2 DEF AgedPacket
  <2>2. x.expiry - 1 \in 0 .. PendExpiry
    BY <1>2, <2>1, Bounds DEF Pendings
  <2>. QED BY <1>2, <2>1, <2>2 DEF Pendings
<1>. QED BY <1>1, <1>2

LEMMA ExpiryPendingAges ==
  ASSUME TypeOK, NEW n \in Routers, ExpiryPending(n)
  PROVE  /\ pending_table' \in [Routers -> [1 .. drive.case.pends -> Pendings \cup {Free}]]
         /\ \A m \in Routers : \A j \in UsedSlots(pending_table[m])' :
              /\ j \in UsedSlots(pending_table[m])
              /\ pending_table'[m][j].packet = pending_table[m][j].packet
<1>1. pending_table \in [Routers -> [1 .. drive.case.pends -> Pendings \cup {Free}]]
  BY DEF TypeOK
<1>2. pending_table' = [pending_table EXCEPT ![n] = [i \in DOMAIN @ |-> AgedPacket(@[i])]]
  BY DEF ExpiryPending
<1>3. \A i \in 1 .. drive.case.pends :
        /\ AgedPacket(pending_table[n][i]) \in Pendings \cup {Free}
        /\ AgedPacket(pending_table[n][i]) # Free =>
             /\ pending_table[n][i] # Free
             /\ AgedPacket(pending_table[n][i]).packet = pending_table[n][i].packet
  BY <1>1, AgedPacketType
<1>4. pending_table' \in [Routers -> [1 .. drive.case.pends -> Pendings \cup {Free}]]
  BY <1>1, <1>2, <1>3
<1>5. \A m \in Routers : \A i \in 1 .. drive.case.pends :
        pending_table'[m][i] =
          IF m = n THEN AgedPacket(pending_table[n][i]) ELSE pending_table[m][i]
  BY <1>1, <1>2
<1>6. ASSUME NEW m \in Routers, NEW j \in UsedSlots(pending_table[m])'
      PROVE  /\ j \in UsedSlots(pending_table[m])
             /\ pending_table'[m][j].packet = pending_table[m][j].packet
  <2>1. j \in 1 .. drive.case.pends /\ pending_table'[m][j] # Free
    BY <1>4, <1>6 DEF UsedSlots, FreeSlots
  <2>2. /\ pending_table[m][j] # Free
        /\ pending_table'[m][j].packet = pending_table[m][j].packet
    BY <1>3, <1>5, <2>1
  <2>. QED BY <1>1, <2>1, <2>2 DEF UsedSlots, FreeSlots
<1>. QED BY <1>4, <1>6

LEMMA ExpiryPendingKeeps ==
  ASSUME TablesInv, NEW n \in Routers, ExpiryPending(n)
  PROVE  TablesInv'
<1>0. TypeOK
  BY DEF TablesInv
<1>1. UNCHANGED <<routing_table, route_disc_table, rreq_id, btt, forward, bufVars, drive, air>>
  BY DEF ExpiryPending
<1>2. pending_table' \in [Routers -> [1 .. drive.case.pends -> Pendings \cup {Free}]]
  BY <1>0, ExpiryPendingAges
<1>3. Control' \subseteq Control
  BY <1>1 DEF Control
<1>4. RoutingKept
  BY <1>1, <1>3, QuietKeeps
<1>5. OthersTyped
  BY <1>0, <1>1, <1>2 DEF OthersTyped, TypeOK, bufVars
<1>. QED BY <1>4, <1>5, StepTyped

-----------------------------------------------------------------------------
\* The tables of every router.

LEMMA TablesInit ==
  ASSUME Init
  PROVE  TablesInv
<1>1. /\ drive \in [case : Cases, sent : {0}]
      /\ routing_table = [n \in Routers |-> [i \in 1 .. drive.case.routes |-> Free]]
      /\ route_disc_table = [n \in Routers |-> [i \in 1 .. drive.case.discs |-> Free]]
      /\ pending_table = [n \in Routers |-> [i \in 1 .. drive.case.pends |-> Free]]
      /\ rreq_id = [n \in Routers |-> 0] /\ btt = [n \in Routers |-> {}]
      /\ forward = [n \in Routers |-> << >>] /\ wanted = [n \in Routers |-> 0]
      /\ disc_alarm = [n \in Routers |-> TRUE] /\ report = [n \in Routers |-> FALSE]
      /\ perepil = {} /\ air = {}
  BY DEF Init
<1>2. drive \in [case : Cases, sent : 0 .. drive.case.packets]
  <2>1. drive.case.packets \in Nat
    BY <1>1, MeshAssumption DEF CaseType
  <2>2. 0 \in 0 .. drive.case.packets
    BY <2>1
  <2>. QED BY <1>1, <2>2
<1>3. TypeOK
  BY <1>1, <1>2, Bounds, EmptySeq DEF TypeOK
<1>4. \A n \in Routers : UsedSlots(routing_table[n]) = {} /\ UsedSlots(route_disc_table[n]) = {}
  BY <1>1 DEF UsedSlots, FreeSlots
<1>5. Control = {} /\ \A n \in Routers : Discs(n) = {} /\ btt[n] = {}
  BY <1>1, <1>4 DEF Control, Discs
<1>6. Requests = {}
  BY <1>5 DEF Requests
<1>7. HopKnown /\ RouteOnce /\ DiscOnce /\ RouteBacked /\ OneDest
  BY <1>4, <1>6 DEF HopKnown, RouteOnce, DiscOnce, RouteBacked, OneDest
<1>8. Seen
  BY <1>4, <1>5 DEF Seen, SeenIds, SeenDiscs, SeenRoutes, SeenFrames
<1>9. Best
  BY <1>4, <1>5 DEF Best, CostKept, BestReply, BestHop
<1>. QED BY <1>3, <1>7, <1>8, <1>9 DEF TablesInv

LEMMA StutterKeeps ==
  ASSUME TablesInv, UNCHANGED vars
  PROVE  TablesInv'
<1>1. Control' \subseteq Control
  BY DEF Control, vars
<1>2. RoutingKept
  BY <1>1, QuietKeeps DEF vars, tables
<1>3. OthersTyped
  BY DEF OthersTyped, TablesInv, TypeOK, vars, tables, bufVars
<1>. QED BY <1>2, <1>3, StepTyped

LEMMA TablesStep ==
  ASSUME TablesInv, [Next]_vars
  PROVE  TablesInv'
<1>1. CASE \E n \in Routers, d \in Devices : RouteDiscoveryRequest(n, d)
  BY <1>1, RequestKeeps
<1>2. CASE \E n \in Routers, d \in Devices : Send(n, d)
  BY <1>2, SendKeeps
<1>3. CASE \E n \in Routers : InitiateRouteDiscovery(n)
  BY <1>3, InitiateKeeps
<1>4. CASE \E n \in Routers : ForwardToNeighbor(n)
  BY <1>4, ToNeighborKeeps
<1>5. CASE \E n \in Routers : ForwardByRoute(n)
  BY <1>5, ByRouteKeeps
<1>6. CASE \E n \in Routers : ForwardPend(n)
  BY <1>6, PendKeeps
<1>7. CASE \E n \in Routers : ForwardDrop(n)
  BY <1>7, DropKeeps
<1>8. CASE \E f \in air : ReceiveRreq(f)
  BY <1>8, ReceiveRreqKeeps
<1>9. CASE \E f \in air : ReceiveRrep(f)
  BY <1>9, ReceiveRrepKeeps
<1>10. CASE \E f \in air : ReceiveData(f)
  BY <1>10, ReceiveDataKeeps
<1>11. CASE \E n \in drive.case.aging : ExpiryRouteDisc(n)
  BY <1>11, CaseTyped, ExpiryStepKeeps DEF TablesInv
<1>12. CASE \E n \in Routers : RouteDiscFailed(n)
  BY <1>12, FailedKeeps
<1>13. CASE \E n \in Routers : ExpiryPending(n)
  BY <1>13, ExpiryPendingKeeps
<1>14. CASE UNCHANGED vars
  BY <1>14, StutterKeeps
<1>. QED
  BY <1>1, <1>2, <1>3, <1>4, <1>5, <1>6, <1>7, <1>8, <1>9, <1>10, <1>11, <1>12, <1>13, <1>14,
     Zenon DEF Next

\* The next hop is the best of the answers its discovery has heard.
LEMMA BestFollows ==
  ASSUME TablesInv
  PROVE  BestRoute
<1>1. SUFFICES ASSUME NEW n \in Routers, NEW i \in UsedSlots(routing_table[n]),
                      NEW e \in DiscoveriesOf(n, routing_table[n][i].by[1],
                                              routing_table[n][i].by[2]),
                      Answers(routing_table[n][i].next_hop_addr, routing_table[n][i].dest_addr)
               PROVE  /\ routing_table[n][i].next_hop_addr \in route_disc_table[n][e].heard
                      /\ \A m \in route_disc_table[n][e].heard :
                           Answers(m, routing_table[n][i].dest_addr) =>
                             ReplyCost(n, routing_table[n][i].next_hop_addr,
                                       route_disc_table[n][e].source_addr,
                                       route_disc_table[n][e].forward_cost)
                             <= ReplyCost(n, m, route_disc_table[n][e].source_addr,
                                          route_disc_table[n][e].forward_cost)
  BY Zenon DEF BestRoute
<1>2. PICK disc \in Discs(n) : disc = route_disc_table[n][e]
  BY <1>1 DEF Discs, DiscoveriesOf
<1>3. PICK route \in Routes : route = routing_table[n][i]
  BY RouteSlots DEF TablesInv
<1>4. disc.source_addr = route.by[1] /\ disc.request_id = route.by[2]
  BY <1>1, <1>2, <1>3 DEF DiscoveriesOf
<1>5. route.by = <<disc.source_addr, disc.request_id>>
  BY <1>3, <1>4 DEF Routes, NoRequest
<1>6. /\ disc.dest_addr = route.dest_addr /\ route.next_hop_addr \in disc.heard
      /\ Answers(route.next_hop_addr, disc.dest_addr) =>
           disc.residual_cost =
             ReplyCost(n, route.next_hop_addr, disc.source_addr, disc.forward_cost)
  BY <1>2, <1>3, <1>5 DEF TablesInv, Best, BestHop
<1>7. \A m \in disc.heard :
        Answers(m, disc.dest_addr) =>
          disc.residual_cost <= ReplyCost(n, m, disc.source_addr, disc.forward_cost)
  BY <1>2 DEF TablesInv, Best, BestReply
<1>. QED BY <1>1, <1>2, <1>3, <1>6, <1>7

THEOREM TablesInductive == Spec => []TablesInv
<1>1. Init => TablesInv
  BY TablesInit
<1>2. TablesInv /\ [Next]_vars => TablesInv'
  BY TablesStep
<1>. QED BY <1>1, <1>2, PTL DEF Spec

\* The tables of every router are sound: whatever order the requests, replies,
\* overflows and expiries of the discoveries come in, no dead route is left behind
\* (nwk_cr_mesh_routing.c:752) and the next hop is the best of the routers that
\* answered (nwk_cr_mesh_routing.c:573).
THEOREM TablesAreSound == Spec => []TablesSound
<1>1. TablesInv => TablesSound
  BY BestFollows DEF TablesInv, TablesSound
<1>. QED BY <1>1, TablesInductive, PTL

-----------------------------------------------------------------------------
\* A packet has one owner.

InFwd(p, n, k) == k \in DOMAIN forward[n] /\ forward[n][k].id = p
InPend(p, n, i) == i \in UsedSlots(pending_table[n]) /\ pending_table[n][i].packet.id = p
InAir(p, f) == f \in air /\ f.type = "data" /\ f.packet.id = p

\* Packet p is in one place at most.
OneOwner(p) ==
  /\ \A n, m \in Routers : \A k, l : InFwd(p, n, k) /\ InFwd(p, m, l) => n = m /\ k = l
  /\ \A n, m \in Routers : \A i, j : InPend(p, n, i) /\ InPend(p, m, j) => n = m /\ i = j
  /\ \A f, g : InAir(p, f) /\ InAir(p, g) => f = g
  /\ \A n, m \in Routers : \A k, i : ~(InFwd(p, n, k) /\ InPend(p, m, i))
  /\ \A n \in Routers : \A k, f : ~(InFwd(p, n, k) /\ InAir(p, f))
  /\ \A n \in Routers : \A i, f : ~(InPend(p, n, i) /\ InAir(p, f))

\* Packet p was sent already.
Given(p) ==
  /\ \A n \in Routers : \A k : InFwd(p, n, k) => p <= drive.sent
  /\ \A n \in Routers : \A i : InPend(p, n, i) => p <= drive.sent
  /\ \A f : InAir(p, f) => p <= drive.sent

OwnersInv == \A p \in PacketIds : OneOwner(p) /\ Given(p)

\* No place is new.
Stays(p) ==
  /\ \A n \in Routers : \A k : InFwd(p, n, k)' => InFwd(p, n, k)
  /\ \A n \in Routers : \A i : InPend(p, n, i)' => InPend(p, n, i)
  /\ \A f : InAir(p, f)' => InAir(p, f)
  /\ drive' = drive

LEMMA StaysOwned ==
  ASSUME NEW p \in PacketIds, OneOwner(p), Given(p), Stays(p)
  PROVE  OneOwner(p)' /\ Given(p)'
BY DEF OneOwner, Given, Stays

LEMMA SameFwd ==
  ASSUME forward' = forward, NEW p, NEW n \in Routers, NEW k
  PROVE  InFwd(p, n, k)' => InFwd(p, n, k)
BY DEF InFwd

LEMMA SamePend ==
  ASSUME \A m \in Routers : \A j \in UsedSlots(pending_table[m])' :
           /\ j \in UsedSlots(pending_table[m])
           /\ pending_table'[m][j].packet = pending_table[m][j].packet,
         NEW p, NEW n \in Routers, NEW i
  PROVE  InPend(p, n, i)' => InPend(p, n, i)
BY DEF InPend

LEMMA SamePendTable ==
  ASSUME pending_table' = pending_table, NEW p, NEW n \in Routers, NEW i
  PROVE  InPend(p, n, i)' => InPend(p, n, i)
BY DEF InPend, UsedSlots, FreeSlots

LEMMA NoNewAir ==
  ASSUME \A g \in air' : g \in air \/ g.type # "data", NEW p, NEW f
  PROVE  InAir(p, f)' => InAir(p, f)
BY DEF InAir

\* The first packet of n has left: its only place is the next one, and the others
\* move up.
LEMMA ShiftedFwd ==
  ASSUME NEW n \in Routers, Shifted(n), NEW p, NEW m \in Routers, NEW k, InFwd(p, m, k)'
  PROVE  /\ m = n => InFwd(p, n, k + 1)
         /\ m # n => InFwd(p, m, k)
BY DEF Shifted, InFwd

LEMMA ShiftedHead ==
  ASSUME NEW n \in Routers, Shifted(n)
  PROVE  InFwd(Head(forward[n]).id, n, 1)
BY DEF Shifted, InFwd

LEMMA ForwardIndex ==
  ASSUME TypeOK', NEW n \in Routers, NEW p, NEW k, InFwd(p, n, k)'
  PROVE  k \in Nat /\ k >= 1
<1>1. forward'[n] \in Seq(Packets)
  BY DEF TypeOK
<1>2. DOMAIN forward'[n] = 1 .. Len(forward'[n]) /\ Len(forward'[n]) \in Nat
  BY <1>1, LenProperties
<1>3. k \in 1 .. Len(forward'[n])
  BY <1>2 DEF InFwd
<1>. QED BY <1>2, <1>3

\* zb_nwk_forward takes a packet and it goes to nowhere, to slot i of n, or to frame f.
LEMMA ShiftedOwned ==
  ASSUME TypeOK', NEW n \in Routers, Shifted(n), drive' = drive,
         NEW slot, NEW frame,
         \A q : \A m \in Routers : \A i :
           InPend(q, m, i)' =>
             \/ InPend(q, m, i)
             \/ q = Head(forward[n]).id /\ m = n /\ i = slot /\ UNCHANGED air,
         \A q : \A f :
           InAir(q, f)' =>
             \/ InAir(q, f)
             \/ q = Head(forward[n]).id /\ f = frame /\ UNCHANGED pending_table,
         NEW p \in PacketIds, OneOwner(p), Given(p)
  PROVE  OneOwner(p)' /\ Given(p)'
<1>1. CASE p = Head(forward[n]).id
  <2>1. InFwd(p, n, 1)
    BY <1>1, ShiftedHead
  <2>2. p <= drive.sent
    BY <2>1 DEF Given
  <2>3. ASSUME NEW m \in Routers, NEW k, InFwd(p, m, k)'
        PROVE  FALSE
    <3>1. CASE m = n
      <4>1. InFwd(p, n, k + 1)
        BY <2>3, <3>1, ShiftedFwd
      <4>2. k + 1 = 1
        BY <2>1, <4>1 DEF OneOwner
      <4>3. k \in Nat /\ k >= 1
        BY <2>3, ForwardIndex
      <4>. QED BY <4>2, <4>3
    <3>2. CASE m # n
      <4>1. InFwd(p, m, k)
        BY <2>3, <3>2, ShiftedFwd
      <4>. QED BY <2>1, <3>2, <4>1 DEF OneOwner
    <3>. QED BY <3>1, <3>2
  <2>4. ASSUME NEW m \in Routers, NEW i, InPend(p, m, i)'
        PROVE  m = n /\ i = slot /\ UNCHANGED air
    BY <2>1, <2>4 DEF OneOwner
  <2>5. ASSUME NEW f, InAir(p, f)'
        PROVE  f = frame /\ UNCHANGED pending_table
    BY <2>1, <2>5 DEF OneOwner
  <2>6. ASSUME NEW m \in Routers, NEW i, InPend(p, m, i)', NEW f, InAir(p, f)'
        PROVE  FALSE
    <3>1. UNCHANGED air
      BY <2>4, <2>6
    <3>2. InAir(p, f)
      BY <2>6, <3>1 DEF InAir
    <3>. QED BY <2>1, <3>2 DEF OneOwner
  <2>7. OneOwner(p)'
    BY <2>3, <2>4, <2>5, <2>6 DEF OneOwner
  <2>8. Given(p)'
    BY <2>2 DEF Given
  <2>. QED BY <2>7, <2>8
<1>2. CASE p # Head(forward[n]).id
  <2>1. \A m \in Routers : \A i : InPend(p, m, i)' => InPend(p, m, i)
    BY <1>2
  <2>2. \A f : InAir(p, f)' => InAir(p, f)
    BY <1>2
  <2>3. ASSUME NEW m \in Routers, NEW k, InFwd(p, m, k)'
        PROVE  InFwd(p, m, IF m = n THEN k + 1 ELSE k)
    BY <2>3, ShiftedFwd
  <2>4. ASSUME NEW m \in Routers, NEW k, InFwd(p, m, k)', NEW o \in Routers, NEW l, InFwd(p, o, l)'
        PROVE  m = o /\ k = l
    <3>1. m = o /\ (IF m = n THEN k + 1 ELSE k) = (IF o = n THEN l + 1 ELSE l)
      BY <2>3, <2>4 DEF OneOwner
    <3>2. k \in Nat /\ l \in Nat
      BY <2>4, ForwardIndex
    <3>. QED BY <3>1, <3>2
  <2>5. OneOwner(p)'
    BY <2>1, <2>2, <2>3, <2>4 DEF OneOwner
  <2>6. Given(p)'
    BY <2>1, <2>2, <2>3 DEF Given
  <2>. QED BY <2>5, <2>6
<1>. QED BY <1>1, <1>2

\* Requests bring no packets.
LEMMA MeetsNoData ==
  ASSUME TypeOK, NEW n, NEW sender, NEW source, NEW id, NEW d, NEW cost, NEW radius,
         NEW others, Meets(n, sender, source, id, d, cost, radius, others)
  PROVE  \A g \in air' : g \in air \/ g.type # "data"
<1>1. \A g \in air' : MetFrames(n, sender, source, id, d, cost, g)
  BY MeetsFrames, Zenon
<1>. QED BY <1>1 DEF MetFrames

LEMMA RouteDiscoveryNoData ==
  ASSUME TablesInv, NEW n \in Routers, NEW d \in Devices, RouteDiscovery(n, d)
  PROVE  \A g \in air' : g \in air \/ g.type # "data"
<1>1. PICK id, cost : Meets(n, n, n, id, d, cost, MaxRadius, air)
  BY OwnMeets, Zenon DEF TablesInv
<1>. QED BY <1>1, MeetsNoData, Zenon DEF TablesInv

LEMMA RequestStays ==
  ASSUME TablesInv, NEW n \in Routers, NEW d \in Devices, RouteDiscoveryRequest(n, d),
         NEW p \in PacketIds
  PROVE  Stays(p)
<1>1. \A g \in air' : g \in air \/ g.type # "data"
  BY RouteDiscoveryNoData, Zenon DEF RouteDiscoveryRequest
<1>2. forward' = forward /\ pending_table' = pending_table /\ drive' = drive
  BY DEF RouteDiscoveryRequest
<1>. QED BY <1>1, <1>2, SameFwd, SamePendTable, NoNewAir DEF Stays

LEMMA InitiateStays ==
  ASSUME TablesInv, NEW n \in Routers, InitiateRouteDiscovery(n), NEW p \in PacketIds
  PROVE  Stays(p)
<1> DEFINE s == FirstEnt({i \in UsedSlots(pending_table[n]) : pending_table[n][i].waiting_buf})
<1>0. TypeOK
  BY DEF TablesInv
<1>1. forward' = forward /\ drive' = drive
  BY Zenon DEF InitiateRouteDiscovery
<1>2. CASE s # NoEnt
  <2>1. /\ RouteDiscovery(n, pending_table[n][s].dest_addr)
        /\ pending_table' = [pending_table EXCEPT ![n][s].waiting_buf = FALSE]
    BY <1>2, Zenon DEF InitiateRouteDiscovery
  <2>. HIDE DEF s
  <2>2. /\ pending_table[n][s].dest_addr \in Devices
        /\ \A m \in Routers : \A j \in UsedSlots(pending_table[m])' :
             /\ j \in UsedSlots(pending_table[m])
             /\ pending_table'[m][j].packet = pending_table[m][j].packet
    BY <1>0, <1>2, <2>1, InitiatePends DEF s
  <2>3. \A g \in air' : g \in air \/ g.type # "data"
    BY <2>1, <2>2, RouteDiscoveryNoData
  <2>. QED BY <1>1, <2>2, <2>3, SameFwd, SamePend, NoNewAir DEF Stays
<1>3. CASE s = NoEnt
  <2>1. pending_table' = pending_table /\ air' = air
    BY <1>3, Zenon DEF InitiateRouteDiscovery, tables
  <2>2. \A g \in air' : g \in air \/ g.type # "data"
    BY <2>1
  <2>. QED BY <1>1, <2>1, <2>2, SameFwd, SamePendTable, NoNewAir DEF Stays
<1>. QED BY <1>2, <1>3

LEMMA ReceiveRreqStays ==
  ASSUME TablesInv, NEW f \in air, ReceiveRreq(f), NEW p \in PacketIds
  PROVE  Stays(p)
<1>1. \/ /\ UNCHANGED <<routing_table, route_disc_table, btt, rreq_id>>
         /\ air' \subseteq air
      \/ \E n, sender, source, id, d, cost, radius :
           Meets(n, sender, source, id, d, cost, radius, air \ {f})
  BY FrameMeets, Zenon DEF TablesInv, Best
<1>2. CASE air' \subseteq air
  <2>1. \A g \in air' : g \in air \/ g.type # "data"
    BY <1>2
  <2>. QED BY <2>1, SameFwd, SamePendTable, NoNewAir DEF Stays, ReceiveRreq
<1>3. CASE \E n, sender, source, id, d, cost, radius :
             Meets(n, sender, source, id, d, cost, radius, air \ {f})
  <2>1. \A g \in air' : g \in air \/ g.type # "data"
    BY <1>3, MeetsNoData, Zenon DEF TablesInv
  <2>. QED BY <2>1, SameFwd, SamePendTable, NoNewAir DEF Stays, ReceiveRreq
<1>. QED BY <1>1, <1>2, <1>3

LEMMA ReplyNoData ==
  ASSUME TypeOK, NEW f \in air, ReceiveRrep(f)
  PROVE  \A g \in air' : g \in air \/ g.type # "data"
<1>1. PICK n, e, r, cost :
        /\ Replies(f, n, e, r, cost)
        /\ \/ ReplyUseful(f, n, e, r, cost)
           \/ ReplyHeard(f, n, e, r, cost)
           \/ ReplyLate(f, n, e, r)
  BY ReplyOutcome
<1>2. CASE ReplyUseful(f, n, e, r, cost)
  BY <1>2 DEF ReplyUseful, RrepFrame
<1>3. CASE air' \subseteq air
  BY <1>3
<1>. QED BY <1>1, <1>2, <1>3 DEF ReplyHeard, ReplyLate

\* The packets a reply sends leave their slots.
LEMMA FlushOwned ==
  ASSUME TypeOK, NEW n \in Routers, NEW d, Flushes(n, d), drive' = drive,
         \A g \in air' : g \in air \/ g.type # "data",
         NEW p \in PacketIds, OneOwner(p), Given(p)
  PROVE  OneOwner(p)' /\ Given(p)'
<1> DEFINE W == Waiting(n, d)
           c == Cardinality(W)
           L == Len(forward[n])
<1>1. \A f : InAir(p, f)' => InAir(p, f)
  BY NoNewAir
<1>2. \A m \in Routers : \A i : InPend(p, m, i)' => InPend(p, m, i) /\ (m = n => i \notin W)
  BY DEF Flushes, InPend
<1>3. ASSUME NEW m \in Routers, NEW k, InFwd(p, m, k)'
      PROVE  \/ InFwd(p, m, k)
             \/ /\ m = n /\ k \in Nat /\ L \in Nat /\ k - L \in 1 .. c
                /\ InPend(p, n, Slot(W, k - L)) /\ Slot(W, k - L) \in W
  <2>1. k \in DOMAIN forward'[m] /\ forward'[m][k].id = p
    BY <1>3 DEF InFwd
  <2>2. CASE k \in DOMAIN forward[m] /\ forward'[m][k] = forward[m][k]
    BY <2>1, <2>2 DEF InFwd
  <2>3. CASE /\ m = n /\ k - L \in 1 .. c /\ k \in Nat /\ L \in Nat
             /\ forward'[m][k] = pending_table[n][Slot(W, k - L)].packet
    <3>1. Slot(W, k - L) \in W /\ Slot(W, k - L) \in UsedSlots(pending_table[n])
      BY <2>3, WaitingSlots
    <3>. QED BY <2>1, <2>3, <3>1 DEF InPend
  <2>. QED BY <2>1, <2>2, <2>3 DEF Flushes
<1>4. \A k, l \in 1 .. c : Slot(W, k) = Slot(W, l) => k = l
  BY WaitingSlots
<1>. HIDE DEF W, c, L
<1>5. ASSUME NEW m \in Routers, NEW k, InFwd(p, m, k)', NEW o \in Routers, NEW l, InFwd(p, o, l)'
      PROVE  m = o /\ k = l
  <2>1. CASE InFwd(p, m, k)
    BY <1>3, <1>5, <2>1 DEF OneOwner
  <2>2. CASE InFwd(p, o, l)
    BY <1>3, <1>5, <2>2 DEF OneOwner
  <2>3. CASE ~InFwd(p, m, k) /\ ~InFwd(p, o, l)
    <3>1. /\ m = n /\ o = n /\ k \in Nat /\ l \in Nat /\ L \in Nat
          /\ k - L \in 1 .. c /\ l - L \in 1 .. c
          /\ InPend(p, n, Slot(W, k - L)) /\ InPend(p, n, Slot(W, l - L))
      BY <1>3, <1>5, <2>3
    <3>2. Slot(W, k - L) = Slot(W, l - L)
      BY <3>1 DEF OneOwner
    <3>3. k - L = l - L
      BY <1>4, <3>1, <3>2
    <3>. QED BY <3>1, <3>3
  <2>. QED BY <2>1, <2>2, <2>3
<1>6. ASSUME NEW m \in Routers, NEW k, InFwd(p, m, k)', NEW o \in Routers, NEW i, InPend(p, o, i)'
      PROVE  FALSE
  <2>1. InPend(p, o, i) /\ (o = n => i \notin W)
    BY <1>2, <1>6
  <2>2. ~InFwd(p, m, k)
    BY <2>1 DEF OneOwner
  <2>3. InPend(p, n, Slot(W, k - L)) /\ Slot(W, k - L) \in W
    BY <1>3, <1>6, <2>2
  <2>4. o = n /\ i = Slot(W, k - L)
    BY <2>1, <2>3 DEF OneOwner
  <2>. QED BY <2>1, <2>3, <2>4
<1>7. ASSUME NEW m \in Routers, NEW k, InFwd(p, m, k)', NEW f, InAir(p, f)'
      PROVE  FALSE
  BY <1>1, <1>3, <1>7 DEF OneOwner
<1>8. OneOwner(p)'
  BY <1>1, <1>2, <1>5, <1>6, <1>7 DEF OneOwner
<1>9. Given(p)'
  BY <1>1, <1>2, <1>3 DEF Given
<1>. QED BY <1>8, <1>9

LEMMA ReceiveRrepOwned ==
  ASSUME TablesInv, NEW f \in air, ReceiveRrep(f), NEW p \in PacketIds, OneOwner(p), Given(p)
  PROVE  OneOwner(p)' /\ Given(p)'
<1>0. TypeOK
  BY DEF TablesInv
<1>1. \A g \in air' : g \in air \/ g.type # "data"
  BY <1>0, ReplyNoData
<1>2. drive' = drive
  BY DEF ReceiveRrep
<1>3. CASE UNCHANGED <<forward, pending_table>>
  <2>1. Stays(p)
    BY <1>1, <1>2, <1>3, SameFwd, SamePendTable, NoNewAir DEF Stays
  <2>. QED BY <2>1, StaysOwned
<1>4. CASE Flushes(f.to, f.dest)
  BY <1>0, <1>1, <1>2, <1>4, ReplyPackets, FlushOwned
<1>. QED BY <1>0, <1>3, <1>4, ReplyPackets

\* A packet is added: it is new, or it was on the air and has left it.
LEMMA AddedFwd ==
  ASSUME NEW n \in Routers, NEW q, Added(n, q), NEW p, NEW m \in Routers, NEW k, InFwd(p, m, k)'
  PROVE  \/ InFwd(p, m, k)
         \/ m = n /\ k = Len(forward[n]) + 1 /\ p = q.id
BY DEF Added, InFwd

LEMMA SendOwned ==
  ASSUME TablesInv, NEW n \in Routers, NEW d \in Devices, Send(n, d),
         NEW p \in PacketIds, OneOwner(p), Given(p)
  PROVE  OneOwner(p)' /\ Given(p)'
<1>0. TypeOK
  BY DEF TablesInv
<1>1. PICK q \in Packets : q.id = drive.sent + 1 /\ Added(n, q)
  BY <1>0, SendAdds
<1>2. drive.sent \in Nat /\ drive'.sent = drive.sent + 1
  BY <1>0, CaseTyped, SendAdds
<1>3. pending_table' = pending_table /\ air' = air
  BY DEF Send, tables
<1>4. /\ \A m \in Routers : \A i : InPend(p, m, i)' => InPend(p, m, i)
      /\ \A f : InAir(p, f)' => InAir(p, f)
  BY <1>3, SamePendTable, NoNewAir
<1>5. CASE p = drive.sent + 1
  <2>1. ~(p <= drive.sent)
    BY <1>2, <1>5
  <2>2. /\ \A m \in Routers : \A k : ~InFwd(p, m, k)
        /\ \A m \in Routers : \A i : ~InPend(p, m, i)
        /\ \A f : ~InAir(p, f)
    BY <2>1 DEF Given
  <2>3. \A m \in Routers : \A k : InFwd(p, m, k)' => m = n /\ k = Len(forward[n]) + 1
    BY <1>1, <2>2, AddedFwd
  <2>4. OneOwner(p)'
    BY <1>4, <2>2, <2>3 DEF OneOwner
  <2>5. p <= drive'.sent
    BY <1>2, <1>5
  <2>6. Given(p)'
    BY <2>5 DEF Given
  <2>. QED BY <2>4, <2>6
<1>6. CASE p # drive.sent + 1
  <2>1. \A m \in Routers : \A k : InFwd(p, m, k)' => InFwd(p, m, k)
    BY <1>1, <1>6, AddedFwd
  <2>2. OneOwner(p)'
    BY <1>4, <2>1 DEF OneOwner
  <2>3. p \in Int
    <3>1. PICK x \in Cases : p \in 1 .. x.packets
      BY DEF PacketIds
    <3>2. x.packets \in Nat
      BY MeshAssumption DEF CaseType
    <3>. QED BY <3>1, <3>2
  <2>4. p <= drive.sent => p <= drive'.sent
    BY <1>2, <2>3
  <2>5. Given(p)'
    BY <1>4, <2>1, <2>4 DEF Given
  <2>. QED BY <2>2, <2>5
<1>. QED BY <1>5, <1>6

LEMMA ReceiveDataOwned ==
  ASSUME TablesInv, NEW f \in air, ReceiveData(f), NEW p \in PacketIds, OneOwner(p), Given(p)
  PROVE  OneOwner(p)' /\ Given(p)'
<1>0. TypeOK
  BY DEF TablesInv
<1>1. drive' = drive /\ pending_table' = pending_table
  BY DEF ReceiveData, tables
<1>2. f.type = "data" /\ air' = air \ {f}
  BY <1>0, DataAdds
<1>3. \A m \in Routers : \A i : InPend(p, m, i)' => InPend(p, m, i)
  BY <1>1, SamePendTable
<1>4. \A g : InAir(p, g)' => InAir(p, g) /\ g # f
  BY <1>2 DEF InAir
<1>5. CASE forward' = forward
  <2>1. Stays(p)
    BY <1>1, <1>3, <1>4, <1>5, SameFwd DEF Stays
  <2>. QED BY <2>1, StaysOwned
<1>6. ASSUME NEW n \in Routers, NEW q \in Packets, q.id = f.packet.id, Added(n, q)
      PROVE  OneOwner(p)' /\ Given(p)'
  <2>1. CASE p = f.packet.id
    <3>1. InAir(p, f)
      BY <1>2, <2>1 DEF InAir
    <3>2. \A m \in Routers : \A k : InFwd(p, m, k)' => m = n /\ k = Len(forward[n]) + 1
      BY <1>6, <3>1, AddedFwd DEF OneOwner
    <3>3. \A m \in Routers : \A i : ~InPend(p, m, i)'
      BY <1>3, <3>1 DEF OneOwner
    <3>4. \A g : ~InAir(p, g)'
      BY <1>4, <3>1 DEF OneOwner
    <3>5. OneOwner(p)'
      BY <3>2, <3>3, <3>4 DEF OneOwner
    <3>6. p <= drive'.sent
      BY <1>1, <3>1 DEF Given
    <3>7. Given(p)'
      BY <3>6 DEF Given
    <3>. QED BY <3>5, <3>7
  <2>2. CASE p # f.packet.id
    <3>1. \A m \in Routers : \A k : InFwd(p, m, k)' => InFwd(p, m, k)
      BY <1>6, <2>2, AddedFwd
    <3>2. Stays(p)
      BY <1>1, <1>3, <1>4, <3>1 DEF Stays
    <3>. QED BY <3>2, StaysOwned
  <2>. QED BY <2>1, <2>2
<1>. QED BY <1>0, <1>5, <1>6, DataAdds

\* The steps of zb_nwk_forward.
LEMMA ToNeighborOwned ==
  ASSUME TablesInv, TablesInv', NEW n \in Routers, ForwardToNeighbor(n),
         NEW p \in PacketIds, OneOwner(p), Given(p)
  PROVE  OneOwner(p)' /\ Given(p)'
<1> DEFINE h == Head(forward[n])
           frame == DataFrame(n, h.dst, h)
<1>0. TypeOK /\ TypeOK'
  BY DEF TablesInv
<1>1. Shifted(n) /\ drive' = drive
  BY <1>0, TakenShifts DEF ForwardToNeighbor, Taken
<1>2. air' = air \cup {frame} /\ pending_table' = pending_table
  BY Zenon DEF ForwardToNeighbor, tables
<1>3. frame.packet = h
  BY DEF DataFrame
<1>4. \A q : \A m \in Routers : \A i : InPend(q, m, i)' => InPend(q, m, i)
  BY <1>2, SamePendTable
<1>. HIDE DEF frame
<1>5. \A q : \A f : InAir(q, f)' =>
        \/ InAir(q, f)
        \/ q = Head(forward[n]).id /\ f = frame /\ UNCHANGED pending_table
  BY <1>2, <1>3 DEF InAir
<1>. QED BY <1>0, <1>1, <1>4, <1>5, ShiftedOwned

LEMMA ByRouteOwned ==
  ASSUME TablesInv, TablesInv', NEW n \in Routers, ForwardByRoute(n),
         NEW p \in PacketIds, OneOwner(p), Given(p)
  PROVE  OneOwner(p)' /\ Given(p)'
<1> DEFINE h == Head(forward[n])
           frame == DataFrame(n, routing_table[n][FindRoute(n, h.dst)].next_hop_addr, h)
<1>0. TypeOK /\ TypeOK'
  BY DEF TablesInv
<1>1. Shifted(n) /\ drive' = drive
  BY <1>0, TakenShifts DEF ForwardByRoute, Taken
<1>2. air' = air \cup {frame} /\ pending_table' = pending_table
  BY Zenon DEF ForwardByRoute
<1>3. frame.packet = h
  BY DEF DataFrame
<1>4. \A q : \A m \in Routers : \A i : InPend(q, m, i)' => InPend(q, m, i)
  BY <1>2, SamePendTable
<1>. HIDE DEF frame
<1>5. \A q : \A f : InAir(q, f)' =>
        \/ InAir(q, f)
        \/ q = Head(forward[n]).id /\ f = frame /\ UNCHANGED pending_table
  BY <1>2, <1>3 DEF InAir
<1>. QED BY <1>0, <1>1, <1>4, <1>5, ShiftedOwned

LEMMA PendOwned ==
  ASSUME TablesInv, TablesInv', NEW n \in Routers, ForwardPend(n),
         NEW p \in PacketIds, OneOwner(p), Given(p)
  PROVE  OneOwner(p)' /\ Given(p)'
<1>0. TypeOK /\ TypeOK'
  BY DEF TablesInv
<1>1. Shifted(n) /\ drive' = drive
  BY <1>0, TakenShifts DEF ForwardPend, Taken
<1>2. air' = air
  BY DEF ForwardPend
<1>3. PICK slot : \E v \in Pendings :
        /\ slot \notin UsedSlots(pending_table[n]) /\ v.packet = Head(forward[n])
        /\ PendEdited(n, slot, v)
  BY <1>0, PendTakes
<1>4. PICK v \in Pendings :
        /\ slot \notin UsedSlots(pending_table[n]) /\ v.packet = Head(forward[n])
        /\ PendEdited(n, slot, v)
  BY <1>3
<1>5. \A q : \A m \in Routers : \A i : InPend(q, m, i)' =>
        \/ InPend(q, m, i)
        \/ q = Head(forward[n]).id /\ m = n /\ i = slot /\ UNCHANGED air
  BY <1>2, <1>4 DEF PendEdited, InPend
<1>6. \A q : \A f : InAir(q, f)' => InAir(q, f)
  BY <1>2 DEF InAir
<1>. QED BY <1>0, <1>1, <1>5, <1>6, ShiftedOwned

LEMMA DropOwned ==
  ASSUME TablesInv, TablesInv', NEW n \in Routers, ForwardDrop(n),
         NEW p \in PacketIds, OneOwner(p), Given(p)
  PROVE  OneOwner(p)' /\ Given(p)'
<1>0. TypeOK /\ TypeOK'
  BY DEF TablesInv
<1>1. Shifted(n) /\ drive' = drive
  BY <1>0, TakenShifts DEF ForwardDrop, Taken
<1>2. pending_table' = pending_table /\ air' = air
  BY DEF ForwardDrop, tables
<1>3. \A q : \A m \in Routers : \A i : InPend(q, m, i)' => InPend(q, m, i)
  BY <1>2, SamePendTable
<1>4. \A q : \A f : InAir(q, f)' => InAir(q, f)
  BY <1>2 DEF InAir
<1>. QED BY <1>0, <1>1, <1>3, <1>4, ShiftedOwned

\* What leaves forward and the packets on the air alone and at most frees slots of
\* the pending table.
LEMMA ExpiryPendingStays ==
  ASSUME TablesInv, NEW n \in Routers, ExpiryPending(n), NEW p \in PacketIds
  PROVE  Stays(p)
<1>1. forward' = forward /\ drive' = drive /\ air' = air
  BY DEF ExpiryPending
<1>2. \A m \in Routers : \A j \in UsedSlots(pending_table[m])' :
        /\ j \in UsedSlots(pending_table[m])
        /\ pending_table'[m][j].packet = pending_table[m][j].packet
  BY ExpiryPendingAges DEF TablesInv
<1>. QED BY <1>1, <1>2, SameFwd, SamePend, NoNewAir DEF Stays

LEMMA PacketsUnchanged ==
  ASSUME UNCHANGED <<forward, pending_table, air, drive>>, NEW p \in PacketIds
  PROVE  Stays(p)
BY SameFwd, SamePendTable, NoNewAir DEF Stays

LEMMA OwnersStep ==
  ASSUME TablesInv, TablesInv', [Next]_vars, NEW p \in PacketIds, OneOwner(p), Given(p)
  PROVE  OneOwner(p)' /\ Given(p)'
<1>1. CASE \E n \in Routers, d \in Devices : RouteDiscoveryRequest(n, d)
  BY <1>1, RequestStays, StaysOwned
<1>2. CASE \E n \in Routers, d \in Devices : Send(n, d)
  BY <1>2, SendOwned
<1>3. CASE \E n \in Routers : InitiateRouteDiscovery(n)
  BY <1>3, InitiateStays, StaysOwned
<1>4. CASE \E n \in Routers : ForwardToNeighbor(n)
  BY <1>4, ToNeighborOwned
<1>5. CASE \E n \in Routers : ForwardByRoute(n)
  BY <1>5, ByRouteOwned
<1>6. CASE \E n \in Routers : ForwardPend(n)
  BY <1>6, PendOwned
<1>7. CASE \E n \in Routers : ForwardDrop(n)
  BY <1>7, DropOwned
<1>8. CASE \E f \in air : ReceiveRreq(f)
  BY <1>8, ReceiveRreqStays, StaysOwned
<1>9. CASE \E f \in air : ReceiveRrep(f)
  BY <1>9, ReceiveRrepOwned
<1>10. CASE \E f \in air : ReceiveData(f)
  BY <1>10, ReceiveDataOwned
<1>11. CASE \E n \in drive.case.aging : ExpiryRouteDisc(n)
  <2>1. UNCHANGED <<forward, pending_table, air, drive>>
    BY <1>11, Zenon DEF ExpiryRouteDisc
  <2>. QED BY <2>1, PacketsUnchanged, StaysOwned
<1>12. CASE \E n \in Routers : RouteDiscFailed(n)
  <2>1. UNCHANGED <<forward, pending_table, air, drive>>
    BY <1>12 DEF RouteDiscFailed, tables
  <2>. QED BY <2>1, PacketsUnchanged, StaysOwned
<1>13. CASE \E n \in Routers : ExpiryPending(n)
  BY <1>13, ExpiryPendingStays, StaysOwned
<1>14. CASE UNCHANGED vars
  <2>1. UNCHANGED <<forward, pending_table, air, drive>>
    BY <1>14 DEF vars, tables
  <2>. QED BY <2>1, PacketsUnchanged, StaysOwned
<1>. QED
  BY <1>1, <1>2, <1>3, <1>4, <1>5, <1>6, <1>7, <1>8, <1>9, <1>10, <1>11, <1>12, <1>13, <1>14,
     Zenon DEF Next

LEMMA OwnersInit ==
  ASSUME Init
  PROVE  OwnersInv
<1>1. /\ \A n \in Routers : forward[n] = << >>
      /\ \A n \in Routers : UsedSlots(pending_table[n]) = {}
      /\ air = {}
  BY DEF Init, UsedSlots, FreeSlots
<1>2. \A n \in Routers : DOMAIN forward[n] = {}
  BY <1>1
<1>. QED BY <1>1, <1>2 DEF OwnersInv, OneOwner, Given, InFwd, InPend, InAir

\* The places of a packet are those of the invariant.
LEMMA PlacesAre ==
  ASSUME NEW p, NEW x \in Places(p)
  PROVE  \/ \E n \in Routers : \E k : InFwd(p, n, k) /\ x = <<"forward", n, k>>
         \/ \E n \in Routers : \E i : InPend(p, n, i) /\ x = <<"pending", n, i>>
         \/ \E f : InAir(p, f) /\ x = <<"air", f, 0>>
<1>1. CASE \E n \in Routers : x \in {<<"forward", n, k>> :
                                   k \in {k \in DOMAIN forward[n] : forward[n][k].id = p}}
  BY <1>1 DEF InFwd
<1>2. CASE \E n \in Routers :
             x \in {<<"pending", n, i>> :
                     i \in {i \in UsedSlots(pending_table[n]) :
                              pending_table[n][i].packet.id = p}}
  BY <1>2 DEF InPend
<1>3. CASE x \in {<<"air", f, 0>> : f \in {f \in air : f.type = "data" /\ f.packet.id = p}}
  BY <1>3 DEF InAir
<1>. QED BY <1>1, <1>2, <1>3, Zenon DEF Places

LEMMA OwnersFollow ==
  ASSUME OwnersInv
  PROVE  PacketOnce
<1>1. SUFFICES ASSUME NEW p \in PacketIds
               PROVE  Cardinality(Places(p)) <= 1
  BY DEF PacketOnce
<1>2. OneOwner(p)
  BY DEF OwnersInv
<1>3. ASSUME NEW x \in Places(p), NEW y \in Places(p)
      PROVE  x = y
  BY <1>2, PlacesAre DEF OneOwner
<1>4. Places(p) = {} \/ \E x : Places(p) = {x}
  BY <1>3
<1>5. CASE Places(p) = {}
  <2>1. Cardinality(Places(p)) = 0
    BY <1>5, FS_EmptySet
  <2>. QED BY <2>1
<1>6. ASSUME NEW x, Places(p) = {x}
      PROVE  Cardinality(Places(p)) <= 1
  <2>1. Cardinality(Places(p)) = 1
    BY <1>6, FS_Singleton
  <2>. QED BY <2>1
<1>. QED BY <1>4, <1>5, <1>6

THEOREM OwnersInductive == Spec => []OwnersInv
<1>1. Init => OwnersInv
  BY OwnersInit
<1>2. TablesInv /\ TablesInv' /\ OwnersInv /\ [Next]_vars => OwnersInv'
  BY OwnersStep DEF OwnersInv
<1>. QED BY <1>1, <1>2, TablesInductive, PTL DEF Spec

\* A packet's buffer has one owner: zb_nwk_forward, the pending table or the frame
\* on the air, whatever the replies and the expiries race (nwk_cr_mesh_routing.c:594).
THEOREM PacketHasOneOwner == Spec => []PacketOnce
BY OwnersInductive, OwnersFollow, PTL
=============================================================================
