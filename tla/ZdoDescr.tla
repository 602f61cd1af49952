------------------------------ MODULE ZdoDescr ------------------------------
(***************************************************************************)
(* What a device answers to the discovery requests of the device profile   *)
(* (zdo/zdo_disc_srv.c, the LQI and server discovery answers of            *)
(* zdo_nwk_manage_srv.c) from its descriptors (zdo/af_descriptor.c), its   *)
(* addresses and its neighbor table, and what a device announcement does   *)
(* to the neighbor table (zdo/zdo_rx.c).                                   *)
(*                                                                         *)
(* An answer is a record: what happens to the buffer ("resp": it carries   *)
(* the response, "free", "leak": nobody keeps it), the status, and the     *)
(* list of endpoints or addresses.  A value the code reads without having  *)
(* written it is taken from the set Garbage.                               *)
(***************************************************************************)
EXTENDS Naturals, Integers, Sequences, FiniteSets, SequencesExt, FiniteSetsExt

CONSTANTS
  MaxEp,          \* ZB_MAX_EP_NUMBER
  Garbage,        \* endpoint numbers an unwritten byte of ep_list may hold
  Own,            \* this device: its IEEE and short address
  NbtSize,        \* ZB_NEIGHBOR_TABLE_SIZE
  AddrsInResp,    \* addresses that fit behind the headers of an address response
  RecordsInResp,  \* neighbor records taken to fit into an LQI response
  Wrap            \* 2^w of the 8-bit counters

ASSUME DescrAssumption ==
  MaxEp \in Nat \ {0} /\ Garbage \subseteq Nat /\ NbtSize \in Nat \ {0} /\ AddrsInResp \in Nat /\ RecordsInResp \in Nat /\ Wrap \in Nat \ {0}

Ans(act, st, list) == [act |-> act, status |-> st, list |-> list]
Resp(st, list) == Ans("resp", st, list)

-----------------------------------------------------------------------------
(* The requests as they are received, and the entries of the tables the     *)
(* answers are made from.  used is the number of neighbors the network      *)
(* layer counts.                                                            *)
AddrReqMsg(clid, dev, type, start, unicast, used) ==
  [clid |-> clid, dev |-> dev, type |-> type, start |-> start, unicast |-> unicast, used |-> used]
DescReqMsg(clid, addr) == [clid |-> clid, addr |-> addr]
SimpleDescReqMsg(addr, ep) == [clid |-> "simple_desc", addr |-> addr, ep |-> ep]
MatchDescReqMsg(addr, profile, in, out) == [clid |-> "match_desc", addr |-> addr, profile |-> profile, in |-> in, out |-> out]
ServerDiscoveryMsg(mask) == [clid |-> "ssd", mask |-> mask]
LqiReqMsg(start, used) == [clid |-> "lqi", start |-> start, used |-> used]
SimpleDescriptor(ep, profile, in, out) == [ep |-> ep, profile |-> profile, in |-> in, out |-> out]
NeighborRecord(dev, short, rel) == [used |-> TRUE, dev |-> dev, short |-> short, type |-> "router", rel |-> rel, rxOn |-> TRUE]

-----------------------------------------------------------------------------
(* Descriptors: zb_set_node_descriptor, zb_set_ffd_node_descriptor,         *)
(* zb_set_ed_node_descriptor, the default values, zb_set_simple_descriptor, *)
(* zb_set_input_cluster_id, zb_set_output_cluster_id,                       *)
(* zb_set_zdo_descriptor and zb_add_simple_descriptor.                      *)

SetNodeDescriptor(type, power, rxOn, alloc) ==
  [type |-> type, ffd |-> type \in {"zc", "zr"}, power |-> power, rxOn |-> rxOn, alloc |-> alloc,
   servers |-> IF type = "zc" THEN {"trust_center", "network_manager"} ELSE {}]
SetFfdNodeDescriptor(type) == SetNodeDescriptor(type, 0, 1, 0)
SetEdNodeDescriptor(power, rxOn, alloc) == SetNodeDescriptor("ze", power, rxOn, alloc)
SetNodePowerDescriptor(available, current) == [mode |-> "sync", available |-> available, current |-> current, level |-> "100"]
SetSimpleDescriptor(ep, profile, nIn, nOut) ==
  [ep |-> ep, profile |-> profile, in |-> [i \in 1 .. nIn |-> 0], out |-> [i \in 1 .. nOut |-> 0]]
ZdoDescriptor ==
  [SetSimpleDescriptor(0, 0, 7, 8) EXCEPT
     !.in = <<"nwk_addr_resp", "ieee_addr_resp", "node_desc_resp", "power_desc_resp", "simple_desc_resp", "active_ep_resp", "match_desc_resp">>,
     !.out = <<"nwk_addr", "ieee_addr", "node_desc", "power_desc", "simple_desc", "active_ep", "match_desc", "annce">>]
DefaultFfdDescriptors(type) ==
  [node |-> SetFfdNodeDescriptor(type), zdo |-> ZdoDescriptor, list |-> <<>>,
   power |-> SetNodePowerDescriptor({"constant", "rechargeable", "disposable"}, {"constant", "rechargeable"})]
DefaultEdDescriptors ==
  [node |-> SetEdNodeDescriptor(0, 1, 0), zdo |-> ZdoDescriptor, list |-> <<>>,
   power |-> SetNodePowerDescriptor({"constant"}, {"constant"})]
AddSimpleDescriptor(list, d) == IF Len(list) < MaxEp THEN Append(list, d) ELSE list

-----------------------------------------------------------------------------
(* zdo_send_desc_resp, which zb_zdo_data_indication never calls: the test   *)
(* asks for a cluster that is both of two.                                  *)
CallsDescResp(clid) == clid = "node_desc" /\ clid = "power_desc"
NotOwnStatus(coordinator) == IF coordinator THEN "device_not_found" ELSE "inv_requesttype"
DescResp(addr, coordinator) == Resp(IF addr = Own THEN "ok" ELSE NotOwnStatus(coordinator), <<>>)

(* zdo_send_simple_desc_resp; endpoint 0 is the ZDO itself. *)
SimpleDescResp(descs, addr, ep, coordinator) ==
  IF addr # Own THEN Resp(NotOwnStatus(coordinator), <<>>)
  ELSE IF ep = 0 \/ \E i \in 1 .. Len(descs.list) : descs.list[i].ep = ep THEN Resp("ok", <<ep>>)
  ELSE Resp("invalid_ep", <<>>)

(* The associated devices in an extended response: the walk over the table  *)
(* stays at an entry until start of them have been counted, so it always    *)
(* begins at the first entry, and stops for good at an unused one.          *)
AssocCount(used, start) == (used - start + Wrap) % Wrap
UsedRun(nbt) == Min({NbtSize} \cup {i \in 0 .. NbtSize - 1 : ~nbt[i + 1].used})
AssocListed(nbt, used, start) ==
  LET turns == NbtSize - (IF start > 1 THEN start - 1 ELSE 0)
  IN [i \in 1 .. Min({UsedRun(nbt), AssocCount(used, start), AddrsInResp, Max({turns, 0})}) |-> nbt[i].short]
ExtResp(nbt, used, start) ==
  IF AssocCount(used, start) = 0 THEN Ans("free", "none", <<>>) ELSE Resp("ok", AssocListed(nbt, used, start))
InNbt(nbt, dev) == {i \in 1 .. NbtSize : nbt[i].used /\ nbt[i].dev = dev}

(* zdo_device_nwk_addr_res: q is [dev, type, start, unicast].  A broadcast  *)
(* request for a device nobody knows is answered with an unknown address.   *)
NwkAddrOf(nbt, q) ==
  IF q.dev = Own THEN Own
  ELSE IF q.type # "single" \/ InNbt(nbt, q.dev) = {} THEN "unknown"
  ELSE nbt[Min(InNbt(nbt, q.dev))].short
NwkAddrRes(nbt, used, q, ffd) ==
  LET addr == NwkAddrOf(nbt, q)
  IN IF addr = "unknown" /\ q.unicast THEN Resp("device_not_found", <<>>)
     ELSE IF q.type = "other" THEN Resp("inv_requesttype", <<>>)
     ELSE IF q.type = "single" THEN Resp("ok", <<addr>>)
     ELSE IF ffd THEN ExtResp(nbt, used, q.start)
     ELSE Resp("request", <<>>)       \* an end device sends the request itself back

(* zdo_device_ieee_addr_res; the buffer of a broadcast for another device   *)
(* is kept by nobody.                                                       *)
IeeeAddrRes(nbt, used, q, ffd) ==
  IF q.dev # Own THEN IF q.unicast THEN Resp("device_not_found", <<>>) ELSE Ans("leak", "none", <<>>)
  ELSE IF q.type = "other" THEN Resp("inv_requesttype", <<>>)
  ELSE IF q.type = "single" THEN Resp("ok", <<Own>>)
  ELSE IF ffd THEN ExtResp(nbt, used, q.start)
  ELSE Resp("request", <<>>)

(* zdo_active_ep_res, written for one endpoint. *)
ActiveEpRes(descs, addr, ffd) ==
  IF addr # Own THEN Resp(IF ffd THEN "device_not_found" ELSE "inv_requesttype", <<>>)
  ELSE Resp("ok", <<descs.list[1].ep>>)

(* add_ep_sorted: eps is the list and the unwritten byte behind it. *)
EpPlace(eps, ep) == Min({Len(eps) + 1} \cup {i \in 1 .. Len(eps) : ep <= eps[i]})
AddEpSorted(eps, unwritten, ep) ==
  LET at == EpPlace(eps, ep)
      there == IF at <= Len(eps) THEN eps[at] ELSE unwritten
  IN IF there = ep THEN eps ELSE InsertAt(eps, at, ep)

(* zdo_match_desc_res: q is [addr, profile, in, out]. *)
Common(s1, s2) == ToSet(s1) \cap ToSet(s2) # {}
DescMatches(d, q) == d.profile = q.profile /\ (Common(d.in, q.in) \/ Common(d.out, q.out))
MatchedEps(descs, q, unwritten) ==
  FoldLeft(LAMBDA eps, d : IF DescMatches(d, q) THEN AddEpSorted(eps, unwritten, d.ep) ELSE eps, <<>>, descs.list)
MatchDescRes(descs, q, unwritten) ==
  LET eps == IF q.addr \in {Own, "broadcast"} THEN MatchedEps(descs, q, unwritten) ELSE <<>>
  IN Resp(IF eps = <<>> THEN "no_descriptor" ELSE "ok", eps)

(* zdo_system_server_discovery_res *)
ServerDiscoveryRes(descs, asked) ==
  IF asked \cap descs.node.servers = {} THEN Ans("free", "none", <<>>)
  ELSE Resp("ok", SetToSeq(asked \cap descs.node.servers))

(* zdo_lqi_resp: the records are the first used entries, wherever the       *)
(* request wants to begin.                                                  *)
LqiCount(used, start) == Min({IF used > start THEN used - start ELSE 0, RecordsInResp})
LqiResp(nbt, used, start, ffd) ==
  LET present == SelectSeq([i \in 1 .. NbtSize |-> i], LAMBDA i : nbt[i].used)
      n == Min({LqiCount(used, start), Len(present)})
  IN IF ffd THEN Resp("ok", [i \in 1 .. n |-> nbt[present[i]].short]) ELSE Resp("not_supported", <<>>)

-----------------------------------------------------------------------------
(* zdo_device_info_upd: a child that announces another address is a former  *)
(* child; the entry is updated, or made, when the announcement was heard    *)
(* from the device itself.                                                  *)
DeviceInfoUpd(nbt, dev, short, direct) ==
  LET there == InNbt(nbt, dev)
      free  == {i \in 1 .. NbtSize : ~nbt[i].used}
      moved == [i \in 1 .. NbtSize |->
                 IF i \notin there THEN nbt[i]
                 ELSE [nbt[i] EXCEPT !.short = short,
                                     !.rel = IF nbt[i].short # short /\ @ \in {"child", "unauth"} THEN "previous" ELSE @]]
  IN IF ~direct \/ (there = {} /\ free = {}) THEN [nbt |-> moved, at |-> 0]
     ELSE IF there # {} THEN [nbt |-> moved, at |-> Min(there)]
     ELSE [nbt |-> [moved EXCEPT ![Min(free)] = [used |-> TRUE, dev |-> dev, short |-> short, type |-> "none", rel |-> "none", rxOn |-> FALSE]],
           at |-> Min(free)]

(* zdo_device_annce_srv: cap is [router, rxOn]. *)
Announced(e, cap) ==
  [e EXCEPT !.type = IF @ = "none" \/ e.rel = "previous" THEN IF cap.router THEN "router" ELSE "ed" ELSE @,
            !.rxOn = cap.rxOn,
            !.rel = IF @ = "none" /\ cap.router THEN "sibling" ELSE @]
DeviceAnnceSrv(nbt, dev, short, direct, cap) ==
  LET u == DeviceInfoUpd(nbt, dev, short, direct)
  IN IF u.at = 0 THEN u.nbt ELSE [u.nbt EXCEPT ![u.at] = Announced(@, cap)]
=============================================================================
