-------------------------------- MODULE Zdo --------------------------------
(***************************************************************************)
(* The device profile of one device (zdo/): requests it sends and the      *)
(* table of callbacks waiting for answers, the requests it serves, end     *)
(* device bind, energy scans for the network manager and the channel       *)
(* manager, leaving on request, permit joining, and data sent by binding   *)
(* with the lookup of the destination's address.                           *)
(*                                                                         *)
(* Every buffer holds one job: what the scheduler, the APS layer or the    *)
(* NWK layer will do with it next.  Jobs run in any order, which includes  *)
(* the order of the callback queue.  The network is the environment: it    *)
(* delivers requests, answers what it was asked (late, in any order, or    *)
(* never), acknowledges frames or not.  What the environment and the       *)
(* application may start is bounded by the mix chosen at the beginning:    *)
(* how often each kind of stimulus may come, and how many requests may be  *)
(* sent (a lookup that fails is repeated without end).                     *)
(*                                                                         *)
(* Where the code calls through an overwritten pointer, uses a buffer that *)
(* belongs to somebody else or writes past a table, wild becomes TRUE and  *)
(* the model stops.                                                        *)
(***************************************************************************)
EXTENDS Binding, ZdoDescr

CONSTANTS
  TableSize,      \* ZDO_TRAN_TABLE_SIZE
  TsnMod,         \* 2^w of the transaction sequence number
  PendSize,       \* ZB_ZDO_PENDING_LEAVE_SIZE
  NBuf,           \* buffers
  Mixes,          \* bound: which kinds of stimuli may happen together, and how many
  PeerTsn,        \* sequence numbers the peers use in their requests
  Durations,      \* permit joining durations asked for
  ScanCounts,     \* energy scans asked for
  BindReqs,       \* bind and unbind requests that may arrive
  EdBindReqs,     \* end device bind requests that may arrive
  DiscReqs,       \* discovery requests that may arrive: [clid, ...]
  Annces,         \* device announcements that may arrive
  InitNbt,        \* neighbor table
  MyDescs         \* simple descriptors of the application

ASSUME ZdoAssumption ==
  /\ TableSize \in Nat \ {0} /\ TsnMod \in Nat \ {0} /\ PendSize \in Nat /\ NBuf \in Nat \ {0} /\ PeerTsn \subseteq Nat
  /\ Durations \subseteq Nat \cup {-1}
  /\ ScanCounts \subseteq Nat
  /\ \A q \in EdBindReqs : q.in \in Seq(Nat) /\ q.out \in Seq(Nat)

VARIABLES
  role,     \* "zc", "zr" or "ze": the build
  mix, n,   \* the kinds of stimuli of this behaviour, and how many of each may still come
  tsn, reqs,    \* ZDO_CTX().tsn; ghost: requests sent so far, each numbered
  cbs,      \* zdo_cb
  ssd,      \* system_server_discovery_tsn and _cb
  owed,     \* answers the network may still give
  buf,      \* what each buffer is used for
  wait,     \* handlers waiting for an output buffer, with how often
  pend,     \* leave_context
  ctx,      \* the union zdo_ctx
  flg,      \* ZG->zdo.flags, the scan flags of the APS layer, transmission failures
  tm,       \* alarms of the channel management pending
  edb,      \* end_device_bind_ctx
  permit,   \* permit joining
  bt, groups, descs, nbt,       \* binding table, groups, descriptors, neighbors
  resolved, \* devices whose short address is known
  joined, wild

client == <<tsn, reqs, cbs, ssd, owed>>
scanning == <<ctx, flg, tm>>
tables == <<bt, groups, descs, nbt, resolved>>
env == <<role, mix>>
vars == <<role, mix, n, tsn, reqs, cbs, ssd, owed, buf, wait, pend, ctx, flg, tm, edb, permit, bt, groups, descs, nbt, resolved, joined, wild>>

Ffd == role \in {"zc", "zr"}
Bufs == 1 .. NBuf
Undef == 0          \* ZB_UNDEFINED_BUFFER
J(do) == [do |-> do]
Free == J("free")
Lost == J("lost")
FreeBufs == {b \in Bufs : buf[b].do = "free"}
NewBuf == Min(FreeBufs)
In(b, do) == ~wild /\ buf[b].do = do
Put(b, job) == [buf EXCEPT ![b] = job]
Stim(k) == ~wild /\ k \in DOMAIN n /\ n[k] > 0 /\ n' = [n EXCEPT ![k] = @ - 1]
Run == ~wild /\ n' = n
Waits(w) == wait' = [wait EXCEPT ![w] = @ + 1]

-----------------------------------------------------------------------------
(* Requests and the table of callbacks.                                    *)

Q(clid, func, count, bcast) == [clid |-> clid, func |-> func, count |-> count, bcast |-> bcast, noResp |-> FALSE, x |-> "none"]
NoCb == [func |-> "none", tsn |-> 0, left |-> 0, req |-> 0]
Hash(t) == t % TableSize
Probe(t) == [k \in 1 .. TableSize |-> (Hash(t) + k - 1) % TableSize]
FirstOf(t, ok(_)) == IF \E k \in 1 .. TableSize : ok(Probe(t)[k])
                     THEN Probe(t)[Min({k \in 1 .. TableSize : ok(Probe(t)[k])})] ELSE -1

(* register_zdo_cb: when the table is full the callback is forgotten.      *)
Register(table, t, func, count, req) ==
  LET i == FirstOf(t, LAMBDA k : table[k].func = "none")
  IN IF func = "null" \/ i = -1 THEN table
     ELSE [table EXCEPT ![i] = [func |-> func, tsn |-> t, left |-> count, req |-> req]]

(* zdo_send_req_by_short and zdo_send_req: the frame asks for an APS       *)
(* acknowledgement unless it is a broadcast.                               *)
TxReq(q, t, r) == [do |-> "tx", kind |-> "req", tsn |-> t, req |-> r, ack |-> ~q.bcast, noResp |-> q.noResp]
TxResp(t) == [do |-> "tx", kind |-> "resp", tsn |-> t, req |-> 0, ack |-> TRUE, noResp |-> FALSE]
TxAns(t, q, a) == [do |-> "tx", kind |-> "resp", tsn |-> t, req |-> 0, ack |-> TRUE, noResp |-> FALSE, q |-> q, ans |-> a]
NextTsn == (tsn + 1) % TsnMod
Owe(q) == IF q.noResp \/ q.clid \in {"permit", "notify"} THEN {}      \* nobody answers these
          ELSE {[req |-> reqs + 1, tsn |-> NextTsn, clid |-> q.clid, x |-> q.x, left |-> IF q.bcast THEN 2 ELSE Max({q.count, 1})]}
SendReq(b, q) ==
  /\ reqs < mix.reqs
  /\ tsn' = NextTsn /\ reqs' = reqs + 1
  /\ cbs' = Register(cbs, NextTsn, q.func, q.count, reqs + 1)
  /\ ssd' = IF q.clid = "ssd" THEN [ssd EXCEPT !.tsn = NextTsn, !.req = reqs + 1] ELSE ssd
  /\ owed' = owed \cup Owe(q)
  /\ buf' = Put(b, TxReq(q, NextTsn, reqs + 1))

(* zdo_af_resp: the callback registered for the sequence number is called  *)
(* with this buffer; otherwise the buffer is for the caller to use.        *)
MutFindCb(t) == FirstOf(t, LAMBDA k : cbs[k].func # "none")
FindCb(t) == FirstOf(t, LAMBDA k : cbs[k].tsn = t /\ cbs[k].func # "none")
Answered(e) == IF (e.left - 1 + Wrap) % Wrap = 0 THEN NoCb ELSE [e EXCEPT !.left = (@ - 1 + Wrap) % Wrap]
CallOf(e, about, st, x) == [do |-> "call", func |-> e.func, req |-> e.req, about |-> about, st |-> st, x |-> x]
AfResp(b, t, about, st, x, otherwise) ==
  LET i == FindCb(t)
  IN /\ cbs' = IF i = -1 THEN cbs ELSE [cbs EXCEPT ![i] = Answered(@)]
     /\ buf' = Put(b, IF i = -1 THEN otherwise ELSE CallOf(cbs[i], about, st, x))

(* The requests of the client side: zb_zdo_nwk_addr_req and so on.  The     *)
(* number of answers expected for an energy scan is the number of scans,    *)
(* which may be 0.                                                          *)
NwkAddrReq(func, dev) == [Q("nwk_addr", func, 1, FALSE) EXCEPT !.x = dev]
IeeeAddrReq == Q("ieee_addr", "app", 1, FALSE)
NodeDescReq == Q("node_desc", "app", 1, FALSE)
PowerDescReq == Q("power_desc", "app", 1, FALSE)
SimpleDescReq == Q("simple_desc", "app", 1, FALSE)
ActiveEpReq == Q("active_ep", "app", 1, FALSE)
MatchDescReq(bcast) == Q("match_desc", "app", 1, bcast)
NwkUpdateScanReq(count) == Q("update", "app", count, FALSE)
NwkUpdateMaskReq == [Q("update", "app", 1, TRUE) EXCEPT !.noResp = TRUE]
NwkUpdateChannelReq(func) == [Q("update", func, 1, TRUE) EXCEPT !.noResp = TRUE]
SystemServerDiscoveryReq == Q("ssd", "null", 1, TRUE)
LqiReq == Q("lqi", "app", 1, FALSE)
LeaveReq == Q("leave", "app", 1, FALSE)
PermitJoiningReq == Q("permit", "app", 1, FALSE)
BindUnbindReq(bind, func) == Q(IF bind THEN "bind" ELSE "unbind", func, 1, FALSE)
EndDeviceBindReq == Q("edbind", "app", 1, FALSE)

PlainReqs == {NwkAddrReq("app", "none"), IeeeAddrReq, NodeDescReq, PowerDescReq, SimpleDescReq, ActiveEpReq, MatchDescReq(FALSE), MatchDescReq(TRUE),
              NwkUpdateMaskReq, LqiReq, LeaveReq, PermitJoiningReq, BindUnbindReq(TRUE, "app"), BindUnbindReq(FALSE, "app"), EndDeviceBindReq}
             \cup {NwkUpdateScanReq(c) : c \in ScanCounts}

(* The application sends a request. *)
AppRequest(q) ==
  /\ Stim("request") /\ q.clid \in mix.clids /\ FreeBufs # {}
  /\ SendReq(NewBuf, q)
  /\ UNCHANGED <<env, wait, pend, scanning, edb, permit, tables, joined, wild>>

(* zb_zdo_system_server_discovery_req: its callback is not in the table. *)
AppServerDiscovery ==
  /\ Stim("ssd") /\ FreeBufs # {}
  /\ tsn' = NextTsn /\ reqs' = reqs + 1 /\ cbs' = Register(cbs, NextTsn, "null", 1, reqs + 1)
  /\ ssd' = [tsn |-> NextTsn, func |-> "app", req |-> reqs + 1]
  /\ owed' = owed \cup Owe(SystemServerDiscoveryReq)
  /\ buf' = Put(NewBuf, TxReq(SystemServerDiscoveryReq, NextTsn, reqs + 1))
  /\ UNCHANGED <<env, wait, pend, scanning, edb, permit, tables, joined, wild>>

(* The new channel is taken over after the broadcast delivery time here too. *)
AppChannelRequest ==
  /\ Stim("channel") /\ FreeBufs # {}
  /\ SendReq(NewBuf, NwkUpdateChannelReq("app"))
  /\ tm' = [tm EXCEPT !.channel = @ + 1]
  /\ UNCHANGED <<env, wait, pend, ctx, flg, edb, permit, tables, joined, wild>>

-----------------------------------------------------------------------------
(* Leaving on request (Mgmt_Leave).                                        *)

NoLeave == [used |-> FALSE, tsn |-> 0, src |-> "none", buf |-> Undef, req |-> 0]
PendOf(b) == {i \in 0 .. pend.size - 1 : pend.tab[i].used /\ pend.tab[i].buf = b}
Dropped(p, i) == [p EXCEPT !.tab[i].used = FALSE, !.size = IF @ = i + 1 THEN i ELSE @]
FreePend == AtLeast({i \in 0 .. PendSize - 1 : ~pend.tab[i].used}, PendSize)
Pended(i, t, src, b, r) ==
  [pend EXCEPT !.tab[i] = [used |-> TRUE, tsn |-> t, src |-> src, buf |-> b, req |-> r], !.size = Max({@, i + 1})]
LeaveJob(dev, rejoin) == [do |-> "leave", dev |-> dev, rejoin |-> rejoin]

(* zb_nwk_do_leave: the entries of other requests stay marked as used, only *)
(* the number of entries is cleared.                                        *)
Left(p) == [p EXCEPT !.size = 0, !.after = FALSE]
LeftJob == IF pend.rejoin THEN J("rejoin") ELSE Free

(* zdo_mgmt_leave_srv; the device asked to leave is this one, a child, or   *)
(* one nobody knows.                                                        *)
MgmtLeaveSrv(b, t, src, dev, rejoin) ==
  LET i == FreePend
  IN IF i = PendSize THEN pend' = pend /\ buf' = Put(b, TxResp(t))
     ELSE pend' = Pended(i, t, src, b, 0) /\ buf' = Put(b, LeaveJob(dev, rejoin))

(* zdo_mgmt_leave_req to oneself, zdo_mgmt_leave_cli. *)
AppLeaveLocal(dev, rejoin) ==
  LET i == FreePend
      b == NewBuf
  IN /\ Stim("leave_local") /\ FreeBufs # {}
     /\ IF i = PendSize
        THEN /\ buf' = Put(b, CallOf([func |-> "app", req |-> 0], 0, "insufficient_space", "none"))
             /\ UNCHANGED <<client, pend>>
        ELSE /\ tsn' = NextTsn /\ reqs' = reqs + 1 /\ cbs' = Register(cbs, NextTsn, "app", 1, reqs + 1)
             /\ pend' = Pended(i, NextTsn, Own, b, reqs + 1)
             /\ buf' = Put(b, LeaveJob(dev, rejoin))
             /\ UNCHANGED <<ssd, owed>>
     /\ UNCHANGED <<env, wait, scanning, edb, permit, tables, joined, wild>>

(* zb_nlme_leave_request: a router build reads through a null pointer when  *)
(* it is to leave itself.                                                   *)
LeaveConf(b, st) == Put(b, [do |-> "left", dev |-> buf[b].dev, st |-> st])
NlmeLeaveRequest(b) ==
  /\ Run /\ In(b, "leave")
  /\ LET j == buf[b]
         known == InNbt(nbt, j.dev) # {} /\ nbt[Min(InNbt(nbt, j.dev))].rel = "child"
     IN IF ~joined THEN buf' = LeaveConf(b, "invalid") /\ UNCHANGED <<pend, wild>>
        ELSE IF j.dev = Own
        THEN /\ pend' = [pend EXCEPT !.rejoin = j.rejoin]
             /\ wild' = Ffd
             /\ buf' = IF Ffd THEN buf ELSE LeaveConf(b, "ok")
        ELSE buf' = LeaveConf(b, IF ~Ffd \/ known THEN "ok" ELSE "unknown") /\ UNCHANGED <<pend, wild>>
  /\ UNCHANGED <<env, client, wait, scanning, edb, permit, tables, joined>>

(* zb_nlme_leave_confirm, zdo_try_send_mgmt_leave_rsp: the answer is sent   *)
(* before the device leaves; a request of our own is answered at once, and  *)
(* this device then leaves whatever became of the request.                  *)
LeaveAnsweredLocally(b, i, st, will) ==
  LET found == FindCb(pend.tab[i].tsn) # -1
      p == IF found \/ st # "ok" \/ ~will THEN Dropped(pend, i) ELSE pend
  IN /\ AfResp(b, pend.tab[i].tsn, pend.tab[i].req, st, "none", Lost)
     /\ wait' = [wait EXCEPT !["leave_local"] = IF found THEN @ + 1 ELSE @]
     /\ pend' = [p EXCEPT !.after = will]
     /\ UNCHANGED <<joined, nbt, wild>>
LeaveAnsweredRemotely(b, i, st, will) ==
  /\ buf' = Put(b, TxResp(pend.tab[i].tsn))
  /\ pend' = [(IF st # "ok" \/ ~will THEN Dropped(pend, i) ELSE pend) EXCEPT !.after = will]
  /\ UNCHANGED <<cbs, wait, joined, nbt, wild>>
LeaveUnanswered(b, will) ==
  LET there == InNbt(nbt, buf[b].dev)
  IN /\ IF will THEN joined' = FALSE /\ pend' = Left(pend) /\ buf' = Put(b, LeftJob) /\ UNCHANGED <<nbt, wild>>
        ELSE /\ UNCHANGED <<joined, pend>>
             /\ wild' = (there = {})
             /\ nbt' = IF there = {} THEN nbt ELSE [nbt EXCEPT ![Min(there)].used = FALSE]
             /\ buf' = Put(b, Free)
     /\ UNCHANGED <<cbs, wait>>
NlmeLeaveConfirm(b) ==
  /\ Run /\ In(b, "left")
  /\ LET will == buf[b].st = "ok" /\ buf[b].dev = Own
         i == AtLeast(PendOf(b), -1)
     IN IF i = -1 THEN LeaveUnanswered(b, will)
        ELSE IF pend.tab[i].src = Own THEN LeaveAnsweredLocally(b, i, buf[b].st, will)
        ELSE LeaveAnsweredRemotely(b, i, buf[b].st, will)
  /\ UNCHANGED <<env, tsn, reqs, ssd, owed, scanning, edb, permit, bt, groups, descs, resolved>>

(* The end of the rejoin that follows a leave. *)
Rejoined(b) ==
  /\ Run /\ In(b, "rejoin")
  /\ joined' = TRUE /\ buf' = Put(b, Free)
  /\ UNCHANGED <<env, client, wait, pend, scanning, edb, permit, tables, wild>>

-----------------------------------------------------------------------------
(* Confirmation of our frames.                                             *)

(* zdo_try_mgmt_leave_complete *)
MgmtLeaveComplete(b, i) ==
  /\ IF pend.tab[i].src = Own
     THEN /\ pend' = Dropped(pend, i) /\ Waits("leave_local") /\ buf' = Put(b, Lost) /\ UNCHANGED joined
     ELSE /\ pend' = Left(Dropped(pend, i)) /\ joined' = FALSE /\ buf' = Put(b, LeftJob) /\ UNCHANGED wait
  /\ UNCHANGED cbs

(* zb_apsde_data_confirm and zb_apsde_data_acknowledged: a frame without    *)
(* acknowledgement calls the callback of the sequence number it starts      *)
(* with, also when it is a response or data.                                *)
DataAcknowledged(b, st) ==
  LET f == buf[b]
  IN /\ IF st = "no_ack" \/ f.noResp
        THEN AfResp(b, f.tsn, 0, IF st = "no_ack" THEN "timeout" ELSE "ok", "none", Free)
        ELSE buf' = Put(b, Free) /\ UNCHANGED cbs
     /\ UNCHANGED <<pend, wait, joined>>
DataConfirm(b, st) ==
  /\ Run /\ In(b, "tx") /\ (st = "no_ack" => buf[b].ack)
  /\ LET i == AtLeast(PendOf(b), -1)
     IN IF pend.after /\ i # -1 THEN MgmtLeaveComplete(b, i)
        ELSE IF st \in {"ok", "no_ack"} THEN DataAcknowledged(b, st)
        ELSE buf' = Put(b, Free) /\ UNCHANGED <<cbs, pend, wait, joined>>
  /\ UNCHANGED <<env, tsn, reqs, ssd, owed, scanning, edb, permit, tables, wild>>

-----------------------------------------------------------------------------
(* Requests from the network: the branches of zb_zdo_data_indication.      *)

(* Discovery requests, answered from tables.  Node and power descriptor     *)
(* requests fall through to the end of the dispatch and are freed.          *)
DiscoveryAnswer(q, unwritten) ==
  CASE q.clid \in {"node_desc", "power_desc"} -> IF CallsDescResp(q.clid) THEN DescResp(q.addr, role = "zc") ELSE Ans("free", "none", <<>>)
    [] q.clid = "simple_desc" -> SimpleDescResp(descs, q.addr, q.ep, role = "zc")
    [] q.clid = "nwk_addr"    -> NwkAddrRes(nbt, q.used, q, Ffd)
    [] q.clid = "ieee_addr"   -> IeeeAddrRes(nbt, q.used, q, Ffd)
    [] q.clid = "active_ep"   -> ActiveEpRes(descs, q.addr, Ffd)
    [] q.clid = "match_desc"  -> MatchDescRes(descs, q, unwritten)
    [] q.clid = "ssd"         -> ServerDiscoveryRes(descs, q.mask)
    [] q.clid = "lqi"         -> LqiResp(nbt, q.used, q.start, Ffd)
    [] OTHER                  -> Ans("free", "none", <<>>)
Kept(a, t, q) == CASE a.act = "resp" -> TxAns(t, q, a) [] a.act = "free" -> Free [] OTHER -> Lost
ReceiveDiscovery(q, t, unwritten) ==
  /\ Stim("disc") /\ (q.clid # "match_desc" => unwritten = Min(Garbage)) /\ FreeBufs # {}
  /\ buf' = Put(NewBuf, Kept(DiscoveryAnswer(q, unwritten), t, q))
  /\ UNCHANGED <<env, client, wait, pend, scanning, edb, permit, tables, joined, wild>>

ReceiveAnnce(a) ==
  /\ Stim("annce") /\ FreeBufs # {}
  /\ nbt' = IF Ffd THEN DeviceAnnceSrv(nbt, a.dev, a.short, a.direct, a.cap) ELSE nbt
  /\ UNCHANGED <<env, client, buf, wait, pend, scanning, edb, permit, bt, groups, descs, resolved, joined, wild>>

(* zb_zdo_bind_unbind_res *)
ReceiveBindUnbind(bind, r, t) ==
  /\ Stim("bind") /\ FreeBufs # {}
  /\ \E res \in {IF bind THEN BindRequest(bt, r) ELSE UnbindRequest(bt, r)} :
       IF res.t = Overrun THEN wild' = TRUE /\ UNCHANGED <<bt, buf>>
       ELSE bt' = res.t /\ buf' = Put(NewBuf, TxResp(t)) /\ UNCHANGED wild
  /\ UNCHANGED <<env, client, wait, pend, scanning, edb, permit, groups, descs, nbt, resolved, joined>>

ReceiveLeave(t, src, dev, rejoin) ==
  /\ Stim("leave") /\ FreeBufs # {}
  /\ MgmtLeaveSrv(NewBuf, t, src, dev, rejoin)
  /\ UNCHANGED <<env, client, wait, scanning, edb, permit, tables, joined, wild>>

(* zb_zdo_mgmt_permit_joining_handle; an end device keeps the buffer. *)
ReceivePermit(duration) ==
  /\ Stim("permit") /\ FreeBufs # {}
  /\ buf' = Put(NewBuf, IF Ffd THEN [do |-> "permit", duration |-> duration] ELSE Lost)
  /\ UNCHANGED <<env, client, wait, pend, scanning, edb, permit, tables, joined, wild>>

(* zb_nlme_permit_joining_request: 0 forbids, -1 allows without end. *)
MutPermitRequest(b) ==
  /\ Run /\ In(b, "permit")
  /\ LET d == buf[b].duration
     IN permit' = [join |-> d > 0, assoc |-> d # 0, beacon |-> d # 0, alarms |-> permit.alarms + (IF d > 0 THEN 1 ELSE 0), last |-> d]
  /\ buf' = Put(b, J("started"))
  /\ UNCHANGED <<env, client, wait, pend, scanning, edb, tables, joined, wild>>
NlmePermitJoiningRequest(b) ==
  /\ Run /\ In(b, "permit")
  /\ LET d == buf[b].duration
     IN permit' = [join   |-> d > 0,
                   assoc  |-> d # 0,
                   beacon |-> d # 0,
                   alarms |-> (permit.alarms - (IF permit.join THEN 1 ELSE 0)) + (IF d > 0 THEN 1 ELSE 0),
                   last   |-> d]
  /\ buf' = Put(b, J("started"))
  /\ UNCHANGED <<env, client, wait, pend, scanning, edb, tables, joined, wild>>

(* zb_nlme_permit_joining_confirm tells the application once more that the  *)
(* device has started; the application frees the buffer.                    *)
NlmePermitJoiningConfirm(b) ==
  /\ Run /\ In(b, "started")
  /\ buf' = Put(b, Free)
  /\ UNCHANGED <<env, client, wait, pend, scanning, edb, permit, tables, joined, wild>>

(* nwk_permit_timeout: the beacon payload is not updated. *)
PermitTimeout ==
  /\ Run /\ permit.alarms > 0
  /\ permit' = [permit EXCEPT !.join = FALSE, !.assoc = FALSE, !.alarms = @ - 1]
  /\ UNCHANGED <<env, client, buf, wait, pend, scanning, edb, tables, joined, wild>>

-----------------------------------------------------------------------------
(* Energy scans and the choice of the channel.  The request, the discovery  *)
(* and the address lookup share one union: reading one after the other was  *)
(* written gives any value.                                                 *)

ScanCtx(count, dst, t) == [k |-> "scan", count |-> count, dst |-> dst, tsn |-> t]
AddrCtx(dst, b) == [k |-> "addr", dst |-> dst, param |-> b]
ZeroCtx == [k |-> "zero"]
CountRead == CASE ctx.k = "scan" -> {ctx.count} [] ctx.k = "zero" -> {0} [] OTHER -> 0 .. Wrap - 1
TsnRead == IF ctx.k = "scan" THEN ctx.tsn ELSE 0
EdScanJob == J("edscan")

(* zb_start_ed_scan *)
StartEdScan(c) == [ctx EXCEPT !.count = (c - 1 + Wrap) % Wrap]
(* When the union held an address lookup, what is left of it is overwritten in place. *)
StartEdScanIn(c) == IF ctx.k = "scan" THEN StartEdScan(c) ELSE ScanCtx((c - 1 + Wrap) % Wrap, "any", 0)

(* zb_zdo_mgmt_nwk_update_handler *)
ReceiveUpdateScan(count, t, src) ==
  /\ Stim("update") /\ FreeBufs # {}
  /\ IF count \in 1 .. 5
     THEN /\ ctx' = ScanCtx(count - 1, src, t)
          /\ flg' = [flg EXCEPT !.zdoScan = TRUE]
          /\ buf' = Put(NewBuf, EdScanJob)
     ELSE /\ buf' = Put(NewBuf, [do |-> "notify", tsn |-> t, dst |-> src, st |-> IF count = 0 THEN "ok" ELSE "inv_requesttype"])
          /\ UNCHANGED <<ctx, flg>>
  /\ UNCHANGED <<env, client, wait, pend, tm, edb, permit, tables, joined, wild>>
ReceiveUpdateOther(what, t, src) ==
  /\ Stim("update_other") /\ FreeBufs # {}
  /\ tm' = IF what = "channel" THEN [tm EXCEPT !.channel = @ + 1] ELSE tm
  /\ buf' = Put(NewBuf, IF what = "bad_duration" THEN [do |-> "notify", tsn |-> t, dst |-> src, st |-> "invalid_request"] ELSE Lost)
  /\ UNCHANGED <<env, client, wait, pend, ctx, flg, edb, permit, tables, joined, wild>>

(* zb_nlme_ed_scan_confirm: whoever set its flag gets the result. *)
NotifyJob(st) == [do |-> "notify", tsn |-> TsnRead, dst |-> IF ctx.k = "scan" THEN ctx.dst ELSE "any", st |-> st]
EdScanConfirm(b, st) ==
  /\ Run /\ In(b, "edscan")
  /\ buf' = Put(b, IF flg.zdoScan THEN NotifyJob(st) ELSE IF flg.mgrScan THEN J("scanned") ELSE Lost)
  /\ UNCHANGED <<env, client, wait, pend, scanning, edb, permit, tables, joined, wild>>

(* zb_zdo_nwk_upd_notify.  Clearing the flag for an acknowledged answer     *)
(* clears the flag of the interference check as well: the mask is written   *)
(* without parentheses.                                                     *)
NwkUpdNotify(b, c) ==
  /\ Run /\ In(b, "notify") /\ c \in CountRead
  /\ LET more == buf[b].st = "ok" /\ c # 0
     IN /\ flg' = [flg EXCEPT !.zdoScan = more, !.sendAck = FALSE, !.check = IF flg.sendAck THEN FALSE ELSE @]
        /\ wait' = [wait EXCEPT !["ed_scan"] = IF more THEN @ + 1 ELSE @]
  /\ IF flg.sendAck THEN SendReq(b, Q("notify", "finish", 1, FALSE))
     ELSE buf' = Put(b, TxResp(buf[b].tsn)) /\ UNCHANGED client
  /\ UNCHANGED <<env, pend, ctx, tm, edb, permit, tables, joined, wild>>

(* zb_tx_fail_inc, zb_zdo_check_fails: too many transmissions have failed. *)
TxFails ==
  /\ Stim("fails") /\ ~flg.check /\ Ffd
  /\ flg' = [flg EXCEPT !.check = TRUE, !.mgrScan = TRUE, !.failing = TRUE]
  /\ tm' = [tm EXCEPT !.check = @ + 1]
  /\ ctx' = ScanCtx(1, "manager", 0)
  /\ Waits("ed_scan")
  /\ UNCHANGED <<env, client, buf, pend, edb, permit, tables, joined, wild>>

(* zb_zdo_channel_check_scan_result: a busy channel is reported.  The scan  *)
(* result is read from the MAC's buffer, which may hold something else.     *)
ChannelCheckScanResult(b, busy) ==
  /\ Run /\ In(b, "scanned")
  /\ flg' = [flg EXCEPT !.mgrScan = FALSE, !.zdoScan = IF busy THEN TRUE ELSE @, !.sendAck = IF busy THEN TRUE ELSE @]
  /\ ctx' = IF busy THEN ScanCtx(0, "manager", 0) ELSE ctx
  /\ buf' = Put(b, IF busy THEN [do |-> "notify", tsn |-> 0, dst |-> "manager", st |-> "ok"] ELSE Free)
  /\ UNCHANGED <<env, client, wait, pend, tm, edb, permit, tables, joined, wild>>

(* zdo_change_channel, the network manager's side: the channel's number is  *)
(* sent where a mask is expected.                                           *)
ReceiveNotify(t, busy) ==
  /\ Stim("notify") /\ FreeBufs # {}
  /\ IF FindCb(t) # -1
     THEN AfResp(NewBuf, t, 0, "ok", "none", Free) /\ UNCHANGED <<tsn, reqs, ssd, owed, flg, tm, wild>>
     ELSE IF ~flg.changed /\ busy
     THEN /\ SendReq(NewBuf, NwkUpdateChannelReq("null"))
          /\ tm' = [tm EXCEPT !.channel = @ + 1, !.long = TRUE]
          /\ wild' = tm.long
          /\ flg' = [flg EXCEPT !.changed = TRUE]
     ELSE UNCHANGED <<client, buf, flg, tm, wild>>
  /\ UNCHANGED <<env, wait, pend, ctx, edb, permit, tables, joined>>

(* zb_zdo_new_channel_cb, zb_zdo_channel_check_timer_cb, and at the end of  *)
(* the long timer zb_zdo_channel_change_timer_cb, whose mask clears all     *)
(* three flags.                                                             *)
NewChannelCb ==
  /\ Run /\ tm.channel > 0
  /\ tm' = [tm EXCEPT !.channel = @ - 1] /\ flg' = [flg EXCEPT !.failing = FALSE]
  /\ UNCHANGED <<env, client, buf, wait, pend, ctx, edb, permit, tables, joined, wild>>
ChannelCheckTimerCb ==
  /\ Run /\ tm.check > 0
  /\ tm' = [tm EXCEPT !.check = @ - 1] /\ flg' = [flg EXCEPT !.check = FALSE]
  /\ UNCHANGED <<env, client, buf, wait, pend, ctx, edb, permit, tables, joined, wild>>
LongTimerCb ==
  /\ Run /\ tm.long
  /\ tm' = [tm EXCEPT !.long = FALSE] /\ flg' = [flg EXCEPT !.check = FALSE, !.sendAck = FALSE, !.changed = FALSE]
  /\ UNCHANGED <<env, client, buf, wait, pend, ctx, edb, permit, tables, joined, wild>>

-----------------------------------------------------------------------------
(* End device bind: this device matches the requests of two others and      *)
(* binds or unbinds them, first asking one of them to unbind to find out.   *)

NoEdb == [p1 |-> Undef, p2 |-> Undef, list |-> << <<>>, <<>> >>, num |-> <<0, 0>>, cur |-> 1,
          alarm |-> Undef, asked |-> {}, done |-> FALSE]
EdbEnded(e) == [e EXCEPT !.p1 = Undef, !.p2 = Undef]

(* zb_zdo_end_device_bind_handler.  asked and done are history. *)
EdbMatched(q1, q2) == <<CheckClusterList(q1.out, q2.in), CheckClusterList(q1.in, q2.out)>>
EdbFirst(b, q, t) ==
  /\ edb' = [edb EXCEPT !.p1 = b, !.alarm = b]
  /\ buf' = Put(b, [do |-> "edbind", q |-> q, tsn |-> t])
  /\ UNCHANGED <<wait, wild>>
EdbSecond(b, q, t) ==
  LET q1 == buf[edb.p1].q
      m  == IF q1.profile = q.profile THEN EdbMatched(q1, q) ELSE << <<>>, <<>> >>
      ok == m # << <<>>, <<>> >>
      e  == [edb EXCEPT !.alarm = Undef, !.list = m, !.num = <<Len(m[1]), Len(m[2])>>, !.asked = {}, !.done = FALSE]
  IN /\ edb' = IF ok THEN [e EXCEPT !.p2 = b]
               ELSE EdbEnded(IF q1.profile = q.profile THEN e ELSE [edb EXCEPT !.alarm = Undef])
     /\ buf' = [buf EXCEPT ![b] = TxResp(t), ![edb.p1] = TxResp(buf[edb.p1].tsn)]
     /\ wait' = [wait EXCEPT !["check_bind"] = IF ok THEN @ + 1 ELSE @]
     /\ wild' = ~(ClustersFit(m[1]) /\ ClustersFit(m[2]))
ReceiveEdBind(q, t) ==
  LET b == NewBuf
  IN /\ Stim("edbind") /\ FreeBufs # {}
     /\ IF q.ep = 0 \/ (edb.p1 # Undef /\ edb.p2 # Undef) THEN buf' = Put(b, TxResp(t)) /\ UNCHANGED <<edb, wait, wild>>
        ELSE IF edb.p1 = Undef THEN EdbFirst(b, q, t)
        ELSE EdbSecond(b, q, t)
     /\ UNCHANGED <<env, client, pend, scanning, permit, tables, joined>>

(* zb_zdo_end_device_bind_timer *)
EndDeviceBindTimer ==
  /\ Run /\ edb.alarm # Undef
  /\ edb' = [EdbEnded(edb) EXCEPT !.alarm = Undef]
  /\ buf' = Put(edb.alarm, TxResp(buf[edb.alarm].tsn))
  /\ UNCHANGED <<env, client, wait, pend, scanning, permit, tables, joined, wild>>

(* send_bind_unbind_with_check: the matched clusters of the current device  *)
(* from the last to the first, then those of the other device, then the     *)
(* end.  A change of the device goes once more through the scheduler.       *)
MutSendWithCheck(b, bind, func) ==
  LET c == edb.cur
  IN IF edb.num[c] > 0
     THEN /\ edb' = [edb EXCEPT !.num[c] = @ - 1, !.asked = @ \cup {[dev |-> c, i |-> edb.num[c], bind |-> bind]}]
          /\ SendReq(b, BindUnbindReq(bind, func))
     ELSE UNCHANGED client /\ edb' = [EdbEnded(edb) EXCEPT !.cur = 3, !.done = TRUE] /\ buf' = Put(b, Free)
SendBindUnbindWithCheck(b, bind, func) ==
  LET c == edb.cur
  IN IF edb.num[c] > 0
     THEN /\ edb' = [edb EXCEPT !.num[c] = @ - 1, !.asked = @ \cup {[dev |-> c, i |-> edb.num[c], bind |-> bind]}]
          /\ SendReq(b, BindUnbindReq(bind, func))
     ELSE /\ UNCHANGED client
          /\ IF c = 1 THEN edb' = [edb EXCEPT !.cur = 2] /\ buf' = Put(b, CallOf([func |-> func, req |-> 0], 0, "ok", "none"))
             ELSE edb' = [EdbEnded(edb) EXCEPT !.cur = 3, !.done = TRUE] /\ buf' = Put(b, Free)

(* zb_zdo_bind_unbind_check_cb, zb_zdo_end_device_bind_cb, _unbind_cb *)
EdbCallback(b) ==
  /\ Run /\ In(b, "call") /\ buf[b].func \in {"check", "ebind", "eunbind"}
  /\ LET bind == IF buf[b].func = "check" THEN buf[b].st = "no_entry" ELSE buf[b].func = "ebind"
     IN SendBindUnbindWithCheck(b, bind, IF bind THEN "ebind" ELSE "eunbind")
  /\ UNCHANGED <<env, wait, pend, scanning, permit, tables, joined, wild>>

-----------------------------------------------------------------------------
(* Data sent by binding, and the lookup of the destination's address.      *)

BoundSrc == [addr |-> Own, ep |-> 1, cluster |-> 1]
(* zb_apsde_data_request for a bound destination; the confirm of data that  *)
(* has no destination frees the buffer.                                     *)
DataByBinding(b) ==
  LET dst == SearchDst(bt, BoundSrc)
  IN IF dst = "none" THEN buf' = Put(b, Free) /\ UNCHANGED <<ctx, wait>>
     ELSE IF dst \in resolved \/ dst = Own
     THEN buf' = Put(b, [TxResp(1) EXCEPT !.kind = "data"]) /\ UNCHANGED <<ctx, wait>>
     ELSE buf' = Put(b, J("parked")) /\ ctx' = AddrCtx(dst, b) /\ Waits("get_addr")
AppSendByBinding ==
  /\ Stim("data") /\ FreeBufs # {}
  /\ DataByBinding(NewBuf)
  /\ UNCHANGED <<env, client, pend, flg, tm, edb, permit, tables, joined, wild>>
ResumeData(b) ==
  /\ Run /\ In(b, "data")
  /\ DataByBinding(b)
  /\ UNCHANGED <<env, client, pend, flg, tm, edb, permit, tables, joined, wild>>

(* zb_get_peer_short_addr_cb: the data waiting for the address goes on.  If *)
(* the union has been overwritten, what is called is not a function; if the *)
(* same data was already sent on, its buffer is another's.                  *)
PeerShortAddrCb(b, jump) ==
  /\ Run /\ In(b, "call") /\ buf[b].func = "peer" /\ (jump => ctx.k = "scan")
  /\ resolved' = IF buf[b].st = "ok" THEN resolved \cup {buf[b].x} ELSE resolved
  /\ LET resumes == ctx.k = "addr" /\ buf[ctx.param].do = "parked"
     IN /\ wild' = (jump \/ (ctx.k = "addr" /\ ~resumes))
        /\ buf' = IF resumes THEN [buf EXCEPT ![b] = Free, ![ctx.param] = J("data")] ELSE Put(b, Free)
  /\ UNCHANGED <<env, client, wait, pend, scanning, edb, permit, bt, groups, descs, nbt, joined>>

(* zb_zdo_channel_check_finish_cb, which keeps its buffer, and the          *)
(* application's callbacks, which free theirs.                              *)
FinishCallback(b) ==
  /\ Run /\ In(b, "call") /\ buf[b].func = "finish"
  /\ flg' = [flg EXCEPT !.failing = IF buf[b].st = "ok" THEN FALSE ELSE @]
  /\ buf' = Put(b, Lost)
  /\ UNCHANGED <<env, client, wait, pend, ctx, tm, edb, permit, tables, joined, wild>>
AppCallback(b) ==
  /\ Run /\ In(b, "call") /\ buf[b].func = "app"
  /\ buf' = Put(b, Free)
  /\ UNCHANGED <<env, client, wait, pend, scanning, edb, permit, tables, joined, wild>>

(* zb_zdo_add_group_req, zb_add_simple_descriptor *)
AppAddGroup(g, ep) ==
  /\ Stim("group")
  /\ groups' = AddGroup(groups, g, ep)
  /\ UNCHANGED <<env, client, buf, wait, pend, scanning, edb, permit, bt, descs, nbt, resolved, joined, wild>>

-----------------------------------------------------------------------------
(* A buffer has become free for a handler that waits for one:               *)
(* zb_get_peer_short_addr, zb_zdo_send_check_bind_unbind, zb_start_ed_scan, *)
(* zb_nwk_do_leave_local.                                                   *)
Serve(w) == Run /\ wait[w] > 0 /\ FreeBufs # {} /\ wait' = [wait EXCEPT ![w] = @ - 1]
GetPeerShortAddr ==
  /\ Serve("get_addr")
  /\ SendReq(NewBuf, NwkAddrReq("peer", IF ctx.k = "addr" THEN ctx.dst ELSE "any"))
  /\ UNCHANGED <<env, pend, scanning, edb, permit, tables, joined, wild>>
SendCheckBindUnbind ==
  /\ Serve("check_bind")
  /\ edb' = [edb EXCEPT !.cur = IF edb.num[1] > 0 THEN 1 ELSE 2]
  /\ SendReq(NewBuf, BindUnbindReq(FALSE, "check"))
  /\ UNCHANGED <<env, pend, scanning, permit, tables, joined, wild>>
StartEdScanLater(c) ==
  /\ Serve("ed_scan") /\ c \in CountRead
  /\ ctx' = StartEdScanIn(c) /\ buf' = Put(NewBuf, EdScanJob)
  /\ UNCHANGED <<env, client, pend, flg, tm, edb, permit, tables, joined, wild>>
NwkDoLeaveLocal ==
  /\ Serve("leave_local")
  /\ joined' = FALSE /\ pend' = Left(pend) /\ buf' = Put(NewBuf, LeftJob)
  /\ UNCHANGED <<env, client, scanning, edb, permit, tables, wild>>

(* An answer arrives: zb_zdo_data_indication for a response.  The answers   *)
(* to a server discovery go to the callback of the last discovery.          *)
Answer(o, st) ==
  /\ Run /\ FreeBufs # {}
  /\ owed' = (owed \ {o}) \cup (IF o.left > 1 THEN {[o EXCEPT !.left = @ - 1]} ELSE {})
  /\ IF o.clid = "ssd"
     THEN /\ buf' = Put(NewBuf, IF o.tsn = ssd.tsn THEN CallOf(ssd, o.req, st, "none") ELSE Free)
          /\ UNCHANGED cbs
     ELSE AfResp(NewBuf, o.tsn, o.req, st, o.x, Free)
  /\ UNCHANGED <<env, tsn, reqs, ssd, wait, pend, scanning, edb, permit, tables, joined, wild>>

-----------------------------------------------------------------------------
Init ==
  /\ role \in {"zc", "ze"} /\ mix \in Mixes /\ n = mix.times
  /\ tsn = 0 /\ reqs = 0 /\ cbs = [i \in 0 .. TableSize - 1 |-> NoCb] /\ ssd = [tsn |-> 0, func |-> "none", req |-> 0] /\ owed = {}
  /\ buf = [b \in Bufs |-> Free] /\ wait = [w \in {"get_addr", "check_bind", "ed_scan", "leave_local"} |-> 0]
  /\ pend = [tab |-> [i \in 0 .. PendSize - 1 |-> NoLeave], size |-> 0, after |-> FALSE, rejoin |-> FALSE]
  /\ ctx = ZeroCtx
  /\ flg = [zdoScan |-> FALSE, mgrScan |-> FALSE, check |-> FALSE, sendAck |-> FALSE, changed |-> FALSE, failing |-> FALSE]
  /\ tm = [channel |-> 0, check |-> 0, long |-> FALSE]
  /\ edb = NoEdb /\ permit = [join |-> FALSE, assoc |-> TRUE, beacon |-> TRUE, alarms |-> 0, last |-> -1]
  /\ bt = EmptyTable /\ groups = <<>> /\ nbt = InitNbt /\ resolved = {}
  /\ descs = [(IF role = "zc" THEN DefaultFfdDescriptors(role) ELSE DefaultEdDescriptors) EXCEPT
                 !.list = FoldLeft(AddSimpleDescriptor, @, MyDescs)]
  /\ joined = TRUE /\ wild = FALSE

Requested ==
  \/ \E q \in PlainReqs : AppRequest(q)
  \/ AppServerDiscovery \/ AppChannelRequest \/ AppSendByBinding
  \/ \E d \in {Own, "child", "nobody"}, r \in BOOLEAN : AppLeaveLocal(d, r)
  \/ \E g \in {1, 2}, ep \in {1, 2} : AppAddGroup(g, ep)
Received ==
  \E t \in PeerTsn :
    \/ \E q \in DiscReqs, g \in Garbage : ReceiveDiscovery(q, t, g)
    \/ \E bind \in BOOLEAN, r \in BindReqs : ReceiveBindUnbind(bind, r, t)
    \/ \E d \in {Own, "child", "nobody"}, r \in BOOLEAN : ReceiveLeave(t, "peer", d, r)
    \/ \E c \in ScanCounts : ReceiveUpdateScan(c, t, "peer")
    \/ \E w \in {"channel", "mask", "bad_duration"} : ReceiveUpdateOther(w, t, "peer")
    \/ \E busy \in BOOLEAN : ReceiveNotify(t, busy)
    \/ \E q \in EdBindReqs : ReceiveEdBind(q, t)
ReceivedOther ==
  \/ \E a \in Annces : ReceiveAnnce(a)
  \/ \E d \in Durations : ReceivePermit(d)
Works ==
  \E b \in Bufs :
    \/ \E st \in {"ok", "no_ack", "error"} : DataConfirm(b, st)
    \/ NlmeLeaveRequest(b) \/ NlmeLeaveConfirm(b) \/ Rejoined(b)
    \/ NlmePermitJoiningRequest(b) \/ NlmePermitJoiningConfirm(b)
    \/ \E st \in {"ok", "error"} : EdScanConfirm(b, st)
    \/ \E c \in 0 .. Wrap - 1 : NwkUpdNotify(b, c)
    \/ \E busy \in BOOLEAN : ChannelCheckScanResult(b, busy)
    \/ EdbCallback(b) \/ ResumeData(b) \/ FinishCallback(b) \/ AppCallback(b)
    \/ \E jump \in BOOLEAN : PeerShortAddrCb(b, jump)
Served ==
  \/ GetPeerShortAddr \/ SendCheckBindUnbind \/ NwkDoLeaveLocal
  \/ \E c \in 0 .. Wrap - 1 : StartEdScanLater(c)
  \/ \E o \in owed, st \in {"ok", "no_entry"} : Answer(o, st)
Timers ==
  PermitTimeout \/ NewChannelCb \/ ChannelCheckTimerCb \/ LongTimerCb \/ EndDeviceBindTimer \/ TxFails

Next == Requested \/ Received \/ ReceivedOther \/ Works \/ Served \/ Timers
Spec == Init /\ [][Next]_vars

-----------------------------------------------------------------------------
(* Types: what the variables hold; the value of a job is in its buffer.    *)
TypeOK ==
  /\ role \in {"zc", "zr", "ze"} /\ mix \in Mixes /\ \A k \in DOMAIN mix.times : n[k] \in 0 .. mix.times[k]
  /\ tsn \in 0 .. TsnMod - 1 /\ reqs \in Nat
  /\ \A i \in DOMAIN cbs : cbs[i].tsn \in 0 .. TsnMod - 1 /\ cbs[i].left \in 0 .. Wrap /\ cbs[i].req \in 0 .. reqs
  /\ \A b \in Bufs : buf[b].do \in {"free", "lost", "tx", "call", "leave", "left", "rejoin", "permit", "started",
                                    "edscan", "notify", "scanned", "edbind", "parked", "data"}
  /\ \A w \in DOMAIN wait : wait[w] \in Nat
  /\ pend.size \in 0 .. PendSize /\ ctx.k \in {"zero", "scan", "addr"}
  /\ tm.channel \in Nat /\ tm.check \in Nat /\ permit.alarms \in Nat
  /\ edb.p1 \in Bufs \cup {Undef} /\ edb.p2 \in Bufs \cup {Undef} /\ edb.cur \in 1 .. 3
  /\ joined \in BOOLEAN /\ wild \in BOOLEAN

(* A callback called because an answer was received is the one registered   *)
(* with the request that this is an answer to, whatever else waits in the   *)
(* table: zdo_af_resp, register_zdo_cb, and the callback kept apart for     *)
(* server discovery.                                                        *)
RightCallback ==
  \A b \in Bufs : buf[b].do = "call" /\ buf[b].about # 0 => buf[b].req = buf[b].about

(* After any sequence of bind and unbind requests every destination names   *)
(* an existing source, every source has a destination, and no source is     *)
(* there twice: zb_apsme_bind_request, zb_apsme_unbind_request.             *)
BindSound ==
  /\ bt.srcN <= SrcSize /\ bt.dstN <= DstSize
  /\ {bt.dst[d].src : d \in 0 .. bt.dstN - 1} = 0 .. bt.srcN - 1
  /\ \A i, j \in 0 .. bt.srcN - 1 : bt.src[i] = bt.src[j] => i = j

(* When an end device bind has come to its end, the two devices were asked  *)
(* either to bind or to unbind, and for exactly the matched clusters of     *)
(* both, whichever answers and timeouts came on the way:                    *)
(* send_bind_unbind_with_check.                                             *)
EdBindComplete ==
  edb.done => \E bind \in BOOLEAN :
                edb.asked = UNION {{[dev |-> d, i |-> i, bind |-> bind] : i \in 1 .. Len(edb.list[d])} : d \in {1, 2}}

(* One timeout at most is pending for permit joining, exactly while the     *)
(* handle says so, and permission given for a limited time always has one:  *)
(* zb_nlme_permit_joining_request, nwk_permit_timeout.                      *)
PermitTimed ==
  /\ permit.alarms = IF permit.join THEN 1 ELSE 0
  /\ permit.assoc /\ permit.last # -1 => permit.join

(* A match answer lists endpoints that match the request, in increasing     *)
(* order, also when the byte behind the list has any value:                 *)
(* zdo_match_desc_res, add_ep_sorted.                                       *)
MatchSound ==
  \A b \in Bufs : buf[b].do = "tx" /\ "q" \in DOMAIN buf[b] =>
    LET q == buf[b].q
        eps == buf[b].ans.list
    IN q.clid = "match_desc" =>
         /\ \A i \in 1 .. Len(eps) : \E d \in ToSet(descs.list) : d.ep = eps[i] /\ DescMatches(d, q)
         /\ \A i, j \in 1 .. Len(eps) : i < j => eps[i] < eps[j]

(* What the tables and lists of the ZDO keep (aps_bind.c, zdo_disc_srv.c): *)
(* the binding table is closed, and answers list what the request asked.   *)
TablesSound == TypeOK /\ BindSound /\ MatchSound
=============================================================================
