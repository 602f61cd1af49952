----------------------------- MODULE Broadcast -----------------------------
(***************************************************************************)
(* Broadcasts of the NWK layer of one device (nwk/nwk_main.c): the table   *)
(* of broadcast transactions and its expiry, the table of retransmissions  *)
(* with passive acknowledgements and the unicast copies for children that  *)
(* sleep, the second buffer a router needs to hand a frame up and forward  *)
(* it, and the confirms.  It runs the PAN id conflict resolution, which    *)
(* lives on broadcasts, and the requests for attributes.                   *)
(*                                                                         *)
(* The callback queue is kept in order.  Buffers of the receiving and of   *)
(* the sending half are taken, waited for and given back as in BufPool.    *)
(* The MAC, the neighbors and the application are the environment; what    *)
(* they may start is bounded by the mix chosen at the beginning.  Time     *)
(* passes from one timer to the next while the queue is empty.             *)
(***************************************************************************)
EXTENDS PanIdConflict, Bags, SequencesExt

CONSTANTS
  NIn, NOut,       \* buffers of the receiving and the sending half
  BtrSize,         \* ZB_NWK_BTR_TABLE_SIZE
  BrrSize,         \* ZB_NWK_BRR_TABLE_SIZE
  WaitSize,        \* ZB_NWK_WAIT_ALLOC_TABLE_SIZE
  MaxRetries,      \* ZB_NWK_MAX_BROADCAST_RETRIES
  Jitter, RetryInterval, Second, PanDelay, ReportDelay,     \* timeouts, in the same unit
  BtrSeconds,      \* ZB_NWK_BROADCAST_DELIVERY_TIME
  MaxQueue,        \* bound: stimuli come while the queue is shorter
  Mixes            \* bound: roles, neighbors, foreign frames and numbers of stimuli

(* The header of a frame, and what the model notes of it.                   *)
FrameFields == {"id", "src", "seq", "dst", "kind", "radius", "pl", "handle", "mdst", "from", "st"}
Kinds == {"data", "status", "report", "update"}

ASSUME BroadcastAssumption ==
  {NIn, NOut, BtrSize, BrrSize, WaitSize, MaxRetries, Jitter, RetryInterval, Second, PanDelay, ReportDelay, BtrSeconds, MaxQueue}
    \subseteq Nat \ {0}

(* The frames of others: numbered below zero, a number for every source and *)
(* sequence number.                                                        *)
ASSUME MixAssumption ==
  \A m \in Mixes :
    /\ \A f \in m.frames : DOMAIN f = FrameFields /\ f.kind \in Kinds /\ f.id \in Int /\ f.id < 0
    /\ \A f, g \in m.frames : f.id = g.id => f.src = g.src /\ f.seq = g.seq /\ f.dst = g.dst

VARIABLES
  mix, n,          \* the mix of this behaviour, and the stimuli left
  work,            \* contents of the buffers, callback queue, requests for buffers that wait
  btt, btt_cnt,    \* broadcast transaction table
  brrt, brrt_cnt,  \* broadcast retransmission table
  wait_alloc,      \* received frames waiting for a second buffer
  timer,           \* alarms
  mac,             \* buffers with the MAC, in the order they came
  halted,          \* an assertion has failed
  log              \* ghost: what happened to each broadcast

Count(x, bag) == IF x \in DOMAIN bag THEN bag[x] ELSE 0
Updated(g, a, v) == [x \in DOMAIN g \cup {a} |-> IF x = a THEN v ELSE g[x]]

tables == <<btt, btt_cnt, brrt, brrt_cnt, wait_alloc>>
base == <<attr, pc>>
vars == <<attr, pc, mix, n, work, btt, btt_cnt, brrt, brrt_cnt, wait_alloc, timer, mac, halted, log>>

All == 65535
RxOn == 65533
Routers == 65532
LowPower == 65531
IsBroadcast(a) == a >= 65520
Me == attr["ShortAddress"]
Router == mix.role \in {"zc", "zr"}
Nbt == mix.nbt

-----------------------------------------------------------------------------
(* Buffers and the callback queue.                                         *)

Bufs == 1 .. NIn + NOut
Dir(b) == IF b <= NIn THEN "in" ELSE "out"
Of(d) == {b \in Bufs : Dir(b) = d}
NoBuf == [kind |-> "free"]
Fresh == [kind |-> "fresh"]
Lost == [kind |-> "lost"]
FreeOf(w, d) == {b \in Of(d) : w.buf[b] = NoBuf}

Called(w, fn, p) == [w EXCEPT !.cb = Append(@, [fn |-> fn, p |-> p])]
Freed(w, b) ==
  LET q == w.wait[Dir(b)]
  IN IF q = <<>> THEN [w EXCEPT !.buf[b] = NoBuf]
     ELSE Called([w EXCEPT !.buf[b] = Fresh, !.wait[Dir(b)] = Tail(q)], Head(q), b)
Asked(w, d, fn) ==
  IF FreeOf(w, d) = {} THEN [w EXCEPT !.wait[d] = Append(@, fn)]
  ELSE LET b == Min(FreeOf(w, d)) IN Called([w EXCEPT !.buf[b] = Fresh], fn, b)
Filled(w, b, c) == [w EXCEPT !.buf[b] = c]

(* The function at the head of the queue runs.                             *)
Runs(fn) == ~halted /\ work.cb # <<>> /\ Head(work.cb).fn = fn
P == Head(work.cb).p
W == [work EXCEPT !.cb = Tail(@)]
F == work.buf[P]
Stim(k) == ~halted /\ Len(work.cb) < MaxQueue /\ n[k] > 0 /\ n' = [n EXCEPT ![k] = @ - 1]
Stay == UNCHANGED <<mix, halted>>

-----------------------------------------------------------------------------
(* Frames.  id tells broadcasts apart, ours from 1; the code has only src  *)
(* and seq.                                                                *)

Frame(id, src, seq, dst, kind, radius, pl) ==
  [id |-> id, src |-> src, seq |-> seq, dst |-> dst, kind |-> kind, radius |-> radius, pl |-> pl,
   handle |-> "internal", mdst |-> dst, from |-> src, st |-> "ok"]
NextSeq(at) == [at EXCEPT !["SequenceNumber"] = (@ + 1) % Byte]

(* nwk_alloc_and_fill_hdr and zb_nwk_fill_out_command.                     *)
Header(dst, kind, radius, pl) == Frame(log.own + 1, Me, attr["SequenceNumber"], dst, kind, radius, pl)
OwnId(lg) == [lg EXCEPT !.own = @ + 1]

(* nwk_calc_destination; a unicast destination is taken for a neighbor.    *)
CalcDestination(f) == IF ~Router THEN mix.parent ELSE IF IsBroadcast(f.dst) THEN All ELSE f.dst

-----------------------------------------------------------------------------
(* The tables.                                                             *)

FreeBtr == [used |-> FALSE, src |-> 0, seq |-> 0, exp |-> 0]
FreeBrr == [used |-> FALSE, buf |-> 0, retries |-> 0, src |-> 0, seq |-> 0, dst |-> 0, it |-> 0, acks |-> {}, due |-> 0]
Used(t) == {i \in DOMAIN t : t[i].used}
Holes(t) == DOMAIN t \ Used(t)
Find(t, src, seq) == {i \in Used(t) : t[i].src = src /\ t[i].seq = seq}

BtrEnt(f) == [used |-> TRUE, src |-> f.src, seq |-> f.seq, exp |-> BtrSeconds]
BttAdded(f) == [btt EXCEPT ![Min(Holes(btt))] = BtrEnt(f)]
StartExpiry(t, cnt) == IF cnt = 1 THEN [t EXCEPT !.exp = Second] ELSE t

AddToBtt(f) == btt' = BttAdded(f) /\ btt_cnt' = btt_cnt + 1

(* zb_nwk_neighbor_next_ze_children_i; 0 stands for ~0.                    *)
ZeChild(dst, i) == Nbt[i].rel = "child" /\ Nbt[i].type = "ed" /\ (dst = All \/ (dst = RxOn /\ Nbt[i].rxon))
NextZeChild(dst, i) ==
  LET c == {j \in i .. Len(Nbt) : ZeChild(dst, j)} IN IF c = {} THEN 0 ELSE Min(c)
PassiveAckDevNum == Cardinality({i \in DOMAIN Nbt : Nbt[i].type \in {"zr", "zc"}})

(* Enough passive acknowledgements: from every router if the broadcast is  *)
(* ours, from all but one otherwise.  Children served by unicast count.    *)
AllAcked(e) ==
  LET k == Cardinality(e.acks)
  IN (k = PassiveAckDevNum /\ e.src = Me) \/ (k = PassiveAckDevNum - 1 /\ e.src # Me)
-----------------------------------------------------------------------------
(* zb_nwk_forward.                                                         *)

(* A unicast frame, and any frame of an end device, goes to the MAC.       *)
ForwardDirect ==
  /\ Runs("forward") /\ (~IsBroadcast(F.dst) \/ ~Router)
  /\ \/ /\ ~IsBroadcast(F.dst) \/ Find(btt, F.src, F.seq) # {}
        /\ UNCHANGED <<btt, btt_cnt, timer>>
     \/ /\ IsBroadcast(F.dst) /\ Find(btt, F.src, F.seq) = {} /\ Holes(btt) # {}
        /\ AddToBtt(F) /\ timer' = StartExpiry(timer, btt_cnt + 1)
  /\ work' = Called(Filled(W, P, [F EXCEPT !.mdst = CalcDestination(F)]), "dataReq", P)
  /\ Stay /\ UNCHANGED <<base, n, brrt, brrt_cnt, wait_alloc, mac, log>>

(* No place in the transaction table: the frame is freed, and nobody told. *)
ForwardBttFull ==
  /\ Runs("forward") /\ IsBroadcast(F.dst) /\ Find(btt, F.src, F.seq) = {} /\ Holes(btt) = {}
  /\ work' = Freed(W, P) /\ log' = [log EXCEPT !.dropped = @ \cup {F.id}]
  /\ Stay /\ UNCHANGED <<base, n, tables, timer, mac>>

BrrEnt(b, f) ==
  [used |-> TRUE, buf |-> b, retries |-> 0, src |-> f.src, seq |-> f.seq, dst |-> f.dst,
   it |-> NextZeChild(f.dst, 1), acks |-> {}, due |-> 0]

ForwardBroadcast ==
  /\ Runs("forward") /\ IsBroadcast(F.dst) /\ Router
  /\ \/ Find(btt, F.src, F.seq) # {} /\ UNCHANGED <<btt, btt_cnt>>
     \/ Find(btt, F.src, F.seq) = {} /\ Holes(btt) # {} /\ AddToBtt(F)
  /\ LET t == IF btt' = btt THEN timer ELSE StartExpiry(timer, btt_cnt')
     IN IF brrt_cnt < BrrSize
        THEN /\ brrt' = [brrt EXCEPT ![Min(Holes(brrt))] = BrrEnt(P, F)] /\ brrt_cnt' = brrt_cnt + 1
             /\ timer' = [t EXCEPT !.br = -1]
             /\ work' = Asked(Filled(W, P, [F EXCEPT !.mdst = All]), "out", "brTrans")
             /\ log' = [log EXCEPT !.started = @ \cup {F.id}]
        ELSE /\ work' = Freed(W, P) /\ log' = [log EXCEPT !.dropped = @ \cup {F.id}]
             /\ timer' = t /\ UNCHANGED <<brrt, brrt_cnt>>
  /\ Stay /\ UNCHANGED <<base, n, wait_alloc, mac>>
-----------------------------------------------------------------------------
(* nwk_broadcast_transmition.                                              *)

NewOnes == {i \in Used(brrt) : brrt[i].retries = 0}
WithChildren == {i \in Used(brrt) : brrt[i].it # 0}
ForOriginator(i) == Nbt[brrt[i].it].addr = brrt[i].src
ToChildren == {i \in WithChildren : ~ForOriginator(i)}
DueOnes == {i \in Used(brrt) : brrt[i].due = 0}

(* The entry to serve, 0 for none, and whether it is served by unicast:    *)
(* new ones first, then children, then repetitions.                        *)
Chosen ==
  IF NewOnes # {} THEN [i |-> Min(NewOnes), child |-> FALSE]
  ELSE IF ToChildren # {} THEN [i |-> Min(ToChildren), child |-> TRUE]
  ELSE IF DueOnes # {} THEN [i |-> Min(DueOnes), child |-> FALSE]
  ELSE [i |-> 0, child |-> FALSE]

(* Entries passed over on the way, because their child is the originator,  *)
(* move on to the next child.                                              *)
PassedOver == IF NewOnes # {} THEN {} ELSE {i \in WithChildren : ForOriginator(i) /\ (ToChildren = {} \/ i < Min(ToChildren))}
Skipped ==
  [i \in DOMAIN brrt |-> IF i \in PassedOver THEN [brrt[i] EXCEPT !.it = NextZeChild(brrt[i].dst, @ + 1)] ELSE brrt[i]]

Served(e, child) ==
  IF child THEN [e EXCEPT !.acks = @ \cup {e.it}, !.it = NextZeChild(e.dst, e.it + 1)]
  ELSE [e EXCEPT !.due = RetryInterval, !.retries = @ + 1]

(* Mutation: one transmission too many. *)
MutLastOne(e) == e.it = 0 /\ (e.retries > MaxRetries \/ AllAcked(e))
LastOne(e) == e.it = 0 /\ (e.retries >= MaxRetries \/ AllAcked(e))

BrNeedsBuffer ==
  /\ Runs("brTrans") /\ P = 0 /\ Chosen.i # 0
  /\ brrt' = Skipped /\ work' = Asked(W, "out", "brTrans")
  /\ Stay /\ UNCHANGED <<base, n, btt, btt_cnt, brrt_cnt, wait_alloc, timer, mac, log>>

(* Mutation: the function is not scheduled again. *)
MutBrAgain(w, cnt) == w
BrAgain(w, cnt) == IF cnt > 0 THEN Called(w, "brTrans", 0) ELSE w

(* A copy goes to the MAC, and the frame itself the last time: only that   *)
(* transmission is confirmed to the upper layer.                           *)
BrTransmit ==
  /\ Runs("brTrans") /\ P # 0 /\ Chosen.i # 0
  /\ LET i == Chosen.i
         child == Chosen.child
         e == Served(Skipped[i], child)
         mdst == IF child THEN Nbt[brrt[i].it].addr ELSE All
         cnt == IF LastOne(e) THEN brrt_cnt - 1 ELSE brrt_cnt
         last == Called(Filled(Freed(W, P), e.buf, [work.buf[e.buf] EXCEPT !.mdst = mdst]), "dataReq", e.buf)
         copy == Called(Filled(W, P, [work.buf[e.buf] EXCEPT !.mdst = mdst, !.handle = "internal"]), "dataReq", P)
     IN /\ brrt' = [Skipped EXCEPT ![i] = IF LastOne(e) THEN FreeBrr ELSE e]
        /\ brrt_cnt' = cnt
        /\ work' = BrAgain(IF LastOne(e) THEN last ELSE copy, cnt)
  /\ Stay /\ UNCHANGED <<base, n, btt, btt_cnt, wait_alloc, timer, mac, log>>

(* Nothing to send now: the next run is at the next repetition, and not    *)
(* later than the jitter.                                                  *)
NextExecution == Min({Jitter} \cup {brrt[i].due : i \in {j \in Used(brrt) : brrt[j].retries < MaxRetries}})
BrNothing ==
  /\ Runs("brTrans") /\ Chosen.i = 0
  /\ brrt' = Skipped
  /\ work' = IF P = 0 THEN W ELSE Freed(W, P)
  /\ timer' = IF brrt_cnt > 0 THEN [timer EXCEPT !.br = NextExecution] ELSE timer
  /\ Stay /\ UNCHANGED <<base, n, btt, btt_cnt, brrt_cnt, wait_alloc, mac, log>>
-----------------------------------------------------------------------------
(* The MAC.                                                                *)

Remembered(f) == \E i \in Find(btt, f.src, f.seq) : btt[i].exp = BtrSeconds
DataRequest ==
  /\ Runs("dataReq")
  /\ mac' = Append(mac, P) /\ work' = W
  /\ log' = [log EXCEPT !.tx = @ (+) SetToBag({<<F.id, F.mdst>>}),
                        !.life = IF F.id \in DOMAIN @ THEN @ ELSE Updated(@, F.id, BtrSeconds * Second),
                        !.late = IF F.id \in DOMAIN log.life \/ Remembered(F) THEN @ ELSE @ \cup {F.id},
                        !.sent = @ \cup {[F EXCEPT !.mdst = F.dst, !.handle = "internal"]}]
  /\ Stay /\ UNCHANGED <<base, n, tables, timer>>

(* Frames for a sleeping child wait until it asks; the others are sent in  *)
(* their order, and soon: no timer ends meanwhile.                         *)
Direct(b) == ~\E k \in DOMAIN Nbt : Nbt[k].addr = work.buf[b].mdst /\ Nbt[k].rel = "child" /\ ~Nbt[k].rxon
MacDone(b) ==
  /\ ~halted /\ b \in Range(mac) /\ (Direct(b) => b = Head(SelectSeq(mac, Direct)))
  /\ \E k \in DOMAIN mac : mac[k] = b /\ mac' = RemoveAt(mac, k)
  /\ \/ work' = Called(work, "dataConf", b) /\ n' = n
     \/ Stim("fail") /\ work' = Called(Filled(work, b, [work.buf[b] EXCEPT !.st = "fail"]), "dataConf", b)
  /\ Stay /\ UNCHANGED <<base, tables, timer, log>>

(* zb_mcps_data_confirm, and zb_nwk_call_br_confirm, which calls it when   *)
(* passive acknowledgements have made further transmissions unnecessary.   *)
(* A failure is reported to the network layer's user with the frame's own  *)
(* buffer, or with a second one if the frame goes back to the APS layer.   *)
Confirmed(w, b, f) ==
  IF f.handle = "internal"
  THEN IF f.st = "ok" THEN Freed(w, b) ELSE Called(w, "statusInd", b)
  ELSE LET up == Called(w, "nldeConf", b) IN IF f.st = "ok" THEN up ELSE Asked(up, "in", "callStatus")
DataConfirm ==
  /\ Runs("dataConf") /\ work' = Confirmed(W, P, F)
  /\ Stay /\ UNCHANGED <<base, n, tables, timer, mac, log>>
CallBrConfirm ==
  /\ Runs("brConf") /\ work' = Confirmed(W, P, F)
  /\ Stay /\ UNCHANGED <<base, n, tables, timer, mac, log>>

CallStatusIndication ==
  /\ Runs("callStatus") /\ work' = Called(W, "statusInd", P)
  /\ Stay /\ UNCHANGED <<base, n, tables, timer, mac, log>>

(* The upper layers use the buffer up.                                     *)
NldeConfirm ==
  /\ Runs("nldeConf") /\ work' = Freed(W, P)
  /\ log' = [log EXCEPT !.conf = @ (+) SetToBag({F.id})]
  /\ Stay /\ UNCHANGED <<base, n, tables, timer, mac>>
NldeIndication ==
  /\ Runs("nldeInd") /\ work' = Freed(W, P)
  /\ log' = IF IsBroadcast(F.dst) THEN [log EXCEPT !.ind = @ (+) SetToBag({F.id})] ELSE log
  /\ Stay /\ UNCHANGED <<base, n, tables, timer, mac>>
StatusIndication ==
  /\ Runs("statusInd") /\ work' = Freed(W, P)
  /\ Stay /\ UNCHANGED <<base, n, tables, timer, mac, log>>
-----------------------------------------------------------------------------
(* Reception.  A neighbor sends a broadcast of its own, or repeats one it  *)
(* has heard, while it spreads: BtrSeconds at most after it was first      *)
(* here.                                                                   *)
Foreign == mix.frames
Repeated == {[f EXCEPT !.radius = @ - 1] : f \in {x \in log.sent : x.src = Me /\ IsBroadcast(x.dst) /\ x.radius > 1}}
Receive(f, k) ==
  /\ Stim("rx") /\ FreeOf(work, "in") # {}
  /\ IF f.id \in DOMAIN log.life THEN log.life[f.id] > 0 ELSE TRUE
  /\ LET b == Min(FreeOf(work, "in"))
     IN work' = Called(Filled(work, b, [f EXCEPT !.from = Nbt[k].addr]), "dataInd", b)
  /\ log' = [log EXCEPT !.life = IF f.id \in DOMAIN @ THEN @ ELSE Updated(@, f.id, BtrSeconds * Second)]
  /\ Stay /\ UNCHANGED <<base, tables, timer, mac>>

(* zb_mcps_data_indication.                                                *)
ForMe(dst) == dst = All \/ (dst = RxOn /\ attr["RxOnWhenIdle"] # 0) \/ dst \in {Routers, LowPower}
DropIndication ==
  /\ Runs("dataInd")
  /\ F.radius = 0 \/ (IsBroadcast(F.dst) /\ ~ForMe(F.dst))
  /\ work' = Freed(W, P)
  /\ Stay /\ UNCHANGED <<base, n, tables, timer, mac, log>>

(* A copy from a neighbor acknowledges our own transmission of it.         *)
AckedEnts(f) == {i \in Find(brrt, f.src, f.seq) : \E k \in DOMAIN Nbt : Nbt[k].addr = f.from}
NbtIndex(a) == CHOOSE k \in DOMAIN Nbt : Nbt[k].addr = a
Marked(f) == LET i == Min(AckedEnts(f)) IN [brrt[i] EXCEPT !.acks = @ \cup {NbtIndex(f.from)}]

(* Mutation: the retransmission goes on although the confirm was called. *)
MutPassiveAck(f, w) ==
  IF AckedEnts(f) = {} THEN [w |-> w, brrt |-> brrt, cnt |-> brrt_cnt]
  ELSE LET e == Marked(f) IN [w |-> IF AllAcked(e) THEN Called(w, "brConf", e.buf) ELSE w,
                              brrt |-> [brrt EXCEPT ![Min(AckedEnts(f))] = e], cnt |-> brrt_cnt]
PassiveAck(f, w) ==
  IF AckedEnts(f) = {} THEN [w |-> w, brrt |-> brrt, cnt |-> brrt_cnt]
  ELSE LET i == Min(AckedEnts(f))
           e == Marked(f)
       IN IF AllAcked(e) THEN [w |-> Called(w, "brConf", e.buf), brrt |-> [brrt EXCEPT ![i] = FreeBrr], cnt |-> brrt_cnt - 1]
          ELSE [w |-> w, brrt |-> [brrt EXCEPT ![i] = e], cnt |-> brrt_cnt]

(* What is done with a frame that is new: handed up, forwarded, or both,   *)
(* for which a second buffer is needed.                                    *)
Indicate(f) == IsBroadcast(f.dst) \/ f.dst = Me
Retransmit(f) == Router /\ f.radius > 1 /\ f.dst # Me /\ (IsBroadcast(f.dst) => f.kind \in {"data", "report", "status", "update"})
Disposed(f, w) ==
  LET g == [f EXCEPT !.radius = @ - 1]
      v == Filled(w, P, g)
  IN IF Indicate(f) /\ Retransmit(f)
     THEN IF Len(wait_alloc) < WaitSize THEN Asked(v, "in", "newBuf") ELSE Called(v, "frameInd", P)
     ELSE IF Retransmit(f) THEN Called(v, "forward", P) ELSE IF Indicate(f) THEN Called(v, "frameInd", P) ELSE Freed(v, P)
Waits(f) == IF Indicate(f) /\ Retransmit(f) /\ Len(wait_alloc) < WaitSize THEN Append(wait_alloc, P) ELSE wait_alloc

NewBroadcast(f) == Find(btt, f.src, f.seq) = {} /\ Holes(btt) # {}

BroadcastIndication ==
  /\ Runs("dataInd") /\ F.radius # 0 /\ IsBroadcast(F.dst) /\ ForMe(F.dst)
  /\ \E r \in {PassiveAck(F, W)} :
       /\ brrt' = r.brrt /\ brrt_cnt' = r.cnt
       /\ log' = IF r.cnt < brrt_cnt THEN [log EXCEPT !.acked = @ \cup {work.buf[Marked(F).buf].id}] ELSE log
       /\ IF NewBroadcast(F)
          THEN /\ AddToBtt(F) /\ timer' = StartExpiry(timer, btt_cnt + 1)
               /\ work' = Disposed(F, r.w) /\ wait_alloc' = Waits(F)
          ELSE work' = Freed(r.w, P) /\ UNCHANGED <<btt, btt_cnt, timer, wait_alloc>>
  /\ Stay /\ UNCHANGED <<base, n, mac>>

UnicastIndication ==
  /\ Runs("dataInd") /\ F.radius # 0 /\ ~IsBroadcast(F.dst)
  /\ work' = Disposed(F, W)
  /\ Stay /\ UNCHANGED <<base, n, tables, timer, mac, log>>

(* new_buffer_allocated: the copy is handed up, the frame forwarded.  One  *)
(* request was made when the frame came and one is made here if others     *)
(* wait: a buffer that comes when nobody waits any more is not freed.      *)
NewBuffer ==
  /\ Runs("newBuf")
  /\ IF wait_alloc = <<>> THEN work' = Filled(W, P, Lost) /\ wait_alloc' = wait_alloc
     ELSE LET b == wait_alloc[Len(wait_alloc)]
              f == [work.buf[b] EXCEPT !.handle = "internal"]
              w == Called(Called(Filled(Filled(W, P, work.buf[b]), b, f), "frameInd", P), "forward", b)
          IN /\ wait_alloc' = SubSeq(wait_alloc, 1, Len(wait_alloc) - 1)
             /\ work' = IF Len(wait_alloc) > 1 THEN Asked(w, "in", "newBuf") ELSE w
  /\ Stay /\ UNCHANGED <<base, n, btt, btt_cnt, brrt, brrt_cnt, timer, mac, log>>
-----------------------------------------------------------------------------
(* nwk_frame_indication: data goes up, a status command becomes an         *)
(* indication, reports and updates are for the conflict resolution.        *)
IndicateData ==
  /\ Runs("frameInd") /\ F.kind = "data" /\ work' = Called(W, "nldeInd", P)
  /\ Stay /\ UNCHANGED <<base, n, tables, timer, mac, log>>
IndicateStatus ==
  /\ Runs("frameInd") /\ F.kind = "status" /\ work' = Called(W, "statusInd", P)
  /\ Stay /\ UNCHANGED <<base, n, tables, timer, mac, log>>

(* zb_panid_conflict_network_update with this buffer.                      *)
Announce(b, h) ==
  \E id \in Drawn(h.known) :
    /\ pc' = NetworkUpdate(h, id) /\ attr' = BeaconPayloadUpdated(attr)
    /\ work' = Called(W, "sendUpdate", b)
    /\ timer' = [timer EXCEPT !.pans = Append(@, PanDelay)]
    /\ log' = [log EXCEPT !.pan = id, !.overtaken = FALSE]

IndicateReport ==
  /\ Runs("frameInd") /\ F.kind = "report"
  /\ IF Resolving(pc) \/ ~F.pl.ours THEN work' = Freed(W, P) /\ UNCHANGED <<base, timer, log>>
     ELSE Announce(P, Reported(pc, F.pl.ids))
  /\ Stay /\ UNCHANGED <<n, tables, mac>>

(* zb_panid_conflict_network_update_recv; the command's buffer is kept.    *)
IndicateUpdate ==
  /\ Runs("frameInd") /\ F.kind = "update"
  /\ IF ~F.pl.ours THEN work' = Freed(W, P) /\ UNCHANGED <<base, timer, log>>
     ELSE /\ attr' = UpdateReceived(F.pl) /\ pc' = NetworkUpdate(pc, F.pl.pan)
          /\ timer' = [timer EXCEPT !.pans = Append(@, PanDelay)]
          /\ work' = Asked(Filled(W, P, Lost), "out", "sendStatus")
          /\ log' = [log EXCEPT !.pan = F.pl.pan, !.overtaken = FALSE]
  /\ Stay /\ UNCHANGED <<n, tables, mac>>

(* zb_mlme_beacon_notify_indication of a device that has joined.           *)
Queued(fn) == \E i \in DOMAIN work.cb : work.cb[i].fn = fn
WaitsFor(fn) == \E d \in {"in", "out"} : fn \in Range(work.wait[d])
PanPending == timer.pans # <<>> \/ Queued("setPanid") \/ WaitsFor("setPanid")
Beacon(pan) ==
  /\ Stim("beacon") /\ FreeOf(work, "in") # {}
  /\ LET b == Min(FreeOf(work, "in")) IN work' = Called(Filled(work, b, [kind |-> "beacon", pan |-> pan]), "beaconInd", b)
  /\ Stay /\ UNCHANGED <<base, tables, timer, mac, log>>
BeaconIndication ==
  /\ Runs("beaconInd")
  /\ \/ /\ F.pan # attr["PanId"] /\ work' = Freed(W, P) /\ UNCHANGED <<base, timer, log>>
     \/ /\ F.pan = attr["PanId"] /\ attr["ManagerAddr"] = Me /\ Announce(P, ConflictAtManager(pc))
     \/ /\ F.pan = attr["PanId"] /\ attr["ManagerAddr"] # Me /\ UNCHANGED attr
        /\ IF IgnoresConflict(pc, F.pan) THEN work' = Freed(W, P) /\ UNCHANGED <<pc, timer, log>>
           ELSE /\ pc' = ScheduleReport(pc, F.pan)
                /\ IF pc.conflict THEN work' = Freed(W, P) /\ UNCHANGED <<timer, log>>
                   ELSE /\ work' = W /\ timer' = [timer EXCEPT !.reports = Append(@, [b |-> P, t |-> ReportDelay])]
                        /\ log' = [log EXCEPT !.overtaken = @ \/ PanPending]
  /\ Stay /\ UNCHANGED <<n, tables, mac>>

(* The command frames of the resolution.                                   *)
SendNetworkReport ==
  /\ ~halted /\ work.cb = <<>> /\ timer.reports # <<>> /\ Head(timer.reports).t = 0
  /\ timer' = [timer EXCEPT !.reports = Tail(@)]
  /\ LET b == Head(timer.reports).b
     IN IF ReportNeeded(pc)
        THEN /\ work' = Called(Filled(work, b, Header(attr["ManagerAddr"], "report", 2 * attr["MaxDepth"], [ours |-> TRUE, ids |-> ReportCmd(pc)])),
                               "forward", b)
             /\ attr' = NextSeq(attr) /\ log' = OwnId(log)
        ELSE work' = Freed(work, b) /\ UNCHANGED <<attr, log>>
  /\ Stay /\ UNCHANGED <<pc, n, tables, mac>>
SendNwkUpdate ==
  /\ Runs("sendUpdate")
  /\ work' = Asked(Called(Filled(W, P, Header(All, "update", 2 * attr["MaxDepth"], UpdateCmd(pc))), "forward", P), "out", "sendStatus")
  /\ attr' = NextSeq(attr) /\ log' = OwnId(log)
  /\ Stay /\ UNCHANGED <<pc, n, tables, timer, mac>>
SendStatusInd ==
  /\ Runs("sendStatus") /\ work' = Called(W, "statusInd", P) /\ pc' = ConflictOver(pc)
  /\ Stay /\ UNCHANGED <<attr, n, tables, timer, mac, log>>

(* The id is changed PanDelay after it was announced.                      *)
SetPanidAlarm ==
  /\ ~halted /\ work.cb = <<>> /\ timer.pans # <<>> /\ Head(timer.pans) = 0
  /\ timer' = [timer EXCEPT !.pans = Tail(@)] /\ work' = Asked(work, "out", "setPanid")
  /\ Stay /\ UNCHANGED <<base, n, tables, mac, log>>
DoSetPanid ==
  /\ Runs("setPanid") /\ pc' = SetPanid(pc)
  /\ work' = Called(Filled(W, P, [kind |-> "start", req |-> StartReq(pc)]), "startReq", P)
  /\ Stay /\ UNCHANGED <<attr, n, tables, timer, mac, log>>
StartRequest ==
  /\ Runs("startReq") /\ attr' = PibUpdated(attr, F.req) /\ work' = Called(W, "startConf", P)
  /\ Stay /\ UNCHANGED <<pc, n, tables, timer, mac, log>>

(* zb_mlme_start_confirm asserts that a resolution is under way.           *)
StartConfirm ==
  /\ Runs("startConf")
  /\ IF pc.state = "resolution" THEN work' = Freed(W, P) /\ pc' = [pc EXCEPT !.state = "idle"] /\ halted' = halted
     ELSE halted' = TRUE /\ UNCHANGED <<work, pc>>
  /\ UNCHANGED <<attr, mix, n, tables, timer, mac, log>>
-----------------------------------------------------------------------------
(* The application: data to all devices or to some, a status command, and  *)
(* requests for attributes.                                                *)
AppSend(dst, radius) ==
  /\ Stim("send") /\ FreeOf(work, "out") # {}
  /\ LET b == Min(FreeOf(work, "out"))
         r == IF radius = 0 THEN 2 * attr["MaxDepth"] ELSE radius
     IN work' = Called(Filled(work, b, [Header(dst, "data", r, 0) EXCEPT !.handle = "aps"]), "forward", b)
  /\ attr' = NextSeq(attr) /\ log' = OwnId(log)
  /\ Stay /\ UNCHANGED <<pc, tables, timer, mac>>

(* zb_nlme_send_status leaves the radius of one.                           *)
SendStatus(dst) ==
  /\ Stim("status") /\ FreeOf(work, "out") # {}
  /\ LET b == Min(FreeOf(work, "out")) IN work' = Called(Filled(work, b, Header(dst, "status", 1, 0)), "forward", b)
  /\ attr' = NextSeq(attr) /\ log' = OwnId(log)
  /\ Stay /\ UNCHANGED <<pc, tables, timer, mac>>

AppGet(layer, a) ==
  /\ Stim("get") /\ FreeOf(work, "out") # {}
  /\ LET b == Min(FreeOf(work, "out")) IN work' = Called(Filled(work, b, [kind |-> "get", layer |-> layer, attr |-> a]), "getReq", b)
  /\ Stay /\ UNCHANGED <<base, tables, timer, mac, log>>
AppSet(layer, a, v) ==
  /\ Stim("set") /\ FreeOf(work, "out") # {}
  /\ LET b == Min(FreeOf(work, "out"))
     IN work' = Called(Filled(work, b, [kind |-> "set", layer |-> layer, attr |-> a, value |-> v]), "setReq", b)
  /\ log' = IF a \in Settable(layer) THEN [log EXCEPT !.set = Updated(@, a, v)] ELSE log
  /\ Stay /\ UNCHANGED <<base, tables, timer, mac>>
DoGet ==
  /\ Runs("getReq")
  /\ \E c \in GetRequest(F.layer, F.attr) : work' = Called(Filled(W, P, [kind |-> "conf", layer |-> F.layer, c |-> c]), "getConf", P)
  /\ Stay /\ UNCHANGED <<base, n, tables, timer, mac, log>>
DoSet ==
  /\ Runs("setReq") /\ attr' = SetRequest(F.layer, F.attr, F.value)
  /\ work' = Called(Filled(W, P, [kind |-> "conf", layer |-> F.layer, c |-> Conf(F.attr, SetStatus(F.layer, F.attr), 0, 0)]), "setConf", P)
  /\ Stay /\ UNCHANGED <<pc, n, tables, timer, mac, log>>
GetConfirm ==
  /\ Runs("getConf") /\ work' = Freed(W, P)
  /\ Stay /\ UNCHANGED <<base, n, tables, timer, mac, log>>
SetConfirm ==
  /\ Runs("setConf") /\ work' = Freed(W, P)
  /\ Stay /\ UNCHANGED <<base, n, tables, timer, mac, log>>
-----------------------------------------------------------------------------
(* Alarms and time.                                                        *)

BrAlarm ==
  /\ ~halted /\ work.cb = <<>> /\ timer.br = 0
  /\ timer' = [timer EXCEPT !.br = -1] /\ work' = Called(work, "brTrans", 0)
  /\ Stay /\ UNCHANGED <<base, n, tables, mac, log>>

(* Mutation: an entry whose time has come to zero is released at once. *)
MutAged(e) == IF e.used /\ e.exp > 1 THEN [e EXCEPT !.exp = @ - 1] ELSE FreeBtr
Aged(e) == IF e.used /\ e.exp > 0 THEN [e EXCEPT !.exp = @ - 1] ELSE FreeBtr
BtrExpiry ==
  /\ ~halted /\ work.cb = <<>> /\ timer.exp = 0
  /\ IF btt_cnt > 0
     THEN /\ btt' = [i \in DOMAIN btt |-> Aged(btt[i])]
          /\ btt_cnt' = btt_cnt - Cardinality({i \in Used(btt) : ~Aged(btt[i]).used})
          /\ timer' = [timer EXCEPT !.exp = Second]
     ELSE timer' = [timer EXCEPT !.exp = -1] /\ UNCHANGED <<btt, btt_cnt>>
  /\ Stay /\ UNCHANGED <<base, n, work, brrt, brrt_cnt, wait_alloc, mac, log>>

(* Times to come; a repetition that is due waits for the next run.         *)
Running ==
  {t \in {timer.br, timer.exp} : t >= 0} \cup Range(timer.pans) \cup {r.t : r \in Range(timer.reports)}
Upcoming == Running \cup {log.life[i] : i \in {j \in DOMAIN log.life : log.life[j] > 0}}
Minus(t, d) == IF t > d THEN t - d ELSE IF t < 0 THEN t ELSE 0
Elapse ==
  /\ ~halted /\ work.cb = <<>> /\ SelectSeq(mac, Direct) = <<>> /\ 0 \notin Running /\ Upcoming # {}
  /\ LET d == Min(Upcoming)
     IN /\ timer' = [br |-> Minus(timer.br, d), exp |-> Minus(timer.exp, d), pans |-> [i \in DOMAIN timer.pans |-> timer.pans[i] - d],
                     reports |-> [i \in DOMAIN timer.reports |-> [timer.reports[i] EXCEPT !.t = @ - d]]]
        /\ brrt' = [i \in DOMAIN brrt |-> [brrt[i] EXCEPT !.due = Minus(@, d)]]
        /\ log' = [log EXCEPT !.life = [i \in DOMAIN @ |-> Minus(@[i], d)]]
  /\ Stay /\ UNCHANGED <<base, n, work, btt, btt_cnt, brrt_cnt, wait_alloc, mac>>
-----------------------------------------------------------------------------
InitAttr(m) ==
  [Defaults EXCEPT !["ShortAddress"] = m.addr, !["ManagerAddr"] = 0, !["PanId"] = m.pan,
                   !["UpdateId"] = 1, !["BeaconPayload"] = 1, !["BeaconPayloadLength"] = 15]
Init ==
  /\ mix \in Mixes /\ n = mix.n /\ attr = InitAttr(mix) /\ pc = InitConflict
  /\ work = [buf |-> [b \in Bufs |-> NoBuf], cb |-> <<>>, wait |-> [d \in {"in", "out"} |-> <<>>]]
  /\ btt = [i \in 1 .. BtrSize |-> FreeBtr] /\ btt_cnt = 0
  /\ brrt = [i \in 1 .. BrrSize |-> FreeBrr] /\ brrt_cnt = 0
  /\ wait_alloc = <<>> /\ mac = <<>> /\ halted = FALSE
  /\ timer = [br |-> -1, exp |-> -1, pans |-> <<>>, reports |-> <<>>]
  /\ log = [own |-> 0, tx |-> EmptyBag, ind |-> EmptyBag, conf |-> EmptyBag, sent |-> {}, life |-> <<>>, started |-> {},
            late |-> {}, dropped |-> {}, acked |-> {}, pan |-> -1, overtaken |-> FALSE, set |-> <<>>]

Environment ==
  \/ \E f \in Foreign \cup Repeated, k \in DOMAIN Nbt : Receive(f, k)
  \/ \E pan \in mix.pans : Beacon(pan)
  \/ \E d \in mix.dsts, r \in mix.radii : AppSend(d, r)
  \/ \E d \in mix.dsts : SendStatus(d)
  \/ \E g \in mix.gets : AppGet(g[1], g[2])
  \/ \E g \in mix.sets : AppSet(g[1], g[2], g[3])

Callback ==
  \/ ForwardDirect \/ ForwardBttFull \/ ForwardBroadcast
  \/ BrNeedsBuffer \/ BrTransmit \/ BrNothing
  \/ DataRequest \/ DataConfirm \/ CallBrConfirm \/ CallStatusIndication
  \/ NldeConfirm \/ NldeIndication \/ StatusIndication
  \/ DropIndication \/ BroadcastIndication \/ UnicastIndication \/ NewBuffer
  \/ IndicateData \/ IndicateStatus \/ IndicateReport \/ IndicateUpdate \/ BeaconIndication
  \/ SendNwkUpdate \/ SendStatusInd \/ DoSetPanid \/ StartRequest \/ StartConfirm
  \/ DoGet \/ DoSet \/ GetConfirm \/ SetConfirm
Alarm == BrAlarm \/ BtrExpiry \/ SendNetworkReport \/ SetPanidAlarm

Next == Environment \/ Callback \/ Alarm \/ Elapse \/ \E b \in Bufs : MacDone(b)
Spec == Init /\ [][Next]_vars

(* The main loop runs, time passes, and the MAC ends every request.        *)
FairSpec ==
  /\ Spec /\ WF_vars(Callback) /\ WF_vars(Alarm) /\ WF_vars(Elapse) /\ \A b \in Bufs : WF_vars(MacDone(b))
-----------------------------------------------------------------------------
(* Properties.                                                             *)

(* Types; the counters of the tables (ZG->nwk.handle.btt_cnt, brrt_cnt)    *)
(* count the used entries.                                                 *)
TypeOK ==
  /\ DOMAIN attr = Attrs /\ pc.state \in {"idle", "resolution"} /\ pc.conflict \in BOOLEAN
  /\ btt_cnt = Cardinality(Used(btt)) /\ brrt_cnt = Cardinality(Used(brrt))
  /\ Len(wait_alloc) <= WaitSize /\ Range(mac) \subseteq Bufs
  /\ \A i \in DOMAIN work.cb : work.cb[i].p \in Bufs \cup {0}
  /\ timer.br \in -1 .. Jitter /\ timer.exp \in -1 .. Second

(* Every buffer in use has exactly one holder: the callback queue, the     *)
(* MAC, the retransmission table, the frames waiting for a second buffer   *)
(* or the report alarm.  (A buffer forgotten by new_buffer_allocated or    *)
(* with a received update is marked lost.)                                 *)
Holders(b) ==
  Cardinality({i \in DOMAIN work.cb : work.cb[i].p = b}) + Cardinality({i \in Used(brrt) : brrt[i].buf = b})
  + Cardinality({i \in DOMAIN wait_alloc : wait_alloc[i] = b}) + Cardinality({i \in DOMAIN timer.reports : timer.reports[i].b = b})
  + Cardinality({i \in DOMAIN mac : mac[i] = b})
BuffersOwned == \A b \in Bufs : Holders(b) = IF work.buf[b].kind \in {"free", "lost"} THEN 0 ELSE 1

(* What the tables and queues of the broadcast engine keep                 *)
(* (nwk_main.c:488-1110): counters and tables agree, and no order of       *)
(* copies, acks, timeouts and shortages gives a buffer two holders.        *)
BuffersSound == TypeOK /\ BuffersOwned

(* A broadcast is handed up at most once, and ours never, however many     *)
(* copies come while it spreads (broadcast transaction table); but ours    *)
(* may, if its place in the table had aged before it was first sent.       *)
IndicatedOnce == \A id \in BagToSet(log.ind) : IF id > 0 THEN id \in log.late ELSE Count(id, log.ind) = 1

(* A broadcast is sent at most MaxRetries times and to each child once;    *)
(* when its retransmission ended by itself, every child it is meant for,   *)
(* but the originator, has been sent its copy.                             *)
Retransmitting(id) == \E i \in Used(brrt) : work.buf[brrt[i].buf].id = id
SentAsMeant ==
  /\ Router => \A x \in BagToSet(log.tx) : x[1] \in log.started => Count(x, log.tx) <= IF x[2] = All THEN MaxRetries ELSE 1
  /\ \A f \in log.sent : \A k \in DOMAIN Nbt :
       (f.id \in log.started \ log.acked /\ ~Retransmitting(f.id) /\ ZeChild(f.dst, k) /\ Nbt[k].addr # f.src
        /\ \A i \in DOMAIN work.cb : work.cb[i].fn = "dataReq" => work.buf[work.cb[i].p].id # f.id)
       => Count(<<f.id, Nbt[k].addr>>, log.tx) = 1

(* Once the change is over the device has the PAN id last announced,       *)
(* unless a new conflict cleared it before it was used (new_panid = 0 in   *)
(* zb_panid_conflict_schedule_network_report) or the application set one.  *)
PanSettled ==
  ("PanId" \notin DOMAIN log.set /\ ~PanPending /\ ~Queued("startReq") /\ log.pan # -1 /\ ~log.overtaken /\ ~halted) => attr["PanId"] = log.pan

(* An attribute the stack does not write keeps what the last set request   *)
(* left of the value, whichever layer took it.                             *)
StackWrites == {"SequenceNumber", "UpdateId", "BeaconPayload", "BeaconPayloadLength", "PanId", "BeaconOrder", "SuperframeOrder", "CurrentPage"}
AttrKept ==
  \A a \in DOMAIN log.set \ StackWrites :
    (~\E i \in DOMAIN work.cb : work.cb[i].fn = "setReq" /\ work.buf[work.cb[i].p].attr = a) => attr[a] = Kept(a, log.set[a])

(* What the information base keeps, whoever changes it: the PAN id follows *)
(* the resolution of conflicts, and what is set stays set                  *)
(* (nwk_panid_conflict.c, mac.c:1189-1330, nwk_nlme.c, aps_main.c).          *)
BaseSound == PanSettled /\ AttrKept

(* Retransmission ends: the table is empty from some time on, and every    *)
(* data request that was not dropped has been confirmed once, unless a     *)
(* start confirm asserted or every sending buffer holds a broadcast of     *)
(* our own whose copies need another one (nwk_broadcast_transmition).      *)
Starved == Of("out") \subseteq {brrt[i].buf : i \in Used(brrt)}
OwnData == {f.id : f \in {g \in log.sent : g.kind = "data" /\ g.src = Me}}
BroadcastEnds ==
  <>[](halted \/ Starved \/ (brrt_cnt = 0 /\ \A id \in OwnData : Count(id, log.conf) = 1))
=============================================================================
