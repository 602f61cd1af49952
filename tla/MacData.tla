------------------------------ MODULE MacData ------------------------------
(***************************************************************************)
(* The MAC layer of one device (mac/mac.c, mac_data.c, mac_cr_data.c,      *)
(* mac_routines.c, mac_associate.c, mac_cr_associate.c) in the build for a *)
(* transceiver that acknowledges by itself (no ZB_MANUAL_ACK): the queue   *)
(* of transmit callbacks and the callback that waits for the end of a      *)
(* transmission, direct and indirect data requests, the pending queue and  *)
(* its timeouts, association on both sides, polling.                       *)
(*                                                                         *)
(* All of it shares one global, MAC_CTX().pending_buf, which nearly every  *)
(* handler overwrites.  Where the code then frees or reads the wrong       *)
(* buffer the model records a fault and stops: what happens next depends   *)
(* on the contents of memory.                                              *)
(*                                                                         *)
(* The device is a parent (it keeps frames for its children) or a child    *)
(* (it associates, then polls).  Frames carry no network security here.    *)
(***************************************************************************)
EXTENDS Naturals, Sequences, FiniteSets

CONSTANTS
  NBuf,         \* buffers of the pool
  Peer,         \* the children a parent exchanges frames with
  NSlots,       \* ZB_MAC_PENDING_QUEUE_SIZE
  Roles,        \* the roles the device may have
  MaxReceived,  \* bound: received frames in the callback queue
  MaxBeacons,   \* bound: beacon requests not answered yet
  MaxOnAir      \* bound: transmissions the transceiver has accepted and not finished

ASSUME MacAssumption ==
  /\ NBuf \in Nat \ {0} /\ NSlots \in Nat \ {0} /\ MaxOnAir \in Nat \ {0} /\ MaxBeacons \in Nat
  /\ Roles \subseteq {"parent", "child"} /\ Roles # {}

VARIABLES
  role,
  content,      \* what each buffer holds
  cbq,          \* scheduled callbacks: ZG->sched.cb_q
  txq,          \* callbacks that need the transmitter: ZG->sched.mac_tx_q
  txWait,       \* tx_wait_cb and tx_wait_cb_arg
  txCnt,        \* tx_cnt: a transmission has ended
  onAir,        \* transmissions under way in the transceiver
  pendingBuf,   \* MAC_CTX().pending_buf
  slots,        \* pending_data_queue
  slotAlarm,    \* slots with a zb_mac_pending_data_timeout alarm
  pendingBit,   \* the transceiver's frame pending bit
  dataReq,      \* mac_storage.mac_data_req: the slot being sent, and its buffer then
  outq,         \* MAC_CTX().out: indirect requests that found no slot
  flags,        \* mac_flags: indirect data request, pending data, association, poll
  bufRef,       \* rt_ctx.indirect_data.buf_ref
  timers,       \* alarms of the child side
  caller,       \* callback type for which indirect_data_callback_caller waits for a buffer
  upper,        \* what the layer above has under way: association and poll
  asked,        \* history: direct data requests not confirmed yet, oldest first
  fault         \* a wrong buffer has been freed, confirmed or read

vars == <<role, content, cbq, txq, txWait, txCnt, onAir, pendingBuf, slots, slotAlarm, pendingBit,
          dataReq, outq, flags, bufRef, timers, caller, upper, asked, fault>>
child == <<flags, bufRef, timers, caller, upper>>
parent == <<slots, slotAlarm, pendingBit, outq>>
radio == <<txWait, txCnt, onAir, dataReq>>

Buf == 1 .. NBuf
Slot == 1 .. NSlots
NONE == 0                        \* a null pointer
Free == [type |-> "free", peer |-> NONE]
Requests == {"direct", "indirect", "assocResp", "assocReq", "poll"}
ParentFrames == {"rxData", "rxDataReq", "rxAssocReq", "rxBeaconReq"}
ChildFrames == {"rxData", "rxAssocResp"}
Contents == [type : Requests \cup ParentFrames \cup ChildFrames \cup {"free", "assocOk", "assocFail"},
             peer : Peer \cup {NONE}]
Callbacks == {"parse_recv_data", "handle_data_frame", "command_accept", "accept_ass_request",
              "associate_response", "associate_indication", "associate_confirm", "data_confirm",
              "data_indication", "comm_status", "poll_confirm"}
TxCallbacks == {"mcps_data_req", "accept_data_request", "beacon_req", "association_req", "poll_request"}
NoService == [slot |-> 1, buf |-> NONE]
EmptySlot == [buf |-> NONE, dst |-> NONE]

Ref(f, b) == [func |-> f, buf |-> b]
IsFree(b) == content[b].type = "free"
(* A buffer is allocated: which free one it is makes no difference.        *)
Allocated == {b \in Buf : IsFree(b) /\ \A x \in 1 .. b - 1 : ~IsFree(x)}
Released(c, b) == [c EXCEPT ![b] = Free]
Filled(c, b, t, p) == [c EXCEPT ![b] = [type |-> t, peer |-> p]]
Idle == ~fault

-----------------------------------------------------------------------------
(* Init: the pool is free.  A child has just finished its scan: the scan   *)
(* left its buffer in pending_buf, and NWK asks for the association with   *)
(* the same buffer.                                                        *)

Init ==
  /\ role \in Roles
  /\ LET b == 1 IN
        /\ content = [x \in Buf |-> IF role = "child" /\ x = b THEN [type |-> "assocReq", peer |-> NONE] ELSE Free]
        /\ pendingBuf = IF role = "child" THEN b ELSE NONE
        /\ upper = [assoc |-> IF role = "child" THEN "scanned" ELSE "joined", polling |-> FALSE,
                    buf |-> IF role = "child" THEN b ELSE NONE]
  /\ cbq = <<>> /\ txq = <<>>
  /\ txWait = Ref("idle", NONE) /\ txCnt = FALSE /\ onAir = 0
  /\ slots = [s \in Slot |-> EmptySlot] /\ slotAlarm = {} /\ pendingBit = FALSE
  /\ dataReq = NoService /\ outq = {}
  /\ flags = {} /\ bufRef = NONE /\ timers = {} /\ caller = "idle"
  /\ asked = <<>> /\ fault = FALSE

-----------------------------------------------------------------------------
(* Who refers to a buffer.                                                 *)

SlotHolders(b) == {s \in Slot : slots[s].buf = b}
Holders(b) ==
  Cardinality({i \in DOMAIN cbq : cbq[i].buf = b}) + Cardinality({i \in DOMAIN txq : txq[i].buf = b})
  + Cardinality(SlotHolders(b))
  + (IF txWait.func = "data_continue" /\ txWait.buf = b THEN 1 ELSE 0)
  + (IF b \in outq THEN 1 ELSE 0) + (IF "poll" \in flags /\ bufRef = b THEN 1 ELSE 0)
  + (IF upper.buf = b THEN 1 ELSE 0)

-----------------------------------------------------------------------------
(* zb_mac_put_data_to_pending_queue, zb_mac_put_request_to_queue and       *)
(* ZB_CLEAR_PENDING_QUEUE_SLOT.                                            *)

FreeSlots == {s \in Slot : slots[s] = EmptySlot}
FirstSlot(S) == CHOOSE s \in S : \A t \in S : s <= t

PutToSlot(b, dst) ==
  LET s == FirstSlot(FreeSlots) IN
  /\ slots' = [slots EXCEPT ![s] = [buf |-> b, dst |-> dst]]
  /\ slotAlarm' = slotAlarm \cup {s}

PutDataToPendingQueue(b, dst) ==
  /\ pendingBit' = TRUE
  /\ IF FreeSlots # {} THEN PutToSlot(b, dst) ELSE UNCHANGED <<slots, slotAlarm>>

PutRequestToQueue(b) == outq' = outq \cup {b}

ClearSlot(s) ==
  /\ slots' = [slots EXCEPT ![s] = EmptySlot]
  /\ slotAlarm' = slotAlarm \ {s}
  /\ pendingBit' = (pendingBit /\ \E t \in Slot \ {s} : slots[t] # EmptySlot)

ClearPendingSlot(s) == ClearSlot(s)

(* zb_mac_pending_data_timeout: the frame's own buffer carries the status. *)
PendingDataTimeout(s) ==
  /\ s \in slotAlarm
  /\ cbq' = Append(cbq, Ref("comm_status", slots[s].buf))
  /\ ClearPendingSlot(s)
  /\ UNCHANGED <<role, content, txq, pendingBuf, outq, asked, fault>> /\ UNCHANGED radio /\ UNCHANGED child

-----------------------------------------------------------------------------
(* The transmitter.  ZB_TRANS_SEND_COMMAND resets tx_cnt and hands the     *)
(* frame over; the interrupt at its end sets tx_cnt.                       *)

Send(cb, b) ==
  /\ onAir < MaxOnAir /\ onAir' = onAir + 1
  /\ txCnt' = FALSE
  /\ txWait' = Ref(cb, b)

TxInterrupt ==
  /\ onAir > 0 /\ onAir' = onAir - 1
  /\ txCnt' = TRUE
  /\ UNCHANGED <<role, content, cbq, txq, txWait, pendingBuf, dataReq, asked, fault>>
  /\ UNCHANGED parent /\ UNCHANGED child

(* zb_mcps_data_request: queued until the transmitter is idle.             *)
McpsDataRequest(b, dst, type) ==
  /\ b \in Allocated /\ upper.assoc = "joined"
  /\ type = "indirect" => role = "parent"
  /\ content' = Filled(content, b, type, dst)
  /\ txq' = Append(txq, Ref("mcps_data_req", b))
  /\ asked' = IF type = "direct" THEN Append(asked, b) ELSE asked
  /\ UNCHANGED <<role, cbq, pendingBuf, fault>> /\ UNCHANGED parent /\ UNCHANGED radio /\ UNCHANGED child

(* zb_mcps_data_request_fill_hdr puts an indirect request aside: into a    *)
(* slot or, with the slots full, into the queue nothing ever reads.        *)
FillHdrIndirect(b) ==
  /\ PutDataToPendingQueue(b, content[b].peer)
  /\ IF FreeSlots # {} THEN UNCHANGED outq ELSE PutRequestToQueue(b)

HandleMcpsDataReq(b) ==
  /\ pendingBuf' = b
  /\ \/ /\ content[b].type = "indirect"
        /\ FillHdrIndirect(b)
        /\ UNCHANGED radio
     \/ /\ content[b].type = "direct"
        /\ Send("data_continue", b)
        /\ UNCHANGED dataReq /\ UNCHANGED parent
  /\ UNCHANGED <<content, cbq, fault>> /\ UNCHANGED child

(* zb_handle_mcps_data_req_continue: the status is the transceiver's; the  *)
(* buffer goes up with the confirm in any case.                            *)
DataContinue(b) ==
  /\ pendingBuf' = NONE
  /\ cbq' = Append(cbq, Ref("data_confirm", b))
  /\ UNCHANGED <<content, dataReq, fault>> /\ UNCHANGED parent /\ UNCHANGED child

(* A plausible slip: only a successful transmission is confirmed.          *)
DataContinueOnlyOk(b) ==
  /\ pendingBuf' = NONE
  /\ \E ok \in BOOLEAN : cbq' = IF ok THEN Append(cbq, Ref("data_confirm", b)) ELSE cbq
  /\ UNCHANGED <<content, dataReq, fault>> /\ UNCHANGED parent /\ UNCHANGED child

HandleMcpsDataReqContinue(b) == DataContinue(b)

-----------------------------------------------------------------------------
(* The parent answers a data request command.                              *)

SlotsFor(dst) == {s \in Slot : slots[s] # EmptySlot /\ slots[s].dst = dst}
CheckPendingData(dst) == IF SlotsFor(dst) = {} THEN 0 ELSE FirstSlot(SlotsFor(dst))

(* zb_accept_data_request_cmd and zb_handle_data_request_cmd: the frame is *)
(* sent from its slot; pending_buf keeps the request's buffer meanwhile.   *)
HandleDataRequestCmd(b) ==
  LET s == CheckPendingData(content[b].peer) IN
  /\ \/ /\ s # 0
        /\ pendingBuf' = b
        /\ Send("data_request_continue", txWait.buf)
        /\ dataReq' = [slot |-> s, buf |-> slots[s].buf]
        /\ UNCHANGED content
     \/ /\ s = 0
        /\ pendingBuf' = NONE
        /\ content' = Released(content, b)
        /\ UNCHANGED radio
  /\ UNCHANGED <<cbq, fault>> /\ UNCHANGED parent /\ UNCHANGED child

(* zb_handle_data_request_cmd_continue.  The slot must still hold the      *)
(* frame that was sent, and pending_buf the request's buffer: a timeout of *)
(* the slot, a data frame, an association request or a response handled    *)
(* during the transmission changes them.                                   *)
ServiceIntact ==
  /\ slots[dataReq.slot].buf = dataReq.buf
  /\ pendingBuf # NONE /\ content[pendingBuf].type = "rxDataReq" /\ Holders(pendingBuf) = 0

DataRequestContinue ==
  LET s == dataReq.slot
      d == slots[s].buf
  IN
  \/ /\ ~ServiceIntact
     /\ fault' = TRUE
     /\ UNCHANGED <<content, cbq, pendingBuf, dataReq>> /\ UNCHANGED parent /\ UNCHANGED child
  \/ /\ ServiceIntact
     /\ ClearPendingSlot(s)
     /\ pendingBuf' = NONE
     /\ \/ /\ content[d].type = "assocResp"    \* the status goes up in the request's buffer
           /\ cbq' = Append(cbq, Ref("comm_status", pendingBuf))
           /\ content' = Released(content, d)
        \/ /\ content[d].type # "assocResp"
           /\ cbq' = Append(cbq, Ref("data_confirm", d))
           /\ content' = Released(content, pendingBuf)
     /\ dataReq' = NoService
     /\ UNCHANGED <<outq, fault>> /\ UNCHANGED child

(* A plausible slip: the frame is not taken out of its slot.               *)
DataRequestContinueKeeps ==
  LET d == slots[dataReq.slot].buf IN
  /\ ServiceIntact
  /\ pendingBuf' = NONE
  /\ cbq' = Append(cbq, Ref("data_confirm", d))
  /\ content' = Released(content, pendingBuf)
  /\ dataReq' = NoService
  /\ UNCHANGED fault /\ UNCHANGED parent /\ UNCHANGED child

HandleDataRequestCmdContinue == DataRequestContinue

(* zb_handle_beacon_req: the beacon is sent with nothing waiting for it.   *)
HandleBeaconReq ==
  /\ \/ onAir < MaxOnAir /\ onAir' = onAir + 1 /\ txCnt' = FALSE
     \/ UNCHANGED <<onAir, txCnt>>             \* no FFD, or no beacon payload
  /\ UNCHANGED <<content, cbq, txWait, dataReq, pendingBuf, fault>> /\ UNCHANGED parent /\ UNCHANGED child

-----------------------------------------------------------------------------
(* Association, parent side.                                               *)

AcceptAssRequestCmd(b) ==
  /\ pendingBuf' = b
  /\ cbq' = Append(Tail(cbq), Ref("associate_indication", b))
  /\ UNCHANGED content /\ UNCHANGED parent /\ UNCHANGED child

(* zb_handle_associate_response *)
AssociateResponse(b) ==
  /\ content' = Filled(content, b, "assocResp", content[b].peer)
  /\ PutDataToPendingQueue(b, content[b].peer)
  /\ IF FreeSlots # {} THEN pendingBuf' = b /\ cbq' = Tail(cbq)
     ELSE pendingBuf' = NONE /\ cbq' = Append(Tail(cbq), Ref("comm_status", b))
  /\ UNCHANGED outq /\ UNCHANGED child

-----------------------------------------------------------------------------
(* Association and polling, child side.                                    *)

(* zb_mlme_associate_request: the buffer the scan left.                    *)
AssociateRequest ==
  /\ upper.assoc = "scanned"
  /\ upper' = [upper EXCEPT !.assoc = "asked", !.buf = NONE]
  /\ txq' = Append(txq, Ref("association_req", upper.buf))
  /\ UNCHANGED <<role, content, cbq, pendingBuf, flags, bufRef, timers, caller, asked, fault>>
  /\ UNCHANGED parent /\ UNCHANGED radio

SendAssociationReq(b) ==
  /\ Send("association_continue", txWait.buf)
  /\ UNCHANGED <<content, cbq, pendingBuf, dataReq, fault>> /\ UNCHANGED parent /\ UNCHANGED child

(* zb_mlme_send_association_req_continue: without an acknowledgement       *)
(* nothing more happens, and nothing is reported.                          *)
SendAssociationReqContinue ==
  /\ \/ timers' = timers \cup {"resp"}
     \/ UNCHANGED timers
  /\ UNCHANGED <<content, cbq, pendingBuf, dataReq, flags, bufRef, caller, upper, fault>> /\ UNCHANGED parent

(* call_indirect_data_callback *)
CallIndirectDataCallback(type, b, q) ==
  /\ flags' = flags \ {type}
  /\ cbq' = Append(q, Ref(IF type = "ass" THEN "associate_confirm" ELSE "poll_confirm", b))

(* zb_mac_resp_timeout: the response is fetched with a data request, sent  *)
(* and waited for at once; pending_buf should still be the buffer of the   *)
(* association request.                                                    *)
ScanBufferKept == pendingBuf # NONE /\ content[pendingBuf].type = "assocReq"

RespTimeout ==
  /\ "resp" \in timers
  /\ \/ /\ ~ScanBufferKept
        /\ fault' = TRUE
        /\ UNCHANGED <<content, cbq, pendingBuf, bufRef, flags, timers>>
     \/ /\ ScanBufferKept
        /\ UNCHANGED fault
        /\ \/ /\ flags' = flags \cup {"ass", "indirect", "pendData"}
              /\ timers' = (timers \ {"resp"}) \cup {"indirect_ass"}
              /\ bufRef' = NONE
              /\ content' = Released(content, pendingBuf)
              /\ pendingBuf' = NONE
              /\ UNCHANGED cbq
           \/ /\ flags' = (flags \cup {"indirect"}) \ {"ass", "pendData"}
              /\ timers' = timers \ {"resp"}
              /\ content' = Filled(content, pendingBuf, "assocFail", NONE)
              /\ cbq' = Append(cbq, Ref("associate_confirm", pendingBuf))
              /\ UNCHANGED <<bufRef, pendingBuf>>
  /\ UNCHANGED <<role, txq, caller, upper, asked>> /\ UNCHANGED parent /\ UNCHANGED radio

(* zb_mac_indirect_data_timeout, and the callback that waits for a buffer. *)
TimeoutCall(type) ==
  \/ bufRef # NONE /\ CallIndirectDataCallback(type, bufRef, cbq) /\ bufRef' = NONE /\ UNCHANGED caller
  \/ bufRef = NONE /\ caller' = type /\ UNCHANGED <<flags, cbq, bufRef>>

(* A plausible slip: the buffer kept for the confirm is forgotten first.   *)
TimeoutCallForgets(type) ==
  /\ bufRef' = NONE
  /\ UNCHANGED <<caller, flags, cbq>>

IndirectDataCall(type) == TimeoutCall(type)

IndirectDataTimeout(type) ==
  LET t == IF type = "ass" THEN "indirect_ass" ELSE "indirect_poll" IN
  /\ t \in timers /\ timers' = timers \ {t}
  /\ IndirectDataCall(type)
  /\ UNCHANGED <<role, content, txq, pendingBuf, upper, asked, fault>> /\ UNCHANGED parent /\ UNCHANGED radio

IndirectDataCallbackCaller(b) ==
  /\ caller # "idle" /\ b \in Allocated
  /\ content' = Filled(content, b, "assocFail", NONE)
  /\ caller' = "idle"
  /\ CallIndirectDataCallback(caller, b, cbq)
  /\ UNCHANGED <<role, txq, pendingBuf, bufRef, timers, upper, asked, fault>> /\ UNCHANGED parent /\ UNCHANGED radio

CallerServed == \E b \in Buf : IndirectDataCallbackCaller(b)

(* zb_poll_request *)
PollRequest(b) ==
  /\ role = "child" /\ upper.assoc = "joined" /\ ~upper.polling /\ b \in Allocated
  /\ content' = Filled(content, b, "poll", NONE)
  /\ upper' = [upper EXCEPT !.polling = TRUE]
  /\ txq' = Append(txq, Ref("poll_request", b))
  /\ UNCHANGED <<role, cbq, pendingBuf, flags, bufRef, timers, caller, asked, fault>>
  /\ UNCHANGED parent /\ UNCHANGED radio

(* zb_handle_poll_request over zb_mac_get_indirect_data: the data request  *)
(* is sent and waited for; it failed, or there is no data, or the answer   *)
(* is awaited.                                                             *)
HandlePollRequest(b) ==
  /\ pendingBuf' = NONE
  /\ \/ /\ flags' = flags \cup {"indirect", "pendData", "poll"}
        /\ timers' = timers \cup {"indirect_poll"}
        /\ bufRef' = b
        /\ UNCHANGED cbq
     \/ /\ flags' = (flags \cup {"indirect"}) \ {"pendData"}
        /\ cbq' = Append(cbq, Ref("poll_confirm", b))
        /\ UNCHANGED <<timers, bufRef>>
  /\ txCnt' = TRUE
  /\ UNCHANGED <<content, txWait, onAir, dataReq, caller, upper, fault>> /\ UNCHANGED parent

-----------------------------------------------------------------------------
(* Reception.                                                              *)

Frames == IF role = "parent" THEN ParentFrames
          ELSE {"rxData"} \cup (IF "ass" \in flags THEN {"rxAssocResp"} ELSE {})

BeaconsWaiting == Cardinality({i \in DOMAIN txq : txq[i].func = "beacon_req"})
                  + Cardinality({b \in Buf : content[b].type = "rxBeaconReq"})

RxCallbacks == {"parse_recv_data", "handle_data_frame", "command_accept", "accept_ass_request"}

(* zb_mac_recv_data *)
Receive(b, type, peer) ==
  /\ b \in Allocated
  /\ type \in Frames
  /\ Cardinality({i \in DOMAIN cbq : cbq[i].func \in RxCallbacks}) < MaxReceived
  /\ type = "rxBeaconReq" => BeaconsWaiting < MaxBeacons
  /\ content' = Filled(content, b, type, peer)
  /\ cbq' = Append(cbq, Ref("parse_recv_data", b))
  /\ UNCHANGED <<role, txq, pendingBuf, asked, fault>> /\ UNCHANGED parent /\ UNCHANGED radio /\ UNCHANGED child

Dispatch(b) == Ref(IF content[b].type = "rxData" THEN "handle_data_frame" ELSE "command_accept", b)

(* zb_mac_parse_recv_data: a frame for this device ends the wait for an    *)
(* indirect one, and a data frame the poll.                                *)
ParseRecvData(b) ==
  /\ \/ /\ content' = Released(content, b)     \* can_accept_frame refused it
        /\ cbq' = Tail(cbq)
        /\ UNCHANGED <<flags, timers>>
     \/ /\ "indirect" \notin flags
        /\ cbq' = Append(Tail(cbq), Dispatch(b))
        /\ UNCHANGED <<content, flags, timers>>
     \/ /\ "indirect" \in flags
        /\ timers' = timers \ {"indirect_ass", "indirect_poll"}
        /\ \E more \in {{}, {"pendData"}} :
             LET answered == "poll" \in flags /\ content[b].type = "rxData" /\ bufRef # NONE IN
             /\ flags' = ((flags \ {"indirect"}) \ (IF answered THEN {"poll"} ELSE {})) \cup more
             /\ cbq' = Append(IF answered THEN Append(Tail(cbq), Ref("poll_confirm", bufRef)) ELSE Tail(cbq),
                              Dispatch(b))
        /\ UNCHANGED content
  /\ UNCHANGED <<pendingBuf, bufRef, caller, upper>> /\ UNCHANGED parent

(* zb_handle_data_frame *)
HandleDataFrame(b) ==
  /\ pendingBuf' = b
  /\ cbq' = Append(Tail(cbq), Ref("data_indication", b))
  /\ UNCHANGED content /\ UNCHANGED parent /\ UNCHANGED child

(* zb_mlme_command_accept *)
CommandAccept(b) ==
  /\ \/ /\ content[b].type = "rxBeaconReq"
        /\ txq' = Append(txq, Ref("beacon_req", NONE))
        /\ content' = Released(content, b)
        /\ cbq' = Tail(cbq) /\ UNCHANGED flags
     \/ /\ content[b].type = "rxAssocReq"
        /\ cbq' = Append(Tail(cbq), Ref("accept_ass_request", b))
        /\ UNCHANGED <<txq, content, flags>>
     \/ /\ content[b].type = "rxDataReq"
        /\ txq' = Append(txq, Ref("accept_data_request", b))
        /\ cbq' = Tail(cbq) /\ UNCHANGED <<content, flags>>
     \/ /\ content[b].type = "rxAssocResp" /\ "ass" \in flags
        /\ content' = Filled(content, b, "assocOk", NONE)
        /\ flags' = flags \ {"ass"}
        /\ cbq' = Append(Tail(cbq), Ref("associate_confirm", b)) /\ UNCHANGED txq
     \/ /\ content[b].type = "rxAssocResp" /\ "ass" \notin flags
        /\ content' = Released(content, b)
        /\ cbq' = Tail(cbq) /\ UNCHANGED <<txq, flags>>
  /\ UNCHANGED <<pendingBuf, bufRef, timers, caller, upper>> /\ UNCHANGED parent

(* The layer above consumes a confirm or an indication; NWK answers an     *)
(* association in the same buffer.                                         *)
UpperCallback(f, b) ==
  /\ \/ /\ f = "associate_indication"
        /\ cbq' = Append(Tail(cbq), Ref("associate_response", b))
        /\ UNCHANGED <<content, upper>>
     \/ /\ f # "associate_indication"
        /\ content' = Released(content, b)
        /\ cbq' = Tail(cbq)
        /\ upper' = CASE f = "associate_confirm" ->
                           [upper EXCEPT !.assoc = IF content[b].type = "assocOk" THEN "joined" ELSE "failed"]
                      [] f = "poll_confirm" -> [upper EXCEPT !.polling = FALSE]
                      [] OTHER -> upper
  /\ UNCHANGED <<pendingBuf, flags, bufRef, timers, caller>> /\ UNCHANGED parent

(* A new scan after a failed association: zb_mlme_scan_request sets        *)
(* pending_buf.                                                            *)
Rescan(b) ==
  /\ upper.assoc = "failed" /\ b \in Allocated
  /\ content' = Filled(content, b, "assocReq", NONE)
  /\ pendingBuf' = b
  /\ upper' = [assoc |-> "scanned", polling |-> FALSE, buf |-> b]
  /\ UNCHANGED <<role, cbq, txq, flags, bufRef, timers, caller, asked, fault>> /\ UNCHANGED parent /\ UNCHANGED radio

-----------------------------------------------------------------------------
(* The main loop: the next scheduled callback, and the transmit part of    *)
(* zb_mac_main_loop.                                                       *)

RunCallback ==
  /\ cbq # <<>>
  /\ LET f == Head(cbq).func
         b == Head(cbq).buf
     IN /\ \/ f = "parse_recv_data" /\ ParseRecvData(b) /\ UNCHANGED txq
           \/ f = "handle_data_frame" /\ HandleDataFrame(b) /\ UNCHANGED txq
           \/ f = "command_accept" /\ CommandAccept(b)
           \/ f = "accept_ass_request" /\ AcceptAssRequestCmd(b) /\ UNCHANGED txq
           \/ f = "associate_response" /\ AssociateResponse(b) /\ UNCHANGED txq
           \/ f \in {"associate_indication", "associate_confirm", "data_confirm", "data_indication",
                     "comm_status", "poll_confirm"} /\ UpperCallback(f, b) /\ UNCHANGED txq
        /\ asked' = IF f = "data_confirm" /\ asked # <<>> /\ Head(asked) = b THEN Tail(asked) ELSE asked
  /\ UNCHANGED <<role, fault>> /\ UNCHANGED radio

(* A transmission has ended: the waiting callback is called, tx_cnt is set *)
(* again by ZB_SKIP_TX_CHK, and tx_wait_cb is cleared after the call.      *)
MainLoopTxDone ==
  /\ txWait.func # "idle" /\ txCnt
  /\ \/ txWait.func = "data_continue" /\ HandleMcpsDataReqContinue(txWait.buf)
     \/ txWait.func = "data_request_continue" /\ HandleDataRequestCmdContinue
     \/ txWait.func = "association_continue" /\ SendAssociationReqContinue
  /\ txWait' = Ref("idle", NONE)
  /\ UNCHANGED <<role, txq, txCnt, onAir, asked>>

(* Nothing is waited for: the next transmit callback runs.                 *)
MainLoopTxNext ==
  /\ txWait.func = "idle" /\ txq # <<>>
  /\ LET f == Head(txq).func
         b == Head(txq).buf
     IN \/ f = "mcps_data_req" /\ HandleMcpsDataReq(b)
        \/ f = "accept_data_request" /\ HandleDataRequestCmd(b)
        \/ f = "beacon_req" /\ HandleBeaconReq
        \/ f = "association_req" /\ SendAssociationReq(b)
        \/ f = "poll_request" /\ HandlePollRequest(b)
  /\ txq' = Tail(txq)
  /\ UNCHANGED <<role, asked>>

Next ==
  /\ Idle
  /\ \/ \E b \in Buf, p \in Peer, t \in {"direct", "indirect"} : McpsDataRequest(b, p, t)
     \/ \E b \in Buf, p \in Peer, t \in ParentFrames \cup ChildFrames : Receive(b, t, p)
     \/ \E b \in Buf : PollRequest(b) \/ Rescan(b)
     \/ \E s \in Slot : PendingDataTimeout(s)
     \/ \E t \in {"ass", "poll"} : IndirectDataTimeout(t)
     \/ AssociateRequest \/ RespTimeout \/ CallerServed
     \/ TxInterrupt \/ RunCallback \/ MainLoopTxDone \/ MainLoopTxNext

(* The loop keeps running callbacks and transmissions, transmissions end,  *)
(* alarms fire.                                                            *)
Fairness ==
  /\ WF_vars(Idle /\ TxInterrupt) /\ WF_vars(Idle /\ RunCallback)
  /\ WF_vars(Idle /\ MainLoopTxDone) /\ WF_vars(Idle /\ MainLoopTxNext)
  /\ WF_vars(Idle /\ IndirectDataTimeout("poll")) /\ SF_vars(Idle /\ CallerServed)

Spec == Init /\ [][Next]_vars /\ Fairness

-----------------------------------------------------------------------------
TypeOK ==
  /\ role \in Roles
  /\ content \in [Buf -> Contents]
  /\ \A i \in DOMAIN cbq : cbq[i].func \in Callbacks /\ cbq[i].buf \in Buf
  /\ \A i \in DOMAIN txq : txq[i].func \in TxCallbacks /\ txq[i].buf \in Buf \cup {NONE}
  /\ txWait.func \in {"idle", "data_continue", "data_request_continue", "association_continue"}
  /\ txCnt \in BOOLEAN /\ onAir \in 0 .. MaxOnAir
  /\ pendingBuf \in Buf \cup {NONE} /\ bufRef \in Buf \cup {NONE}
  /\ slots \in [Slot -> [buf : Buf \cup {NONE}, dst : Peer \cup {NONE}]]
  /\ outq \subseteq Buf /\ asked \in Seq(Buf)
  /\ flags \subseteq {"indirect", "pendData", "ass", "poll"}
  /\ timers \subseteq {"resp", "indirect_ass", "indirect_poll"}

(* The pending queue, its alarms and the transceiver's pending bit agree,  *)
(* whatever order timeouts, transmissions and overflows come in: a frame   *)
(* in a slot always has the alarm that will expire it, an alarm always a   *)
(* frame (zb_mac_pending_data_timeout does not test it), and the pending   *)
(* bit tells the children whether anything waits.                          *)
SlotsGuarded ==
  /\ slotAlarm = {s \in Slot : slots[s] # EmptySlot}
  /\ pendingBit <=> (slotAlarm # {})

(* Until the shared pending_buf has led the code astray, no buffer is held *)
(* twice (by the queues, a slot, a transmission, the poll) and no free     *)
(* buffer is held.                                                         *)
HeldOnce ==
  fault \/ \A b \in Buf : Holders(b) <= (IF IsFree(b) THEN 0 ELSE 1)

(* The buffers of the entries of q with callback f that are in S, in order. *)
Picked(q, f, S) ==
  LET picked[k \in 0 .. Len(q)] ==
        IF k = 0 THEN <<>>
        ELSE IF q[k].func = f /\ q[k].buf \in S THEN Append(picked[k - 1], q[k].buf) ELSE picked[k - 1]
  IN  picked[Len(q)]

(* Direct data requests leave and are confirmed in the order they were     *)
(* made, none lost and none twice: the confirms on their way, the request  *)
(* being transmitted and those waiting for the transmitter are exactly the *)
(* requests not confirmed yet, in order.                                   *)
Direct == {b \in Buf : content[b].type = "direct"}
Transmitting == IF txWait.func = "data_continue" THEN <<txWait.buf>> ELSE <<>>
InOrder ==
  fault \/ asked = Picked(cbq, "data_confirm", Direct) \o Transmitting \o Picked(txq, "mcps_data_req", Direct)

(* What the indirect transmission keeps (mac_cr_data.c, mac.c), whatever   *)
(* polls, timeouts, transmissions and overflows meet: slots, their alarms  *)
(* and the pending bit agree, and a buffer has one holder.                 *)
SlotsSound == TypeOK /\ SlotsGuarded /\ HeldOnce

(* Every poll is answered, by data, by its timeout or by an error, unless  *)
(* a second confirm of its association (of the timeout and of the          *)
(* response) tells the layer above that the device has no parent.          *)
PollConfirmed == upper.polling ~> (fault \/ ~upper.polling \/ upper.assoc # "joined")
=============================================================================
