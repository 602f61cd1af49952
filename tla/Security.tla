------------------------------ MODULE Security ------------------------------
(***************************************************************************)
(* Network security (secur/): how a joining device is given the network    *)
(* key, how the trust center distributes and activates the next key, and   *)
(* what each device does to frames it sends and receives.  The APS         *)
(* commands run over a tree of devices: the trust center, its routers and  *)
(* their end devices.  Joining itself is in Join and ChildTable, broadcast *)
(* retransmission in Broadcast, APS retransmission in ApsRetrans.          *)
(*                                                                         *)
(* Every device has a queue of received frames and the callback queue of   *)
(* the scheduler; its main loop takes from either.  Encryption happens     *)
(* when a frame is handed to the radio, not when it is requested, so key   *)
(* and counter may change in between.  A transmission may be lost, and may *)
(* arrive twice (the MAC repeats a frame whose acknowledgement was lost).  *)
(*                                                                         *)
(* The build has ZB_DISABLE_REJOIN_AFTER_SEC_FAIL and no APS_FRAME_SECURITY*)
(* (APS encryption is compiled out); secure_all_frames has its default, 1. *)
(* Encryption is ideal: a frame can be read with the key it was encrypted  *)
(* with and no other.                                                      *)
(***************************************************************************)
EXTENDS Integers, Sequences, FiniteSets, SequencesExt

CONSTANTS
  Device, TC,     \* devices, and the trust center among them
  Parent,         \* the tree: parent of each device but the trust center
  EndDevices,     \* built without ZB_ROUTER_ROLE
  NKeys,          \* ZB_SECUR_N_SECUR_MATERIAL
  KeyNumMod,         \* 2^w of the key sequence number
  NewerWindow,    \* 127: how far ahead a key number counts as newer
  MaxCounter,     \* (zb_uint32_t)~0
  DupClock,       \* ticks the APS layer remembers a frame
  Mixes           \* bound: which stimuli may happen together, how often

ASSUME SecurityAssumption ==
  /\ TC \in Device /\ EndDevices \subseteq Device \ {TC} /\ Parent \in [Device \ {TC} -> Device]
  /\ NKeys \in Nat \ {0} /\ NewerWindow < KeyNumMod /\ MaxCounter \in Nat /\ DupClock \in Nat

VARIABLES
  mix, n,     \* the stimuli of this behaviour, and how many of each may still come
  dev,        \* NIB, AIB and tables of each device
  rx, cb,     \* received frames and scheduled callbacks of each device
  keySw,      \* ZG->zdo.handle.key_sw: the broadcast after which the trust center switches
  iter,       \* aps.tmp.neighbor_table_iterator: devices still to be told to switch
  ids,        \* ghost: APS frames sent so far, each numbered
  nonces,     \* ghost: [device, key, counter] used for encryption
  reused,     \* ghost: devices that used one twice
  told,       \* ghost: devices told to switch to the key they were using
  handled,    \* ghost: frames each device has processed
  twice       \* ghost: frames some device has processed twice

ghosts == <<ids, nonces, reused, told, handled, twice>>
vars == <<mix, n, dev, rx, cb, keySw, iter, ids, nonces, reused, told, handled, twice>>

NoKey == 0                            \* the all-zero key
TcKey(s) == s + 1                     \* the key the trust center generates under number s
All == "all"                          \* a broadcast address
Clear == [seq |-> -1]                 \* no auxiliary header
Routers == Device \ EndDevices
Linked(d) == {e \in Device : (e # TC /\ Parent[e] = d) \/ (d # TC /\ Parent[d] = e)}
NextHop(d, dst) == IF dst = All \/ dst \in Linked(d) THEN dst
                   ELSE IF \E e \in Linked(d) : dst \in Linked(e) THEN CHOOSE e \in Linked(d) : dst \in Linked(e)
                   ELSE Parent[d]
Absent == [rel |-> "absent", seq |-> 0, cnt |-> 0]
Stim(k) == n[k] > 0 /\ n' = [n EXCEPT ![k] = @ - 1]
Run == n' = n

(* zb_ib_set_defaults, secur_generate_keys, secur_tc_init: the trust       *)
(* center starts with keys numbered from 0, all others with empty entries. *)
InitDev(d, up) ==
  [joined |-> up \/ d = TC, auth |-> up \/ d = TC, act |-> 0, idx |-> 0,
   set |-> [i \in 0 .. NKeys - 1 |-> IF d = TC THEN [seq |-> i, key |-> TcKey(i)]
                                     ELSE [seq |-> 0, key |-> IF up /\ i = 0 THEN TcKey(0) ELSE NoKey]],
   out |-> 0, prev |-> 0, tc |-> IF up \/ d = TC THEN TC ELSE "none",
   nbt |-> [e \in Device |-> IF ~up \/ e \notin Linked(d) THEN Absent
                             ELSE [Absent EXCEPT !.rel = IF d # TC /\ Parent[d] = e THEN "parent" ELSE "child"]],
   dup |-> [e \in Device |-> [cnt |-> 0, clock |-> 0]], apsc |-> 1, seen |-> {}]

Init ==
  /\ mix \in Mixes
  /\ n = mix.n
  /\ dev = [d \in Device |-> InitDev(d, mix.up)]
  /\ rx = [d \in Device |-> <<>>] /\ cb = [d \in Device |-> <<>>]
  /\ keySw = 0 /\ iter = <<>>
  /\ ids = 0 /\ nonces = {} /\ reused = {} /\ told = {} /\ handled = {} /\ twice = {}

-----------------------------------------------------------------------------
(* Keys.                                                                   *)

(* secur_nwk_key_by_seq: the search begins at the active entry.            *)
KeyBySeq(D, s) ==
  LET order == [k \in 0 .. NKeys - 1 |-> D.set[(D.idx + k) % NKeys]]
  IN IF \E k \in 0 .. NKeys - 1 : order[k].seq = s
     THEN order[CHOOSE k \in 0 .. NKeys - 1 : order[k].seq = s /\ \A j \in 0 .. k - 1 : order[j].seq # s].key
     ELSE -1

(* secur_nwk_key_switch: the loop stops at the first entry behind the      *)
(* active one that has another number, and counts the entries before it.   *)
SwitchIndex(D, s) ==
  CHOOSE k \in 0 .. NKeys : /\ k = NKeys \/ D.set[(D.idx + 1 + k) % NKeys].seq # s
                            /\ \A j \in 0 .. k - 1 : D.set[(D.idx + 1 + j) % NKeys].seq = s
MutActivated(D, i, s) == [D EXCEPT !.idx = i, !.act = s, !.out = 0]
Activated(D, i, s) == [D EXCEPT !.idx = i, !.act = s, !.prev = D.out, !.out = 0]
KeySwitch(d, D, s) ==
  LET i == SwitchIndex(D, s)
      shift == (D.idx + 1) % NKeys
  IN IF i # NKeys THEN Activated(D, i, s)
     ELSE IF d = TC THEN Activated([D EXCEPT !.set[shift] = [seq |-> s, key |-> TcKey(s)]], shift, s)
     ELSE D
NextSeq(D) == (D.act + 1) % KeyNumMod
Newer(D, s) == s # D.act /\ ((s - D.act) % KeyNumMod) < NewerWindow
HasPreconfigured(D) == D.set[0].key # NoKey

-----------------------------------------------------------------------------
(* Sending.                                                                *)

(* zb_aps_send_command and zb_nlde_data_request: the frame is queued, its  *)
(* APS counter assigned.                                                   *)
Frame(d, D, dst, secure, cmd, id) ==
  [do |-> "tx", src |-> d, dst |-> dst, sec |-> secure /\ D.auth, label |-> -1, cmd |-> cmd, apsc |-> D.apsc, id |-> id]

(* zb_nwk_secure_frame: a forwarded broadcast keeps the key it came with,  *)
(* under the counter of the key used before.                               *)
UsesPrev(D, f) == f.label # -1 /\ f.label # D.act
Sealed(s, counter, key) == [seq |-> s, cnt |-> counter, key |-> key]          \* zb_ccm_encrypt_n_auth
AuxOf(D, f) ==
  IF ~f.sec THEN Clear
  ELSE IF UsesPrev(D, f) THEN Sealed(f.label, D.prev, KeyBySeq(D, f.label))
  ELSE Sealed(D.act, D.out, KeyBySeq(D, D.act))
AfterSecure(D, f) ==
  IF ~f.sec THEN D ELSE IF UsesPrev(D, f) THEN [D EXCEPT !.prev = @ + 1] ELSE [D EXCEPT !.out = @ + 1]

(* The trust center asks for a key switch when its counter has reached the *)
(* limit (zb_secur_switch_nwk_key_br).                                     *)
AtLimit(d, D, f) == d = TC /\ f.sec /\ D.out = mix.limit

(* zb_mac_check_security encrypts; the radio then delivers the frame to    *)
(* the next hop or to all in reach, or to nobody; unencryptable frames are *)
(* not sent.                                                               *)
Reached(d, f) == IF f.dst = All THEN {e \in Linked(d) : dev[e].joined} ELSE {NextHop(d, f.dst)} \cap {e \in Device : dev[e].joined}
OnAir(d, f, aux) == [mac |-> d, src |-> f.src, dst |-> f.dst, sec |-> aux, cmd |-> f.cmd, apsc |-> f.apsc, id |-> f.id]
Transmit(d) ==
  /\ cb[d] # <<>> /\ Head(cb[d]).do = "tx"
  /\ LET f == Head(cb[d])
         D == dev[d]
         aux == AuxOf(D, f)
         sent == D.joined /\ (f.sec => aux.key # -1)
         nonce == [dev |-> d, key |-> aux.key, cnt |-> aux.cnt]
         left == f.cmd.t = "leave" /\ f.src = d /\ f.dst = All
         D1 == IF D.joined THEN AfterSecure(D, f) ELSE D
         D2 == IF left THEN [D1 EXCEPT !.joined = FALSE]            \* data confirm: zb_nwk_do_leave
               ELSE IF f.cmd.t = "leave" THEN [D1 EXCEPT !.nbt[f.dst] = Absent]   \* zb_nlme_leave_confirm
               ELSE D1
     IN /\ dev' = [dev EXCEPT ![d] = IF f.dst = All THEN [D2 EXCEPT !.seen = @ \cup {f.id}] ELSE D2]
        /\ cb' = [cb EXCEPT ![d] = Tail(@) \o IF D.joined /\ AtLimit(d, D1, f) THEN <<[do |-> "swReq", dst |-> All]>> ELSE <<>>]
        /\ \/ Run /\ rx' = [e \in Device |-> IF sent /\ e \in Reached(d, f) THEN Append(rx[e], OnAir(d, f, aux)) ELSE rx[e]]
           \/ sent /\ Stim("loss") /\ UNCHANGED rx
           \/ /\ sent /\ f.dst # All /\ Stim("dup")
              /\ rx' = [e \in Device |-> IF e \in Reached(d, f) THEN rx[e] \o <<OnAir(d, f, aux), OnAir(d, f, aux)>> ELSE rx[e]]
        /\ nonces' = IF sent /\ f.sec THEN nonces \cup {nonce} ELSE nonces
        /\ reused' = IF sent /\ f.sec /\ nonce \in nonces THEN reused \cup {d} ELSE reused
        /\ keySw' = IF keySw = f.id /\ d = TC THEN -f.id ELSE keySw
  /\ UNCHANGED <<mix, iter, ids, told, handled, twice>>

(* zb_apsde_data_confirm of the broadcast that announced the switch: the   *)
(* confirm comes once the broadcast has been repeated often enough.        *)
SwitchConfirmed ==
  /\ keySw < 0 /\ Run
  /\ keySw' = 0
  /\ dev' = [dev EXCEPT ![TC] = KeySwitch(TC, @, NextSeq(@))]
  /\ UNCHANGED <<mix, rx, cb, iter, ghosts>>

-----------------------------------------------------------------------------
(* Requests.  Each queues a command of a device.                           *)

Tk(dst, src, key, s) == [t |-> "tk", dst |-> dst, src |-> src, key |-> key, seq |-> s]
Ud(child, status) == [t |-> "ud", child |-> child, status |-> status]
Sw(s) == [t |-> "sw", seq |-> s]
Rm(child) == [t |-> "rm", child |-> child]
Rk == [t |-> "rk"]
LeaveCmd(request) == [t |-> "leave", request |-> request]
Data == [t |-> "data"]

(* A callback of device d runs: it changes the device's state to D and     *)
(* queues the frames out, each [dst, sec, cmd].                            *)
Queued(d, D, out, base) == [k \in 1 .. Len(out) |-> [Frame(d, D, out[k].dst, out[k].sec, out[k].cmd, base + k) EXCEPT !.apsc = D.apsc + k - 1]]
Out(dst, secure, cmd) == <<[dst |-> dst, sec |-> secure, cmd |-> cmd]>>
Does(d, D, out, more) ==
  /\ dev' = [dev EXCEPT ![d] = [D EXCEPT !.apsc = @ + Len(out)]]
  /\ cb' = [cb EXCEPT ![d] = (IF more.pop THEN Tail(@) ELSE @) \o Queued(d, D, out, ids) \o more.jobs]
  /\ ids' = ids + Len(out)
Pop == [pop |-> TRUE, jobs |-> <<>>]
Stay == [pop |-> FALSE, jobs |-> <<>>]
IsJob(d, do) == cb[d] # <<>> /\ Head(cb[d]).do = do

(* The key the trust center gives a joining device: nothing if the device  *)
(* is taken to have one.                                                   *)
MutGivenKey(D, child, src, status) == Tk(child, src, D.set[0].key, D.act)
GivenKey(D, child, src, status) ==
  IF status = "securedRejoin" THEN Tk(child, src, NoKey, 0) ELSE Tk(child, src, D.set[D.idx].key, D.act)

(* zb_apsme_transport_key_request, zb_apsme_update_device_request,         *)
(* zb_apsme_switch_key_request, zb_secur_apsme_remove_device,              *)
(* zb_secur_apsme_request_key.                                             *)
TransportKeyRequest(parent, cmd) == Out(IF parent # "none" THEN parent ELSE cmd.dst, parent # "none" \/ cmd.dst = All, cmd)
UpdateDeviceRequest(D, child, status) == Out(D.tc, TRUE, Ud(child, status))
SwitchKeyRequest(dst, s) == Out(dst, TRUE, Sw(s))
RemoveDeviceRequest(parent, child) == Out(parent, TRUE, Rm(child))
RequestKeyRequest(dst) == Out(dst, TRUE, Rk)

(* zb_secur_gen_upd_dev_status, as the code has it: a rejoin without       *)
(* security is reported as a secured one and the other way round.          *)
UpdDevStatus(rejoin, secure) == IF ~rejoin THEN "unsecuredJoin" ELSE IF secure THEN "unsecuredRejoin" ELSE "securedRejoin"

(* A device joins or rejoins its parent (Join, ChildTable); the parent     *)
(* then authenticates it (zb_nlme_join_indication).                        *)
Join(d, rejoin) ==
  LET p == Parent[d]
      secure == rejoin /\ HasPreconfigured(dev[d])
  IN /\ d # TC /\ ~dev[d].joined /\ dev[p].joined /\ dev[p].auth
     /\ rejoin = dev[d].auth
     /\ Stim("join")
     /\ dev' = [dev EXCEPT ![d] = [@ EXCEPT !.joined = TRUE, !.nbt[p].rel = "parent"],
                           ![p].nbt[d] = [Absent EXCEPT !.rel = "unauth"]]
     /\ cb' = [cb EXCEPT ![p] = Append(@, [do |-> "auth", child |-> d, status |-> UpdDevStatus(rejoin, secure)])]
     /\ UNCHANGED <<mix, rx, keySw, iter, ghosts>>

(* secur_authenticate_child.                                               *)
AuthenticateChild(d) ==
  /\ IsJob(d, "auth") /\ Run
  /\ LET j == Head(cb[d])
     IN Does(d, dev[d], IF d = TC THEN TransportKeyRequest("none", GivenKey(dev[d], j.child, d, j.status))
                        ELSE UpdateDeviceRequest(dev[d], j.child, j.status), Pop)
  /\ UNCHANGED <<mix, rx, keySw, iter, nonces, reused, told, handled, twice>>

(* zb_secur_send_nwk_key_update_br: nothing is sent when the trust center  *)
(* has no key under the next number.                                       *)
SendKeyUpdate ==
  LET key == KeyBySeq(dev[TC], NextSeq(dev[TC]))
  IN /\ Stim("update")
     /\ Does(TC, dev[TC], IF key = -1 THEN <<>> ELSE TransportKeyRequest("none", Tk(All, TC, key, NextSeq(dev[TC]))), Stay)
     /\ UNCHANGED <<mix, rx, keySw, iter, nonces, reused, told, handled, twice>>

(* zb_secur_send_nwk_key_switch: by unicast the trust center switches      *)
(* first, by broadcast when the broadcast has been confirmed.              *)
AppSwitch(dst) ==
  /\ Stim("switch")
  /\ cb' = [cb EXCEPT ![TC] = Append(@, [do |-> "swReq", dst |-> dst])]
  /\ UNCHANGED <<mix, dev, rx, keySw, iter, ghosts>>
RxOn(D) == SetToSeq({e \in Device : D.nbt[e].rel # "absent"})
SendKeySwitch ==
  /\ IsJob(TC, "swReq") /\ Run
  /\ IF Head(cb[TC]).dst = All
     THEN /\ Does(TC, dev[TC], SwitchKeyRequest(All, NextSeq(dev[TC])), Pop)
          /\ keySw' = ids + 1
          /\ UNCHANGED iter
     ELSE LET D == KeySwitch(TC, dev[TC], NextSeq(dev[TC])) IN
          /\ Does(TC, D, <<>>, [Pop EXCEPT !.jobs = IF RxOn(D) = <<>> THEN <<>> ELSE <<[do |-> "swNext"]>>])
          /\ iter' = RxOn(D)
          /\ UNCHANGED keySw
  /\ UNCHANGED <<mix, rx, nonces, reused, told, handled, twice>>
SendKeySwNext ==
  /\ IsJob(TC, "swNext") /\ Run /\ iter # <<>>
  /\ Does(TC, dev[TC], SwitchKeyRequest(Head(iter), dev[TC].act), [Pop EXCEPT !.jobs = IF Len(iter) = 1 THEN <<>> ELSE <<[do |-> "swNext"]>>])
  /\ iter' = Tail(iter)
  /\ UNCHANGED <<mix, rx, keySw, nonces, reused, told, handled, twice>>

(* The application sends data, asks its parent for the key, or leaves.     *)
AppData(d, dst) ==
  /\ dev[d].joined /\ dev[d].auth /\ d # dst /\ Stim("data")
  /\ Does(d, dev[d], Out(dst, TRUE, Data), Stay)
  /\ UNCHANGED <<mix, rx, keySw, iter, nonces, reused, told, handled, twice>>
RequestKey(d) ==
  /\ d # TC /\ dev[d].joined /\ dev[d].auth /\ Stim("ask")
  /\ Does(d, dev[d], RequestKeyRequest(Parent[d]), Stay)
  /\ UNCHANGED <<mix, rx, keySw, iter, nonces, reused, told, handled, twice>>
Leave(d) ==
  /\ d \in EndDevices /\ dev[d].joined /\ Stim("leave")
  /\ Does(d, dev[d], Out(All, HasPreconfigured(dev[d]), LeaveCmd(FALSE)), Stay)
  /\ UNCHANGED <<mix, rx, keySw, iter, nonces, reused, told, handled, twice>>

-----------------------------------------------------------------------------
(* Receiving.                                                              *)

(* zb_nwk_unsecure_frame.  The neighbor is the device the frame was heard  *)
(* from; it is added to the table only when it is also the originator.     *)
(* Its entry is changed before the frame has been checked.                 *)
Checked(e, f) ==
  LET e1 == IF e.rel = "absent" THEN [e EXCEPT !.rel = "other"] ELSE IF e.rel = "child" THEN [e EXCEPT !.rel = "unauth"] ELSE e
  IN IF e1.seq # f.sec.seq THEN [e1 EXCEPT !.seq = f.sec.seq, !.cnt = 0] ELSE e1
Fresh(e, f) == e.cnt <= f.sec.cnt /\ e.cnt # MaxCounter
Readable(f, key) == key = f.sec.key                                   \* zb_ccm_decrypt_n_auth_stdsecur
Unsecured(d, D, f) ==
  LET known == D.nbt[f.mac].rel # "absent" \/ f.src = f.mac
      key == KeyBySeq(D, f.sec.seq)
      e == Checked(D.nbt[f.mac], f)
      fresh == key # -1 /\ Fresh(e, f)
      ok == fresh /\ Readable(f, key)
      e2 == IF fresh THEN [e EXCEPT !.cnt = f.sec.cnt] ELSE e
      e3 == IF ok /\ e2.rel = "unauth" THEN [e2 EXCEPT !.rel = "child"] ELSE e2
      D1 == [D EXCEPT !.nbt[f.mac] = e3]
  IN IF ~D.auth \/ ~known THEN [ok |-> FALSE, D |-> D]
     ELSE [ok |-> ok, D |-> IF ok /\ Newer(D, f.sec.seq) THEN KeySwitch(d, D1, f.sec.seq) ELSE D1]

(* aps_check_dups: one counter per originator, remembered for a while.     *)
IsDup(D, f) == D.dup[f.src].clock # 0 /\ D.dup[f.src].cnt = f.apsc
MutRemember(D, f) == [D EXCEPT !.dup[f.src].cnt = f.apsc]
Remember(D, f) == [D EXCEPT !.dup[f.src] = [cnt |-> f.apsc, clock |-> DupClock]]

(* zb_aps_in_transport_key: a key for somebody else is passed to a child,  *)
(* in the clear as long as the child is not authenticated.                 *)
MutInTransportKey(d, D, f) ==
  [D |-> D, out |-> <<>>, jobs |-> IF f.cmd.dst \in {d, All} THEN <<[do |-> "tkInd", cmd |-> f.cmd]>> ELSE <<>>]
InTransportKey(d, D, f) ==
  LET c == f.cmd
  IN IF c.dst \in {d, All} THEN [D |-> D, out |-> <<>>, jobs |-> <<[do |-> "tkInd", cmd |-> c]>>]
     ELSE IF d \in Routers /\ D.nbt[c.dst].rel \in {"child", "unauth"}
          THEN [D |-> [D EXCEPT !.nbt[c.dst].rel = "child"], out |-> Out(c.dst, D.nbt[c.dst].rel # "unauth", c), jobs |-> <<>>]
     ELSE [D |-> D, out |-> <<>>, jobs |-> <<>>]

(* zb_nwk_leave_handler: a request of the parent makes an end device       *)
(* leave; a device that says it leaves is reported up.                     *)
LeaveHandler(d, D, f) ==
  IF D.nbt[f.src].rel = "parent"
  THEN [D |-> IF d \in EndDevices THEN [D EXCEPT !.joined = FALSE] ELSE D, out |-> <<>>, jobs |-> <<>>]
  ELSE IF f.cmd.request \/ D.nbt[f.src].rel = "absent" THEN [D |-> D, out |-> <<>>, jobs |-> <<>>]
  ELSE [D |-> D, out |-> <<>>, jobs |-> <<[do |-> "leaveInd", child |-> f.src]>>]

(* zb_aps_in_command_handle: the primitive is indicated by a callback.     *)
(* Only builds without the router role know the switch-key command.        *)
InCommandHandle(d, D, f) ==
  LET ind(do) == [D |-> D, out |-> <<>>, jobs |-> <<[do |-> do, src |-> f.src, cmd |-> f.cmd]>>]
      nothing == [D |-> D, out |-> <<>>, jobs |-> <<>>]
  IN CASE f.cmd.t = "tk" -> InTransportKey(d, D, f)
       [] f.cmd.t = "leave" -> LeaveHandler(d, D, f)
       [] f.cmd.t \in {"ud", "rm", "rk"} /\ d \in Routers -> ind(CASE f.cmd.t = "ud" -> "udInd" [] f.cmd.t = "rm" -> "rmInd" [] OTHER -> "rkInd")
       [] f.cmd.t = "sw" /\ d \in EndDevices -> ind("swInd")
       [] OTHER -> nothing

(* zb_mcps_data_indication, as far as security is concerned: a broadcast   *)
(* seen before is dropped; the frame is checked; what is for others is     *)
(* forwarded (a broadcast under the key it came with) and what is for this *)
(* device goes to the APS layer unless it was there before.                *)
Relay(f, label) == <<[do |-> "tx", src |-> f.src, dst |-> f.dst, sec |-> f.sec # Clear, label |-> label, cmd |-> f.cmd, apsc |-> f.apsc, id |-> f.id]>>
Receive(d) ==
  /\ rx[d] # <<>> /\ Run
  /\ rx' = [rx EXCEPT ![d] = Tail(@)]
  /\ \E f \in {Head(rx[d])} :
     \E U \in {IF f.sec = Clear THEN [ok |-> TRUE, D |-> dev[d]] ELSE Unsecured(d, dev[d], f)} :
     LET bcast == f.dst = All
         D == IF bcast THEN [U.D EXCEPT !.seen = @ \cup {f.id}] ELSE U.D
         forward == d \in Routers /\ (IF bcast THEN f.cmd.t # "leave" ELSE f.dst # d)
         mine == f.dst \in {d, All}
         dup == f.cmd.t # "leave" /\ IsDup(D, f)
         D1 == IF f.cmd.t = "leave" THEN D ELSE Remember(D, f)
         H == InCommandHandle(d, D1, f)
         relay == IF forward THEN Relay(f, IF bcast THEN f.sec.seq ELSE -1) ELSE <<>>
         same == dev' = dev /\ UNCHANGED <<cb, ids, handled, twice>>
     IN IF ~dev[d].joined \/ (bcast /\ f.id \in dev[d].seen) THEN same
        ELSE IF ~U.ok \/ ~mine \/ dup
        THEN /\ dev' = [dev EXCEPT ![d] = IF U.ok /\ mine THEN D1 ELSE D]
             /\ cb' = [cb EXCEPT ![d] = @ \o IF U.ok THEN relay ELSE <<>>]
             /\ UNCHANGED <<ids, handled, twice>>
        ELSE /\ dev' = [dev EXCEPT ![d] = [H.D EXCEPT !.apsc = @ + Len(H.out)]]
             /\ cb' = [cb EXCEPT ![d] = @ \o relay \o Queued(d, H.D, H.out, ids) \o H.jobs]
             /\ ids' = ids + Len(H.out)
             /\ handled' = handled \cup {<<d, f.id>>}
             /\ twice' = IF <<d, f.id>> \in handled THEN twice \cup {f.id} ELSE twice
  /\ UNCHANGED <<mix, keySw, iter, nonces, reused, told>>

(* zb_apsme_transport_key_indication.                                      *)
StoredKey(D, c) ==
  LET i == (D.idx + ((c.seq - D.act) % KeyNumMod)) % NKeys
      D1 == [D EXCEPT !.set[i] = [seq |-> c.seq, key |-> c.key]]
  IN IF c.key = NoKey /\ c.seq = 0 THEN [i |-> 0, D |-> D]
     ELSE [i |-> i, D |-> IF i = D.idx /\ c.seq # D.act THEN [D1 EXCEPT !.act = c.seq, !.out = 0] ELSE D1]
TransportKeyIndication(d) ==
  /\ IsJob(d, "tkInd") /\ Run
  /\ LET c == Head(cb[d]).cmd
         K == StoredKey([dev[d] EXCEPT !.tc = IF @ = "none" THEN c.src ELSE @], c)
         D == IF K.D.auth THEN K.D ELSE [K.D EXCEPT !.auth = TRUE, !.act = c.seq, !.out = 0, !.idx = K.i]
     IN Does(d, D, IF dev[d].auth THEN <<>> ELSE Out(All, TRUE, Data), Pop)       \* zdo_send_device_annce
  /\ UNCHANGED <<mix, rx, keySw, iter, nonces, reused, told, handled, twice>>

(* zb_apsme_update_device_indication.                                      *)
UpdateDeviceIndication(d) ==
  /\ IsJob(d, "udInd") /\ Run
  /\ LET j == Head(cb[d])
         child == j.cmd.child
     IN IF j.cmd.status = "left" THEN Does(d, [dev[d] EXCEPT !.nbt[child] = Absent], <<>>, Pop)
        ELSE Does(d, dev[d], IF mix.allow THEN TransportKeyRequest(j.src, GivenKey(dev[d], child, d, j.cmd.status))
                             ELSE RemoveDeviceRequest(j.src, child), Pop)
  /\ UNCHANGED <<mix, rx, keySw, iter, nonces, reused, told, handled, twice>>

(* zb_apsme_remove_device_indication and zb_nlme_leave_request: a child    *)
(* that is not authenticated is forgotten, another is told to leave.       *)
RemoveDeviceIndication(d) ==
  /\ IsJob(d, "rmInd") /\ Run
  /\ LET j == Head(cb[d])
         D == dev[d]
         c == j.cmd.child
     IN IF j.src # D.tc THEN Does(d, D, <<>>, Pop)
        ELSE IF D.nbt[c].rel = "child" THEN Does(d, D, Out(c, HasPreconfigured(D), LeaveCmd(TRUE)), Pop)
        ELSE Does(d, [D EXCEPT !.nbt[c] = Absent], <<>>, Pop)
  /\ UNCHANGED <<mix, rx, keySw, iter, nonces, reused, told, handled, twice>>

(* zb_apsme_request_key_indication: only a device that is authenticated    *)
(* is given the key, in the clear.                                         *)
RequestKeyIndication(d) ==
  /\ IsJob(d, "rkInd") /\ Run
  /\ LET j == Head(cb[d])
         D == dev[d]
     IN Does(d, D, IF D.nbt[j.src].rel \in {"absent", "unauth", "other"} THEN <<>>
                   ELSE TransportKeyRequest("none", Tk(j.src, d, D.set[D.idx].key, D.act)), Pop)
  /\ UNCHANGED <<mix, rx, keySw, iter, nonces, reused, told, handled, twice>>

(* zb_apsme_switch_key_indication.                                         *)
SwitchKeyIndication(d) ==
  /\ IsJob(d, "swInd") /\ Run
  /\ LET s == Head(cb[d]).cmd.seq
     IN /\ Does(d, KeySwitch(d, dev[d], s), <<>>, Pop)
        /\ told' = IF s = dev[d].act THEN told \cup {d} ELSE told
  /\ UNCHANGED <<mix, rx, keySw, iter, nonces, reused, handled, twice>>

(* zb_nlme_leave_indication: a router tells the trust center that its      *)
(* child has left, and forgets it.                                         *)
LeaveIndication(d) ==
  /\ IsJob(d, "leaveInd") /\ Run
  /\ LET c == Head(cb[d]).child
         D == dev[d]
     IN Does(d, [D EXCEPT !.nbt[c] = Absent],
             IF d # TC /\ D.nbt[c].rel \in {"child", "unauth"} THEN UpdateDeviceRequest(D, c, "left") ELSE <<>>, Pop)
  /\ UNCHANGED <<mix, rx, keySw, iter, nonces, reused, told, handled, twice>>

(* zb_aps_check_timer_cb.  A frame is processed within a tick.             *)
DupTick(d) ==
  /\ rx[d] = <<>> /\ \E e \in Device : dev[d].dup[e].clock # 0
  /\ Stim("tick")
  /\ dev' = [dev EXCEPT ![d].dup = [e \in Device |-> [@[e] EXCEPT !.clock = IF @ = 0 THEN 0 ELSE @ - 1]]]
  /\ UNCHANGED <<mix, rx, cb, keySw, iter, ghosts>>

-----------------------------------------------------------------------------
Indication(d) ==
  \/ TransportKeyIndication(d) \/ UpdateDeviceIndication(d) \/ RemoveDeviceIndication(d)
  \/ RequestKeyIndication(d) \/ SwitchKeyIndication(d) \/ LeaveIndication(d)
Work(d) == Transmit(d) \/ Receive(d) \/ AuthenticateChild(d) \/ Indication(d)
Switching == SendKeySwitch \/ SendKeySwNext \/ SwitchConfirmed
Next ==
  \/ \E d \in Device : Work(d) \/ RequestKey(d) \/ Leave(d) \/ DupTick(d)
  \/ \E d \in Device, dst \in Device \cup {All} : AppData(d, dst)
  \/ \E d \in Device \ {TC}, rejoin \in BOOLEAN : Join(d, rejoin)
  \/ SendKeyUpdate \/ (\E dst \in {TC, All} : AppSwitch(dst))
  \/ Switching
Spec == Init /\ [][Next]_vars
(* The main loop of every device goes on as long as something is queued.   *)
FairSpec == Spec /\ WF_vars(Switching) /\ \A d \in Device : WF_vars(Work(d))


-----------------------------------------------------------------------------
(* Properties.                                                             *)

(* Types: tables and queues of every device hold what their fields may.    *)
TypeOK ==
  /\ mix \in Mixes /\ keySw \in -ids .. ids /\ reused \cup told \subseteq Device
  /\ \A d \in Device :
       /\ dev[d].act \in 0 .. KeyNumMod - 1 /\ dev[d].idx \in 0 .. NKeys - 1
       /\ \A i \in 0 .. NKeys - 1 : dev[d].set[i].seq \in 0 .. KeyNumMod - 1 /\ dev[d].set[i].key \in Nat
       /\ \A e \in Device : dev[d].nbt[e].rel \in {"absent", "other", "parent", "child", "unauth"}
       /\ dev[d].tc \in {"none", TC}
  /\ iter \in Seq(Device)

(* Whatever the order in which key updates, implicit and explicit key      *)
(* switches and forwarded broadcasts of the old key meet                   *)
(* (zb_nwk_secure_frame, secur_nwk_key_switch), no device encrypts two     *)
(* frames with the same key and counter, except one that was commanded to  *)
(* switch to the key it was already using.                                 *)
NonceUnique == reused \subseteq told

(* Until the second switch of the trust center, a key stored anywhere      *)
(* under a number (zb_apsme_transport_key_indication computes the entry    *)
(* from the distance of the numbers) is the key the trust center generated *)
(* under it, also when the command was delayed past a switch.              *)
KeyPairsSound ==
  dev[TC].act <= 1 =>
    \A d \in Device, i \in 0 .. NKeys - 1 : dev[d].set[i].key # NoKey => dev[d].set[i].key = TcKey(dev[d].set[i].seq)

(* What the key sets keep (secur_nwk_key_switch, zb_nwk_secure_frame).     *)
KeysSound == TypeOK /\ KeyPairsSound

(* A command the MAC delivers twice, to its destination or to a router     *)
(* that forwards it, is processed once by the APS layer (aps_check_dups),  *)
(* within the time it remembers the frame.                                 *)
HandledOnce == twice = {}

(* A device that has joined is authenticated or forgotten by its parent in *)
(* the end, through however many routers the key travels                   *)
(* (secur_authenticate_child, zb_aps_in_update_device,                     *)
(* zb_aps_in_transport_key), if the frames arrive.                         *)
AuthEnds ==
  \A d \in Device \ {TC} :
    (mix.n.loss = 0 /\ dev[d].joined) ~> (dev[d].auth \/ dev[Parent[d]].nbt[d].rel = "absent" \/ ~dev[d].joined)
=============================================================================
