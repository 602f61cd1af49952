--------------------------- MODULE PanIdConflict ---------------------------
(***************************************************************************)
(* Resolution of a conflict of PAN identifiers (nwk/nwk_panid_conflict.c): *)
(* a router that hears a beacon of another network with its own PAN id     *)
(* collects the ids in use and reports them to the network manager, the    *)
(* manager chooses another id and announces it by broadcast, and every     *)
(* device changes its id when the broadcast has had time to spread.        *)
(*                                                                         *)
(* The operators say what each function makes of the part of               *)
(* ZG->nwk.handle it works on; Broadcast runs them.                        *)
(***************************************************************************)
EXTENDS InfoBase

CONSTANTS
  KnownSize,     \* ZB_PANID_TABLE_SIZE
  PanIds         \* ids ZB_RANDOM may give, 0 among them

ASSUME PanIdAssumption == KnownSize \in Nat \ {0} /\ PanIds \subseteq Nat

VARIABLE pc      \* panid_conflict, state, new_panid and known_panids

Slots == 1 .. KnownSize
NoneKnown == [i \in Slots |-> 0]
AllOnes == [i \in Slots |-> 65535]
InitConflict == [conflict |-> FALSE, state |-> "idle", new |-> 0, known |-> NoneKnown]

(* zb_panid_conflict_remember_panid: into the first free place, unless it  *)
(* is there; forgotten when there is no place.                             *)
RememberPanid(known, id) ==
  LET stop == {i \in Slots : known[i] \in {id, 0}}
  IN IF stop = {} THEN known
     ELSE [known EXCEPT ![Min(stop)] = id]

(* The loop of zb_panid_conflict_network_update goes on while the number   *)
(* drawn is zero AND none of the known ones.                               *)
Drawn(known) == {r \in PanIds : r # 0 \/ \E i \in Slots : known[i] = r}

(* zb_panid_conflict_got_network_report at the manager: nothing while a    *)
(* conflict is being resolved; otherwise at most KnownSize ids are taken.  *)
Resolving(h) == h.state = "resolution" \/ h.conflict
Reported(h, ids) ==
  [h EXCEPT !.known = [i \in Slots |-> IF i <= Len(ids) THEN ids[i] ELSE 0], !.state = "idle"]

(* A beacon with the manager's own id: all places are filled with ones.    *)
ConflictAtManager(h) == [h EXCEPT !.known = AllOnes, !.state = "idle"]

(* Mutation: an id announced earlier is not replaced. *)
MutNetworkUpdate(h, id) == IF h.new = 0 THEN [h EXCEPT !.new = id] ELSE h
NetworkUpdate(h, id) == [h EXCEPT !.new = id]

(* zb_nwk_update_beacon_payload writes the update id as it is.             *)
BeaconPayloadUpdated(at) == [at EXCEPT !["BeaconPayload"] = at["UpdateId"], !["BeaconPayloadLength"] = 15]

(* zb_panid_conflict_schedule_network_report: a conflict with an id other  *)
(* than the announced one is ignored; the first one starts the collection. *)
IgnoresConflict(h, id) == h.conflict /\ h.new # 0 /\ h.new # id
ScheduleReport(h, id) ==
  [h EXCEPT !.known = RememberPanid(IF h.conflict THEN h.known ELSE NoneKnown, id),
            !.new = IF h.conflict THEN @ ELSE 0, !.conflict = TRUE]

(* zb_panid_conflict_send_network_report: not when the answer is there.    *)
ReportNeeded(h) == ~(h.conflict /\ h.new # 0)
ReportCmd(h) == SelectSeq(h.known, LAMBDA id : id # 0)
UpdateCmd(h) == [ours |-> TRUE, id |-> attr["UpdateId"], pan |-> h.new]

(* zb_panid_conflict_network_update_recv takes one from the update id      *)
(* because zb_nwk_update_beacon_payload is said to add one.                *)
UpdateReceived(u) ==
  BeaconPayloadUpdated([attr EXCEPT !["UpdateId"] = (u.id - 1 + Byte) % Byte])

ConflictOver(h) == [h EXCEPT !.conflict = FALSE]
SetPanid(h) == [h EXCEPT !.conflict = FALSE, !.state = "resolution"]

(* zb_mlme_start_request and zb_mac_update_superframe_and_pib with the     *)
(* parameters of zb_panid_conflict_set_panid.                              *)
StartReq(h) == [pan_id |-> h.new, beacon_order |-> 15, superframe_order |-> 15, channel_page |-> 0]
PibUpdated(at, req) ==
  [at EXCEPT !["PanId"] = req.pan_id, !["BeaconOrder"] = req.beacon_order,
             !["SuperframeOrder"] = req.superframe_order, !["CurrentPage"] = req.channel_page]
=============================================================================
