----------------------------- MODULE ChildTable -----------------------------
(***************************************************************************)
(* The children of a coordinator or router (nwk/nwk_cr_join.c,             *)
(* nwk_neighbor.c, the leave primitives of                                 *)
(* nwk_nlme.c, nwk_main.c and zdo_app.c): association, rejoin and orphan   *)
(* service, addresses handed out by the distributed scheme, leaving, the   *)
(* neighbor table with its index by address reference and the extended     *)
(* neighbor table cut out of its upper half during a scan.                 *)
(*                                                                         *)
(* The address translation table is the one of AddrTable, here without its *)
(* search structures.  Security is off: an accepted device is a child at   *)
(* once.  Devices ask for an address.  What the device advertises (the     *)
(* association permit) is not looked at when a device asks, and is in      *)
(* Zdo.                                                                    *)
(*                                                                         *)
(* Where an assertion of the code fails or memory of another structure is  *)
(* read, the model records the fault and stops.                            *)
(***************************************************************************)
EXTENDS Naturals, Integers, Sequences, FiniteSets, SequencesExt, FiniteSetsExt

CONSTANTS
  Dev,            \* devices that may join, by IEEE address
  Caps,           \* capabilities devices join with, of "router", "ed", "sleepy"
  NRef,           \* ZB_IEEE_ADDR_TABLE_SIZE
  Size,           \* ZB_NEIGHBOR_TABLE_SIZE
  MaxChildren, MaxRouters, MaxDepth, Depth,     \* NIB
  OwnAddr,        \* mac_short_address
  LockLimit,      \* 2^w for the w bits of lock_cnt
  ByteLimit,      \* 2^w for the w bits of a zb_uint8_t
  EntBytes, ExtBytes,     \* sizes of the base and extended table entries
  Heard,          \* short addresses of our PAN, not our children's, heard in beacons
  RejoinTableSize,        \* ZB_NWK_REJOIN_REQUEST_TABLE_SIZE
  MaxFlying,      \* bound: commands and callbacks under way
  MaxScans        \* bound: scans

ASSUME ChildAssumption ==
  /\ NRef \in Nat \ {0} /\ Size \in Nat \ {0} /\ LockLimit \in Nat \ {0} /\ ByteLimit \in Nat
  /\ MaxChildren \in Nat /\ MaxChildren < ByteLimit /\ MaxRouters \in 1 .. MaxChildren
  /\ Caps \subseteq {"router", "ed", "sleepy"} /\ MaxDepth \in Nat /\ Depth \in 0 .. MaxDepth - 1
  /\ OwnAddr \in Nat /\ Heard \subseteq Nat /\ RejoinTableSize \in Nat
  /\ EntBytes \in Nat \ {0} /\ ExtBytes \in Nat /\ ExtBytes >= EntBytes

VARIABLES
  addr,       \* addr_map: address reference -> IEEE address, short address, locks
  index,      \* addr_to_neighbor
  nbt,        \* base_neighbor
  nbtUsed,    \* base_neighbor_used
  nbtSize,    \* base_neighbor_size
  ext,        \* extended table: heard short addresses, with its size (0: not started)
  childNum,   \* router_child_num and ed_child_num
  rejoinTab,  \* rejoin_req_table
  flying,     \* responses and commands handed to the MAC, and callbacks for the upper layer
  scans,      \* scans started
  granted,    \* ghost: the address each device believes it has
  freed,      \* ghost: addresses a leave request has made available again
  fault

vars == <<addr, index, nbt, nbtUsed, nbtSize, ext, childNum, rejoinTab, flying, scans, granted, freed, fault>>
tables == <<addr, index, nbt, nbtUsed>>
scan == <<nbtSize, ext, scans>>
devices == <<granted, freed>>

NONE == -1
Ref == 0 .. NRef - 1
Slot == 0 .. Size - 1
IsRouter(cap) == cap = "router"
RxOn(cap) == cap # "sleepy"
NoDev == "none"
ASSUME DevAssumption == NoDev \notin Dev
Unused(l) == [used |-> FALSE, ieee |-> NoDev, short |-> NONE, lock |-> l]
EmptyEnt == [used |-> FALSE, ref |-> NONE, type |-> "none", rxOn |-> FALSE, rel |-> "none"]
Leftover == [EmptyEnt EXCEPT !.type = "leftover"]   \* bytes the extended table left behind
Ok == fault = "none"
MsgKinds == {"assocResp", "rejoinResp", "rejoinRefused", "leaveCmd", "leaveConfirm", "leaveInd"}
Msg(d, s) == [dev |-> d, short |-> s]
UnderWay == FoldSet(LAMBDA k, n : n + Len(flying[k]), 0, MsgKinds)
Sends(k, d, s) == flying' = [flying EXCEPT ![k] = Append(@, Msg(d, s))]
Oldest(k) == Head(flying[k])
Done(k) == flying' = [flying EXCEPT ![k] = Tail(@)]

-----------------------------------------------------------------------------
(* zb_nwk_daa_calc_cskip and the address macros.                           *)

CalcCskip(depth) ==
  LET levels == MaxDepth - depth - 1
      tmp[i \in 0 .. levels] == IF i = 0 THEN 1 ELSE tmp[i - 1] * MaxRouters
  IN  IF MaxRouters = 1 THEN 1 + MaxChildren * levels
      ELSE (MaxChildren * tmp[levels] + MaxRouters - 1 - MaxChildren) \div (MaxRouters - 1)
Cskip == CalcCskip(Depth)
RouterAddress(c) == OwnAddr + c.router * Cskip + 1
EdAddress(c) == OwnAddr + MaxRouters * Cskip + c.ed + 1

(* The scheme gives an address to one device of the PAN.                   *)
ASSUME HeardAssumption ==
  \A r \in 0 .. MaxRouters - 1, e \in 0 .. MaxChildren - 1 :
    RouterAddress([router |-> r, ed |-> e]) \notin Heard /\ EdAddress([router |-> r, ed |-> e]) \notin Heard

-----------------------------------------------------------------------------
(* The address table, reduced to what its callers see.                     *)

ShortSearch(a, s) == {r \in Ref : a[r].used /\ a[r].short = s}
IeeeSearch(a, d) == {r \in Ref : a[r].used /\ a[r].ieee = d}
FreeRefs(a) == {r \in Ref : ~a[r].used}
Least(S) == CHOOSE x \in S : \A y \in S : x <= y
The(S) == CHOOSE x \in S : TRUE

(* addr_add keeps the lock count of the entry it reuses.                   *)
AddrAdd(a, d, s) ==
  IF FreeRefs(a) = {} THEN [ok |-> FALSE, tab |-> a, ref |-> NONE, fault |-> "none"]
  ELSE LET r == Least(FreeRefs(a)) IN
       [ok |-> TRUE, tab |-> [a EXCEPT ![r] = [used |-> TRUE, ieee |-> d, short |-> s, lock |-> a[r].lock]],
        ref |-> r, fault |-> "none"]

AddrDelete(a, r) == [a EXCEPT ![r] = Unused(a[r].lock)]

AddrSet(a, r, d, s) ==
  [ok |-> TRUE, tab |-> [a EXCEPT ![r].ieee = d, ![r].short = s], ref |-> r, fault |-> "none"]

AddrUpdate(a, d, s) ==
  LET S == ShortSearch(a, s)
      L == IeeeSearch(a, d)
  IN  IF S # {} /\ L # {} /\ The(S) # The(L)
      THEN IF a[The(S)].lock = 0 THEN AddrSet(AddrDelete(a, The(S)), The(L), d, s)
           ELSE IF a[The(L)].lock = 0 THEN AddrSet(AddrDelete(a, The(L)), The(S), d, s)
           ELSE [ok |-> FALSE, tab |-> a, ref |-> NONE, fault |-> "conflict"]
      ELSE IF S \cup L # {} THEN AddrSet(a, The(S \cup L), d, s)
      ELSE AddrAdd(a, d, s)

(* zb_address_lock: the count must not come back to zero.                  *)
AddrLock(a, r) == [a EXCEPT ![r].lock = (@ + 1) % LockLimit]
AddrUnlock(a, r) == [a EXCEPT ![r].lock = (@ + LockLimit - 1) % LockLimit]

-----------------------------------------------------------------------------
(* The neighbor table.  T is a record of the tables a handler has changed  *)
(* so far: address table, index, entries, high-water mark, fault.          *)

T0 == [addr |-> addr, index |-> index, nbt |-> nbt, used |-> nbtUsed, fault |-> "none"]
Commit(T) ==
  /\ addr' = T.addr /\ index' = T.index /\ nbt' = T.nbt /\ nbtUsed' = T.used
  /\ fault' = T.fault

(* A plausible slip: the entry is freed and the index still names it.      *)
NeighborDeleteEntryOnly(T, r) ==
  IF T.index[r] = NONE THEN T ELSE [T EXCEPT !.nbt[T.index[r]] = EmptyEnt]

NeighborDelete(T, r) ==
  IF T.index[r] = NONE THEN T
  ELSE [T EXCEPT !.index[r] = NONE, !.nbt[T.index[r]] = EmptyEnt]
ForgetDevice(T, r) ==
  LET N == NeighborDelete(T, r) IN [N EXCEPT !.addr = AddrDelete(N.addr, r)]

NewEnt(r) == [used |-> TRUE, ref |-> r, type |-> "none", rxOn |-> FALSE, rel |-> "none"]

(* zb_nwk_neighbor_get with create_if_absent: the last entry of the table  *)
(* is never given out.                                                     *)
NoRoom(T) == T.used = nbtSize - 1
NeighborCreate(T, r) ==
  LET L == AddrLock(T.addr, r) IN
  [T EXCEPT !.addr = L, !.index[r] = T.used, !.nbt[T.used] = NewEnt(r), !.used = T.used + 1,
            !.fault = IF L[r].lock = 0 THEN "locks" ELSE T.fault]

(* Past that mark the entry would be written behind the table, or into the *)
(* extended one.                                                           *)
NeighborAdd(T, r) == IF T.used >= nbtSize THEN [T EXCEPT !.fault = "overrun"] ELSE NeighborCreate(T, r)

NeighborByIeee(T, d) == {r \in IeeeSearch(T.addr, d) : T.index[r] # NONE}
NeighborByShort(T, s) == {r \in ShortSearch(T.addr, s) : T.index[r] # NONE}
Ent(T, r) == T.nbt[T.index[r]]

-----------------------------------------------------------------------------
(* zb_nwk_accept_child.                                                    *)

CapMatches(e, cap) == (e.type = "router") = IsRouter(cap) /\ e.rxOn = RxOn(cap)

(* Room for one more child of this kind.                                   *)
HasRoom(cap) ==
  /\ MaxChildren > childNum.ed + childNum.router
  /\ Depth < MaxDepth
  /\ IsRouter(cap) => childNum.router < MaxRouters

Marked(T, r, cap) ==
  [T EXCEPT !.nbt[T.index[r]].type = IF IsRouter(cap) THEN "router" ELSE "ed",
            !.nbt[T.index[r]].rxOn = RxOn(cap), !.nbt[T.index[r]].rel = "child"]

(* The address entry is locked by the update and again by the neighbor.    *)
Enter(T, d, a) ==
  LET U == AddrUpdate(T.addr, d, a)
      L == IF U.ok THEN AddrLock(U.tab, U.ref) ELSE U.tab
      N == [T EXCEPT !.addr = L, !.fault = IF U.fault # "none" THEN U.fault
                                            ELSE IF U.ok /\ L[U.ref].lock = 0 THEN "locks" ELSE "none"]
  IN  IF ~U.ok THEN [ok |-> FALSE, ref |-> NONE, tables |-> N]
      ELSE IF N.index[U.ref] # NONE THEN [ok |-> TRUE, ref |-> U.ref, tables |-> N]
      ELSE IF NoRoom(N)
           THEN [ok |-> FALSE, ref |-> NONE, tables |-> [N EXCEPT !.addr = AddrUnlock(L, U.ref)]]
      ELSE [ok |-> TRUE, ref |-> U.ref, tables |-> NeighborAdd(N, U.ref)]

(* A plausible slip: the counters are mixed up.                            *)
CountedAsEd(cap) == [childNum EXCEPT !.ed = @ + 1]
Counted(cap) ==
  IF IsRouter(cap) THEN [childNum EXCEPT !.router = @ + 1] ELSE [childNum EXCEPT !.ed = @ + 1]

(* The answer: whether the child is accepted, its address, the tables.     *)
Accept(d, cap) ==
  LET K == NeighborByIeee(T0, d)
      same == {r \in K : CapMatches(Ent(T0, r), cap)}
      T == IF K # {} THEN NeighborDelete(T0, The(K)) ELSE T0
      a == IF IsRouter(cap) THEN RouterAddress(childNum) ELSE EdAddress(childNum)
  IN  IF same # {}
      THEN [ok |-> TRUE, short |-> addr[The(same)].short, num |-> childNum,
            tables |-> Marked(T0, The(same), cap)]
      ELSE IF ~HasRoom(cap) THEN [ok |-> FALSE, short |-> NONE, num |-> childNum, tables |-> T]
      ELSE LET E == Enter(T, d, a) IN
           [ok |-> E.ok, short |-> IF E.ok THEN a ELSE NONE, num |-> Counted(cap),
            tables |-> IF E.ok /\ E.tables.fault = "none" THEN Marked(E.tables, E.ref, cap) ELSE E.tables]

AcceptChild(R) ==
  /\ Commit(R.tables)
  /\ childNum' = R.num

(* A device that asks to join is on no network until it is answered.       *)
JoinsAnew(d) == granted' = [granted EXCEPT ![d] = NONE]

AssociateIndication(d, cap) ==
  /\ Ok /\ UnderWay < MaxFlying
  /\ \E R \in {Accept(d, cap)} :
     /\ AcceptChild(R)
     /\ Sends("assocResp", d, R.short)
  /\ JoinsAnew(d)
  /\ UNCHANGED <<scan, rejoinTab, freed>>

RejoinRequest(d, cap) ==
  /\ Ok /\ UnderWay < MaxFlying
  /\ Len(rejoinTab) < RejoinTableSize
  /\ \E R \in {Accept(d, cap)} :
     /\ AcceptChild(R)
     /\ Sends(IF R.ok THEN "rejoinResp" ELSE "rejoinRefused", d, R.short)
     /\ rejoinTab' = IF R.ok THEN Append(rejoinTab, R.short) ELSE rejoinTab
  /\ JoinsAnew(d)
  /\ UNCHANGED <<scan, freed>>

-----------------------------------------------------------------------------
(* A response reaches the device or not, whatever status is reported, but  *)
(* success means that it was acknowledged.                                 *)
Outcomes == {[status |-> "success", arrived |-> TRUE], [status |-> "failed", arrived |-> TRUE],
             [status |-> "failed", arrived |-> FALSE]}
Receives(m, o) ==
  granted' = IF o.arrived /\ m.short # NONE THEN [granted EXCEPT ![m.dev] = m.short] ELSE granted

(* A plausible slip: the place of a failed child is given free too.        *)
GivesPlace(m) ==
  IF m.short = EdAddress(childNum) - 1 THEN [childNum EXCEPT !.ed = @ - 1] ELSE childNum
NumAfterFailure(m) == childNum

(* zb_mlme_comm_status_indication after an associate response.  A failure  *)
(* removes the device, but the counters keep its place.                    *)
CommStatusIndication(o) ==
  /\ Ok /\ flying["assocResp"] # <<>> /\ Done("assocResp")
  /\ LET m == Oldest("assocResp")
         K == NeighborByIeee(T0, m.dev)
     IN  /\ Receives(m, o)
         /\ IF o.status = "failed" /\ K # {}
            THEN Commit(ForgetDevice(T0, The(K))) /\ childNum' = NumAfterFailure(m)
            ELSE UNCHANGED <<tables, childNum, fault>>
  /\ UNCHANGED <<scan, rejoinTab, freed>>

(* The same indication for a frame that a sleeping child did not poll for. *)
IndirectExpired(r) ==
  /\ Ok /\ addr[r].used /\ index[r] # NONE /\ Ent(T0, r).rel = "child" /\ ~Ent(T0, r).rxOn
  /\ Commit(ForgetDevice(T0, The(NeighborByShort(T0, addr[r].short))))
  /\ UNCHANGED <<scan, childNum, rejoinTab, flying, devices>>

(* zb_nlme_rejoin_resp_sent takes the newest table entry, whichever        *)
(* response was sent; the status is not looked at.                         *)
RejoinRespSent(o) ==
  /\ Ok /\ flying["rejoinResp"] # <<>> /\ Done("rejoinResp")
  /\ Receives(Oldest("rejoinResp"), o)
  /\ IF rejoinTab # <<>> /\ ShortSearch(addr, Last(rejoinTab)) # {}
     THEN /\ rejoinTab' = Front(rejoinTab)
          /\ fault' = IF NeighborByShort(T0, Last(rejoinTab)) = {} THEN "rejoinEnt" ELSE "none"
     ELSE fault' = "rejoinTab" /\ UNCHANGED rejoinTab
  /\ UNCHANGED <<tables, scan, childNum, freed>>

RejoinRefusedSent ==
  /\ Ok /\ flying["rejoinRefused"] # <<>> /\ Done("rejoinRefused")
  /\ UNCHANGED <<tables, scan, childNum, rejoinTab, devices, fault>>

(* zb_mlme_orphan_indication: a child gets its address again.              *)
OrphanIndication(d) ==
  /\ Ok
  /\ \E r \in NeighborByIeee(T0, d) :
       /\ Ent(T0, r).rel = "child"
       /\ granted' = [granted EXCEPT ![d] = addr[r].short]
  /\ UNCHANGED <<tables, scan, childNum, rejoinTab, flying, freed, fault>>

-----------------------------------------------------------------------------
(* Leaving.  zb_nlme_leave_request for a child: if the child has the last  *)
(* end device address, the address becomes free at once.                   *)

FreesAddress(s) == s = EdAddress(childNum) - 1

LeaveRequest(d) ==
  /\ Ok /\ UnderWay < MaxFlying
  /\ \E r \in NeighborByIeee(T0, d) :
       /\ Ent(T0, r).rel = "child"
       /\ IF FreesAddress(addr[r].short)
          THEN childNum' = [childNum EXCEPT !.ed = (@ + ByteLimit - 1) % ByteLimit] /\ freed' = freed \cup {addr[r].short}
          ELSE UNCHANGED <<childNum, freed>>
       /\ Sends("leaveCmd", d, addr[r].short)
  /\ UNCHANGED <<tables, scan, rejoinTab, granted, fault>>

(* zb_mcps_data_confirm finds the device from the short address the        *)
(* command was sent to.                                                    *)
LeaveCmdSent(arrived) ==
  /\ Ok /\ flying["leaveCmd"] # <<>>
  /\ LET m == Oldest("leaveCmd")
         S == ShortSearch(addr, m.short)
     IN  /\ granted' = IF arrived /\ granted[m.dev] = m.short THEN [granted EXCEPT ![m.dev] = NONE] ELSE granted
         /\ flying' = [flying EXCEPT !["leaveCmd"] = Tail(@),
                         !["leaveConfirm"] = Append(@, Msg(IF S = {} THEN NoDev ELSE addr[The(S)].ieee, NONE))]
  /\ UNCHANGED <<tables, scan, childNum, rejoinTab, freed, fault>>

(* zb_nlme_leave_confirm: the child is removed from the neighbor table and *)
(* keeps its address entry.                                                *)
LeaveConfirm ==
  /\ Ok /\ flying["leaveConfirm"] # <<>> /\ Done("leaveConfirm")
  /\ LET K == NeighborByIeee(T0, Oldest("leaveConfirm").dev) IN
     Commit(IF K = {} THEN [T0 EXCEPT !.fault = "leaveEnt"] ELSE NeighborDelete(T0, The(K)))
  /\ UNCHANGED <<scan, childNum, rejoinTab, devices>>

(* A device announces that it leaves: zb_nwk_leave_handler, which knows it *)
(* by its short address.                                                   *)
LeaveHandler(d) ==
  /\ Ok /\ UnderWay < MaxFlying /\ granted[d] # NONE
  /\ LET S == ShortSearch(addr, granted[d]) IN
     IF S = {} THEN UNCHANGED <<addr, flying>>
     ELSE IF index[The(S)] = NONE THEN addr' = AddrDelete(addr, The(S)) /\ UNCHANGED flying
     ELSE Sends("leaveInd", addr[The(S)].ieee, NONE) /\ UNCHANGED addr
  /\ granted' = [granted EXCEPT ![d] = NONE]
  /\ UNCHANGED <<index, nbt, nbtUsed, scan, childNum, rejoinTab, freed, fault>>

LeaveIndication ==
  /\ Ok /\ flying["leaveInd"] # <<>> /\ Done("leaveInd")
  /\ LET K == NeighborByIeee(T0, Oldest("leaveInd").dev) IN
     Commit(IF K = {} THEN T0 ELSE ForgetDevice(T0, The(K)))
  /\ UNCHANGED <<scan, childNum, rejoinTab, devices>>

-----------------------------------------------------------------------------
(* The extended table.  zb_nwk_exneighbor_start packs the base table; the  *)
(* count of holes goes down with every entry moved.                        *)

PackStep(p, i) ==
  IF p.seen >= nbtUsed \/ p.fault # "none" THEN p
  ELSE IF p.nbt[i] = Leftover THEN [p EXCEPT !.fault = "leftover"]
  ELSE IF ~p.nbt[i].used THEN [p EXCEPT !.hole = @ + 1]
  ELSE IF p.hole = 0 THEN [p EXCEPT !.seen = @ + 1]
  ELSE [p EXCEPT !.seen = @ + 1, !.hole = @ - 1, !.index[p.nbt[i].ref] = i - p.hole,
                 !.nbt = [@ EXCEPT ![i - p.hole] = p.nbt[i], ![i] = EmptyEnt]]
Packed ==
  LET packed[i \in 0 .. nbtSize] ==
        IF i = 0 THEN [index |-> index, nbt |-> nbt, hole |-> 0, seen |-> 0, fault |-> "none"]
        ELSE PackStep(packed[i - 1], i - 1)
  IN  packed[nbtSize]

(* Half of the table, or what the high-water mark leaves.                  *)
Cut == IF nbtUsed > nbtSize - nbtSize \div 2 THEN nbtSize - nbtUsed ELSE nbtSize \div 2
RoundTo4(n) == ((n + 3) \div 4) * 4
Offset(size) == RoundTo4(size * EntBytes)
ExtSizeFor(size, cut) == (cut * EntBytes - (Offset(size) - size * EntBytes)) \div ExtBytes

ExneighborStart ==
  /\ Ok /\ ext.size = 0 /\ scans < MaxScans
  /\ nbtSize' = nbtSize - Cut
  /\ ext' = [size |-> ExtSizeFor(nbtSize - Cut, Cut), seq |-> <<>>]
  /\ \E p \in {Packed} :
       /\ index' = p.index /\ nbt' = p.nbt
       /\ fault' = IF p.fault # "none" THEN p.fault
                   ELSE IF Offset(nbtSize - Cut) >= ByteLimit THEN "offset"
                   ELSE IF ExtSizeFor(nbtSize - Cut, Cut) <= 0 THEN "noExt" ELSE "none"
  /\ scans' = scans + 1
  /\ UNCHANGED <<addr, nbtUsed, childNum, rejoinTab, flying, devices>>

(* zb_nwk_exneighbor_by_short: a new address takes a new entry.  Beacons    *)
(* of our PAN come from other routers and from devices that were given a   *)
(* router address.                                                         *)
Beaconing == Heard \cup {granted[d] : d \in {e \in Dev : granted[e] \in 1 .. OwnAddr + MaxRouters * Cskip}}
BeaconHeard(s) ==
  /\ Ok /\ ext.size > 0
  /\ s \notin Range(ext.seq) /\ Len(ext.seq) < ext.size
  /\ ext' = [ext EXCEPT !.seq = Append(@, s)]
  /\ UNCHANGED <<tables, nbtSize, scans, childNum, rejoinTab, flying, devices, fault>>

(* zb_nwk_exneighbor_stop: devices of our PAN become neighbors, as far as  *)
(* the base table has grown back over the entries already copied.          *)
Grown(i) == nbtSize + ((i - 1) * ExtBytes) \div EntBytes
Copy(T, i) ==
  LET s == ext.seq[i]
      A == IF ShortSearch(T.addr, s) # {}
           THEN [ok |-> TRUE, tab |-> T.addr, ref |-> The(ShortSearch(T.addr, s))]
           ELSE AddrAdd(T.addr, NoDev, s)
      N == [T EXCEPT !.addr = A.tab]
  IN  IF ~A.ok THEN N
      ELSE IF N.index[A.ref] # NONE
           THEN IF Ent(N, A.ref).type = "none" THEN [N EXCEPT !.nbt[N.index[A.ref]].type = "router"] ELSE N
      ELSE IF N.used >= Grown(i) THEN N
      ELSE [N EXCEPT !.index[A.ref] = N.used, !.used = @ + 1,
                     !.nbt[N.used] = [NewEnt(A.ref) EXCEPT !.type = "router", !.rxOn = TRUE]]

CopiedAll ==
  LET copied[i \in 0 .. Len(ext.seq)] == IF i = 0 THEN T0 ELSE Copy(copied[i - 1], i)
  IN  copied[Len(ext.seq)]

LeftBehind(T) ==
  [T EXCEPT !.nbt = [i \in Slot |-> IF i >= nbtSize /\ i >= T.used THEN Leftover ELSE T.nbt[i]]]

ExneighborStop(joined) ==
  /\ Ok /\ ext.size > 0
  /\ Commit(LeftBehind(IF joined THEN CopiedAll ELSE T0))
  /\ nbtSize' = Size
  /\ ext' = [size |-> 0, seq |-> <<>>]
  /\ UNCHANGED <<scans, childNum, rejoinTab, flying, devices>>

-----------------------------------------------------------------------------

Init ==
  /\ addr = [r \in Ref |-> Unused(0)] /\ index = [r \in Ref |-> NONE]
  /\ nbt = [i \in Slot |-> EmptyEnt] /\ nbtUsed = 0 /\ nbtSize = Size
  /\ ext = [size |-> 0, seq |-> <<>>] /\ scans = 0
  /\ childNum = [router |-> 0, ed |-> 0]
  /\ rejoinTab = <<>> /\ flying = [k \in MsgKinds |-> <<>>]
  /\ granted = [d \in Dev |-> NONE] /\ freed = {} /\ fault = "none"

Next ==
  \/ \E d \in Dev, cap \in Caps : AssociateIndication(d, cap) \/ RejoinRequest(d, cap)
  \/ \E o \in Outcomes : CommStatusIndication(o) \/ RejoinRespSent(o)
  \/ RejoinRefusedSent
  \/ \E r \in Ref : IndirectExpired(r)
  \/ \E d \in Dev : OrphanIndication(d) \/ LeaveRequest(d) \/ LeaveHandler(d)
  \/ \E arrived \in BOOLEAN : LeaveCmdSent(arrived)
  \/ LeaveConfirm \/ LeaveIndication
  \/ ExneighborStart
  \/ \E s \in Beaconing : BeaconHeard(s)
  \/ \E joined \in BOOLEAN : ExneighborStop(joined)

Spec == Init /\ [][Next]_vars

-----------------------------------------------------------------------------
(* Type correctness of the tables, counters and messages of the parent.    *)
TypeOK ==
  /\ \A r \in Ref : addr[r].ieee \in Dev \cup {NoDev} /\ addr[r].lock \in 0 .. LockLimit - 1
  /\ index \in [Ref -> Slot \cup {NONE}]
  /\ nbtUsed \in 0 .. Size /\ nbtSize \in 0 .. Size
  /\ childNum \in [router : 0 .. MaxRouters, ed : 0 .. ByteLimit - 1]
  /\ DOMAIN flying = MsgKinds
  /\ Len(rejoinTab) <= RejoinTableSize

(* After any sequence of joins, leaves, failures and scans (which pack the *)
(* table with a decreasing count of holes and cut it in two), the index    *)
(* names a live entry below the high-water mark, outside the extended      *)
(* table, that names the same address entry, and that entry is in use.     *)
IndexSound ==
  Ok => \A r \in Ref : index[r] # NONE =>
          /\ index[r] < nbtUsed /\ nbtUsed <= nbtSize
          /\ nbt[index[r]].used /\ nbt[index[r]].ref = r
          /\ addr[r].used

(* What the neighbor table keeps (nwk_neighbor.c).                         *)
TablesSound == TypeOK /\ IndexSound

(* Two devices hold the same address only if a leave request gave it free: *)
(* responses get lost after or before they arrive, the parent forgets      *)
(* devices, devices rejoin in another role, and the address counters never *)
(* hand out an address twice for that.                                     *)
AddressesDistinct ==
  \A d, e \in Dev : d # e /\ granted[d] # NONE /\ granted[d] = granted[e] => granted[d] \in freed

(* Every child in the neighbor table has a place in the counters that      *)
(* limit joining, except end devices whose address was given free: with    *)
(* the bounds on the counters, never more children than the NIB allows,    *)
(* whatever was rejoined in another role, lost or half removed.  On the    *)
(* deepest level with children (Cskip = 1) the leave of the last router    *)
(* takes ed_child_num below 0 (nwk_nlme.c:192): its sum is excluded.       *)
Children(kind) == {i \in Slot : nbt[i].used /\ nbt[i].rel = "child" /\ nbt[i].type = kind}
ChildrenCounted ==
  Ok => /\ Cardinality(Children("router")) <= childNum.router
        /\ Cardinality({i \in Children("ed") : addr[nbt[i].ref].short \notin freed}) <= childNum.ed
        /\ childNum.router <= MaxRouters
        /\ Cskip > 1 => childNum.router + childNum.ed <= MaxChildren
=============================================================================
