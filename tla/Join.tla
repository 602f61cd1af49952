-------------------------------- MODULE Join --------------------------------
(***************************************************************************)
(* A device starting up (zdo/zdo_app.c, nwk/nwk_discovery.c, nwk_join.c,   *)
(* nwk_nlme.c, nwk_formation.c, nwk_cr_formation.c, mac/mac_scan.c,        *)
(* mac_associate.c, mac_routines.c): formation of a network, or scan,      *)
(* choice of a parent and association, rejoin or orphan scan, start as a   *)
(* router, the announcement and the report to the application; afterwards  *)
(* the polls of a sleepy device, loss of the parent, leaving with or       *)
(* without rejoin, and reset.                                              *)
(*                                                                         *)
(* All procedures share one state of the NWK handle and hand one buffer    *)
(* from callback to callback.  A callback carries what is in its buffer;   *)
(* the queue of callbacks is the one of the scheduler.  Security is off.   *)
(* The parents' side is ChildTable; here a parent answers or does not.     *)
(*                                                                         *)
(* Where an assertion of the code fails, a null pointer is followed or a   *)
(* second continuation of a procedure starts, the model records the fault  *)
(* and stops.                                                              *)
(***************************************************************************)
EXTENDS Naturals, Sequences, FiniteSets, SequencesExt

CONSTANTS
  Node,         \* routers and coordinators around the device
  PanOf, ChanOf, DepthOf, LqiOf,     \* what their beacons say
  Offer,        \* the capacities each node's beacons may advertise: subsets of {"permit", "router", "ed"}
  Roles,        \* configurations: of "coordinator", "router", "rxOn" and "sleepy" end devices
  GoodLqi,      \* ZB_LINK_QUALITY_IS_OK_FOR_JOIN
  ScanAttempts, \* ZB_ZDO_NWK_SCAN_ATTEMPTS
  RetryLimit,   \* max_parent_threshold_retry
  InsecureJoin, \* aps_insecure_join
  MaxEvents,    \* bound: leaves, losses of the parent, failed polls, ED scans, orphan joins, resets
  NoPan, NoNode

ASSUME JoinAssumption ==
  /\ NoNode \notin Node /\ \A n \in Node : PanOf[n] # NoPan /\ ChanOf[n] \in Nat /\ DepthOf[n] \in Nat /\ LqiOf[n] \in Nat
  /\ Roles \subseteq {"coordinator", "router", "rxOn", "sleepy"} /\ ScanAttempts \in Nat \ {0} /\ RetryLimit \in Nat \ {0}
  /\ \A n \in Node : \A o \in Offer[n] : o \subseteq {"permit", "router", "ed"} /\ InsecureJoin \in BOOLEAN

VARIABLES
  role,         \* how the device is built and configured
  devType,      \* device type of the NIB
  useExt,       \* aps_use_extended_pan_id
  extPan,       \* nwkExtendedPANId
  zdo,          \* ZDO handle: started, rejoin, disc_count, parent_threshold_retry, inside_poll, dev_annce
  state,        \* state of the NWK handle
  nwk,          \* NWK handle: joined, parent, router_started
  ext,          \* extended neighbor table
  marked,       \* neighbors with the relationship PARENT
  pans,         \* PAN id translation table
  ieee,         \* neighbors whose IEEE address is known
  saved,        \* saved_req.join and tmp.join
  rejoin,       \* tmp.rejoin
  cbq,          \* scheduled callbacks
  alarms,       \* scheduled alarms
  scan,         \* MAC scan: type, unscanned_channels, channel, mlme_scan_in_progress
  mac,          \* requests the MAC or the layers below are working on
  answers,      \* nodes that have a rejoin request of ours
  asked,        \* ghost: parents asked since the join was requested, with the role asked for
  acceptedAs,   \* ghost: role in which a parent last accepted the device
  report,       \* ghost: last report to the application
  pending,      \* ghost: a start, or a rejoin, has not been reported yet
  lost,         \* ghost: the layers below have dropped the request being worked on
  events,       \* number of events that happened to the device
  fault

vars == <<role, devType, useExt, extPan, zdo, state, nwk, ext, marked, pans, ieee, saved, rejoin, cbq, alarms, scan,
          mac, answers, asked, acceptedAs, report, pending, lost, events, fault>>
config == <<role, devType, useExt, extPan>>
neighbors == <<ext, marked, pans, ieee>>
requests == <<saved, rejoin, asked, acceptedAs>>
below == <<alarms, scan, mac, answers>>
ghosts == <<report, pending, lost, events, fault>>

Chans == {ChanOf[n] : n \in Node}
Pans == {PanOf[n] : n \in Node}
ScanStates == {"disc", "formationEd", "formationActive", "edScan", "orphan"}
States == ScanStates \cup {"idle", "formation", "router", "rejoin", "reset"}
JoinReq(method, pan, asRouter) == [method |-> method, pan |-> pan, asRouter |-> asRouter]
NoReq == JoinReq("none", NoPan, FALSE)

RxOn == role # "sleepy"
Ok == fault = "none"
Least(S) == CHOOSE x \in S : \A y \in S : x <= y

-----------------------------------------------------------------------------
(* The scheduler: a callback takes the buffer of the one that scheduled it.*)

Cb(fn, arg) == [fn |-> fn, arg |-> arg]
Calls(fn) == Ok /\ cbq # <<>> /\ Head(cbq).fn = fn
Arg == Head(cbq).arg
Then(s) == cbq' = Tail(cbq) \o s
Schedules(fn, arg) == cbq' = Append(cbq, Cb(fn, arg))
Idle == Ok /\ cbq = <<>>
Rings(a) == Idle /\ a \in alarms
Scheduled(fns) == Len(SelectSeq(cbq, LAMBDA c : c.fn \in fns))
Count(b) == IF b THEN 1 ELSE 0
Happens == Ok /\ events < MaxEvents /\ events' = events + 1

-----------------------------------------------------------------------------
(* The extended neighbor table.                                            *)

Entry(n, o, isEd) ==
  [node |-> n, offer |-> o,
   potential |-> "permit" \in o /\ (IF isEd THEN "ed" ELSE "router") \in o]
Listed(n) == \E i \in DOMAIN ext : ext[i].node = n
Heard(n, o) ==
  LET e == Entry(n, o, devType = "ed" \/ role \in {"rxOn", "sleepy"})
  IN  IF Listed(n) THEN [i \in DOMAIN ext |-> IF ext[i].node = n THEN e ELSE ext[i]] ELSE Append(ext, e)

(* A plausible slip: a parent that failed stays a candidate.               *)
StillPotential(t, n) == t

NotPotential(t, n) == [i \in DOMAIN t |-> IF t[i].node = n THEN [t[i] EXCEPT !.potential = FALSE] ELSE t[i]]
AllPotential(t) == [i \in DOMAIN t |-> [t[i] EXCEPT !.potential = TRUE]]

Suitable(e, pan, asRouter) ==
  /\ PanOf[e.node] = pan /\ e.potential /\ "permit" \in e.offer
  /\ (IF asRouter THEN "router" ELSE "ed") \in e.offer
  /\ LqiOf[e.node] >= GoodLqi

(* nwk_choose_parent: the last one that is nearer to the coordinator and   *)
(* not heard worse than the one found before.                              *)
ChooseParent(t, pan, asRouter) ==
  FoldLeft(LAMBDA best, e :
             IF ~Suitable(e, pan, asRouter) THEN best
             ELSE IF best # NoNode /\ (DepthOf[e.node] >= DepthOf[best] \/ LqiOf[best] > LqiOf[e.node]) THEN best
             ELSE e.node,
           NoNode, t)

(* zb_nwk_exneighbor_stop: the table ends with the search for a parent.    *)
ExneighborStop == ext' = <<>>

(* The PANs found: those of coordinators first, each once.                 *)
PanList(t) ==
  LET add(s, p) == IF p \in {s[i] : i \in DOMAIN s} THEN s ELSE Append(s, p)
      first == FoldLeft(LAMBDA s, e : IF DepthOf[e.node] = 0 THEN add(s, PanOf[e.node]) ELSE s, <<>>, t)
  IN  FoldLeft(LAMBDA s, e : add(s, PanOf[e.node]), first, t)

-----------------------------------------------------------------------------
(* Start.                                                                  *)

NoScan == [type |-> "none", left |-> {}, chan |-> 0, on |-> FALSE]

Init ==
  /\ role \in Roles /\ devType = "none" /\ extPan = NoPan
  /\ useExt \in IF role = "coordinator" THEN {NoPan} ELSE {NoPan, PanOf[CHOOSE n \in Node : DepthOf[n] = 0]}
  /\ zdo = [started |-> FALSE, rejoin |-> FALSE, discCount |-> 0, retry |-> 0, insidePoll |-> FALSE, annce |-> 0]
  /\ state = "idle" /\ nwk = [joined |-> FALSE, parent |-> NoNode, routerStarted |-> FALSE]
  /\ ext = <<>> /\ marked = {} /\ pans = {} /\ ieee = {}
  /\ saved = [req |-> NoReq, parent |-> NoNode] /\ rejoin = [req |-> NoReq, parent |-> NoNode]
  /\ cbq = <<Cb("devStart", "none")>> /\ alarms = {} /\ scan = NoScan
  /\ mac = [assoc |-> FALSE, cmds |-> 0, poll |-> FALSE, annces |-> {}] /\ answers = {}
  /\ asked = {} /\ acceptedAs = "none" /\ report = "none" /\ pending = FALSE /\ lost = FALSE
  /\ events = 0 /\ fault = "none"

(* Router builds turn an undefined device type into a router.              *)
AsStarted == IF role \in {"router", "coordinator"} /\ devType = "none" THEN "router" ELSE devType

(* zdo_initiate_rejoin, with ZDO handle z and the callbacks q scheduled    *)
(* before.                                                                 *)
InitiateRejoin(z, q, pan) ==
  /\ zdo' = [z EXCEPT !.started = FALSE, !.rejoin = TRUE]
  /\ useExt' = pan /\ devType' = AsStarted /\ nwk' = [nwk EXCEPT !.joined = FALSE]
  /\ cbq' = Append(q, Cb("joinRequest", JoinReq("rejoin", pan, AsStarted = "router" /\ devType = "none")))
  /\ pending' = TRUE /\ asked' = {}

DevStart ==
  /\ Calls("devStart")
  /\ \/ /\ role = "coordinator"
        /\ Then(<<Cb("formationRequest", "none")>>)
        /\ pending' = TRUE
        /\ UNCHANGED <<config, zdo, nwk, asked>>
     \/ /\ role # "coordinator" /\ useExt # NoPan
        /\ InitiateRejoin(zdo, Tail(cbq), useExt)
        /\ UNCHANGED <<role, extPan>>
     \/ /\ role # "coordinator" /\ useExt = NoPan
        /\ devType' = AsStarted
        /\ zdo' = [zdo EXCEPT !.discCount = ScanAttempts]
        /\ Then(<<Cb("discoveryRequest", "none")>>)
        /\ pending' = TRUE /\ asked' = {}
        /\ UNCHANGED <<role, useExt, extPan, nwk>>
  /\ UNCHANGED <<state, neighbors, saved, rejoin, acceptedAs, below, report, lost, events, fault>>

-----------------------------------------------------------------------------
(* Scans.  Beacons reach the NWK layer while a channel is being listened   *)
(* to; the layer takes them in during discovery and rejoin only.           *)

DiscoveryRequest ==
  /\ Calls("discoveryRequest")
  /\ IF state = "idle"
     THEN state' = "disc" /\ Then(<<Cb("scanRequest", "active")>>)
     ELSE \* RET_BUSY: the confirm reads whatever its buffer holds
          \E p \in {<<>>, <<NoPan>>} : Then(<<Cb("discoveryConfirm", p)>>) /\ UNCHANGED state
  /\ UNCHANGED <<config, zdo, nwk, neighbors, requests, below, ghosts>>

ScanRequest ==
  /\ Calls("scanRequest")
  /\ Then(<<IF scan.on THEN Cb("scanConfirm", "ok") ELSE Cb("handleScan", Arg)>>)
  /\ UNCHANGED <<config, zdo, state, nwk, neighbors, requests, below, ghosts>>

HandleScanRequest ==
  /\ Calls("handleScan")
  /\ scan' = [type |-> Arg, left |-> Chans, chan |-> 0, on |-> scan.on]
  /\ IF Arg = "active" THEN Then(<<Cb("scanStep", "none")>>) /\ UNCHANGED alarms
                       ELSE Then(<<>>) /\ alarms' = alarms \cup {"scanStep"}
  /\ UNCHANGED <<config, zdo, state, nwk, neighbors, requests, mac, answers, ghosts>>

NextChannel == Least(scan.left)

(* The status of the confirm matters after an orphan scan only.            *)
StepOfScan ==
  IF scan.left # {}
  THEN /\ scan' = [scan EXCEPT !.on = TRUE, !.chan = NextChannel, !.left = @ \ {Least(scan.left)}]
       /\ alarms' = alarms \cup {"scanStep"}
  ELSE /\ scan' = NoScan
       /\ alarms' = alarms \ {"scanStep"}
(* An exchange of the MAC is over before the time of a channel is.         *)
ScanStep ==
  /\ Calls("scanStep") \/ (Rings("scanStep") /\ mac.cmds = 0 /\ ~mac.poll)
  /\ LET q == IF cbq = <<>> THEN <<>> ELSE Tail(cbq)
     IN  IF scan.left # {} THEN cbq' = q
         ELSE \E st \in IF scan.type = "orphan" THEN {"ok", "noBeacon"} ELSE {"ok"} : cbq' = Append(q, Cb("scanConfirm", st))
  /\ StepOfScan
  /\ UNCHANGED <<config, zdo, state, nwk, neighbors, requests, mac, answers, ghosts>>

BeaconNotify(n, o) ==
  /\ Idle /\ scan.on /\ scan.type = "active" /\ scan.chan = ChanOf[n]
  /\ state = "disc" \/ (state = "rejoin" /\ PanOf[n] = rejoin.req.pan)
  /\ ext' = Heard(n, o) /\ pans' = pans \cup {PanOf[n]}
  /\ UNCHANGED <<config, zdo, state, nwk, marked, ieee, requests, cbq, below, ghosts>>

(* zb_mlme_scan_confirm for a discovery: scan again after a while, or      *)
(* report the networks.                                                    *)
DiscLeft == IF zdo.discCount > 0 THEN zdo.discCount - 1 ELSE 0
ScanConfirmDisc ==
  /\ Calls("scanConfirm") /\ state = "disc"
  /\ zdo' = [zdo EXCEPT !.discCount = DiscLeft]
  /\ state' = "idle"
  /\ IF DiscLeft > 0 THEN Then(<<>>) /\ alarms' = alarms \cup {"discovery"}
                     ELSE Then(<<Cb("discoveryConfirm", PanList(ext))>>) /\ UNCHANGED alarms
  /\ UNCHANGED <<config, nwk, neighbors, requests, scan, mac, answers, ghosts>>

DiscoveryAlarm ==
  /\ Rings("discovery")
  /\ alarms' = alarms \ {"discovery"} /\ Schedules("discoveryRequest", "none")
  /\ UNCHANGED <<config, zdo, state, nwk, neighbors, requests, scan, mac, answers, ghosts>>

Startup(st) == Cb("startupComplete", st)
Confirm(st) == Cb("joinConfirm", st)

(* No channel is above the accepted level: the MAC fills in no energies.   *)
FormationEdScanConfirm ==
  Then(<<Cb("scanRequest", "active")>>) /\ state' = "formationActive" /\ UNCHANGED <<devType, fault>>

(* Beacons are not taken in during this scan: no channel is occupied.      *)
FormationSelectChannel ==
  Then(<<Cb("startRequest", "none")>>) /\ state' = "formation" /\ devType' = "coordinator" /\ UNCHANGED fault

ScanConfirmOther ==
  /\ Calls("scanConfirm") /\ state \notin {"disc", "rejoin"}
  /\ CASE state = "edScan" -> Then(<<>>) /\ state' = "idle" /\ UNCHANGED <<devType, fault>>
       [] state = "formationEd" -> FormationEdScanConfirm
       [] state = "formationActive" -> FormationSelectChannel
       [] state = "orphan" ->
            Then(<<Confirm(IF Arg = "ok" THEN "ok" ELSE "noNetworks")>>) /\ state' = "idle" /\ UNCHANGED <<devType, fault>>
       [] OTHER -> fault' = "assert" /\ UNCHANGED <<cbq, state, devType>>
  /\ UNCHANGED <<role, useExt, extPan, zdo, nwk, neighbors, requests, below, report, pending, lost, events>>

(* zb_nlme_ed_scan_request.  It does not look at the state: the model lets *)
(* a network manager ask of a device that has reported its start.          *)
EdScanRequest ==
  /\ Happens /\ cbq = <<>> /\ state = "idle" /\ nwk.joined /\ ~pending /\ devType # "none"
  /\ state' = "edScan" /\ Schedules("scanRequest", "ed")
  /\ UNCHANGED <<config, zdo, nwk, neighbors, requests, below, report, pending, lost, fault>>

-----------------------------------------------------------------------------
(* Joining by association.                                                 *)

DiscoveryConfirm ==
  /\ Calls("discoveryConfirm")
  /\ LET fits == {i \in DOMAIN Arg : useExt = NoPan \/ Arg[i] = useExt}
     IN  Then(<<IF fits = {} THEN Startup("fail")
                ELSE Cb("joinRequest", JoinReq("association", Arg[Least(fits)],
                          role = "router" /\ devType \in {"none", "router"}))>>)
  /\ asked' = {}
  /\ UNCHANGED <<config, zdo, state, nwk, neighbors, saved, rejoin, acceptedAs, below, ghosts>>

(* nwk_association_join on table t for request r; otherwise callback c is  *)
(* scheduled.                                                              *)
CanJoin(t, r) == ~nwk.joined /\ r.pan \in pans /\ ChooseParent(t, r.pan, r.asRouter) # NoNode
AssociationJoin(t, r, c) ==
  IF CanJoin(t, r)
  THEN \E best \in {ChooseParent(t, r.pan, r.asRouter)} :
         /\ saved' = [req |-> r, parent |-> best]
         /\ asked' = asked \cup {<<best, r.asRouter>>}
         /\ Then(<<Cb("associateRequest", "none")>>)
  ELSE UNCHANGED <<saved, asked>> /\ Then(<<c>>)

(* zb_nlme_rejoin and zb_nlme_orphan_scan.                                 *)
Rejoin ==
  IF state = "idle"
  THEN /\ rejoin' = [rejoin EXCEPT !.req = Arg]
       /\ state' = "rejoin" /\ Then(<<Cb("scanRequest", "active")>>)
  ELSE UNCHANGED <<rejoin, state>> /\ Then(<<Confirm("fail")>>)
OrphanScan ==
  IF state = "idle"
  THEN state' = "orphan" /\ Then(<<Cb("scanRequest", "orphan")>>)
  ELSE UNCHANGED state /\ Then(<<Confirm("fail")>>)

JoinRequest ==
  /\ Calls("joinRequest")
  /\ nwk' = [nwk EXCEPT !.routerStarted = FALSE]
  /\ CASE Arg.method = "association" ->
            AssociationJoin(ext, Arg, Confirm("fail")) /\ UNCHANGED <<state, rejoin>>
       [] Arg.method = "rejoin" -> Rejoin /\ UNCHANGED <<saved, asked>>
       [] Arg.method = "direct" -> OrphanScan /\ UNCHANGED <<saved, asked, rejoin>>
  /\ UNCHANGED <<config, zdo, neighbors, acceptedAs, below, ghosts>>

AssociateRequest ==
  /\ Calls("associateRequest")
  /\ mac' = [mac EXCEPT !.assoc = TRUE] /\ Then(<<>>)
  /\ UNCHANGED <<config, zdo, state, nwk, neighbors, requests, alarms, scan, answers, ghosts>>

(* The exchange with the parent ends with its answer or without one; a     *)
(* request that was not acknowledged is never reported.                    *)
AssociationEnds ==
  /\ Ok /\ mac.assoc
  /\ mac' = [mac EXCEPT !.assoc = FALSE]
  /\ \/ \E st \in {"ok", "fail"} : Schedules("associateConfirm", st) /\ UNCHANGED lost
     \/ lost' = TRUE /\ UNCHANGED cbq
  /\ UNCHANGED <<config, zdo, state, nwk, neighbors, requests, alarms, scan, answers, report, pending, events, fault>>

Kept == IF role = "router" THEN marked ELSE {}
AssociateConfirmOk ==
  /\ Calls("associateConfirm") /\ Arg = "ok"
  /\ devType' = (IF saved.req.asRouter THEN "router" ELSE "ed")
  /\ nwk' = [nwk EXCEPT !.joined = TRUE, !.parent = saved.parent]
  /\ extPan' = saved.req.pan /\ acceptedAs' = (IF saved.req.asRouter THEN "router" ELSE "ed")
  /\ marked' = Kept \cup {saved.parent} /\ ieee' = ieee \cup {saved.parent} /\ ExneighborStop
  /\ Then(<<Confirm("ok")>>)
  /\ UNCHANGED <<role, useExt, zdo, state, pans, saved, rejoin, asked, below, ghosts>>

(* Another parent, then every parent again as an end device.               *)
AssociateConfirmFail ==
  /\ Calls("associateConfirm") /\ Arg # "ok"
  /\ \E t \in {NotPotential(ext, saved.parent)} :
       IF CanJoin(t, saved.req) \/ nwk.joined \/ ~saved.req.asRouter
       THEN ext' = t /\ AssociationJoin(t, saved.req, Confirm("fail"))
       ELSE /\ ext' = AllPotential(t)
            /\ \E r \in {[saved.req EXCEPT !.asRouter = FALSE]} :
                 IF CanJoin(AllPotential(t), r) THEN AssociationJoin(AllPotential(t), r, Confirm("fail"))
                 ELSE saved' = [saved EXCEPT !.req = r] /\ Then(<<Confirm("fail")>>) /\ UNCHANGED asked
  /\ UNCHANGED <<config, zdo, state, nwk, marked, pans, ieee, rejoin, acceptedAs, below, ghosts>>

-----------------------------------------------------------------------------
(* Rejoin.                                                                 *)

(* zb_nlme_rejoin_scan_confirm, called by the scan's confirm, the timeout, *)
(* a poll without result or a refusal.  It does not look at the state.     *)
Continues == Calls("rejoinScanConfirm") \/ (Calls("scanConfirm") /\ state = "rejoin")
RejoinScanConfirm ==
  /\ Continues
  /\ \E best \in {IF rejoin.req.pan \in pans THEN ChooseParent(ext, rejoin.req.pan, rejoin.req.asRouter) ELSE NoNode} :
       IF state # "rejoin"
       THEN fault' = "stray" /\ UNCHANGED <<cbq, state, ext, rejoin, mac, answers, asked>>
       ELSE IF best = NoNode
       THEN /\ state' = "idle" /\ ExneighborStop
            /\ Then(<<Confirm("fail")>>)
            /\ UNCHANGED <<rejoin, mac, answers, asked, fault>>
       ELSE /\ rejoin' = [rejoin EXCEPT !.parent = best] /\ mac' = [mac EXCEPT !.cmds = @ + 1]
            /\ answers' = answers \cup {best} /\ asked' = asked \cup {<<best, rejoin.req.asRouter>>}
            /\ Then(<<>>)
            /\ UNCHANGED <<state, ext, fault>>
  /\ UNCHANGED <<config, zdo, nwk, marked, pans, ieee, saved, acceptedAs, alarms, scan, report, pending, lost, events>>

(* Callbacks and alarms of scans under way.                                *)
Scanning == Scheduled({"scanRequest", "handleScan", "scanStep", "scanConfirm"}) + Count("scanStep" \in alarms)

(* The rejoin has asked a parent and nothing has made it go on yet.        *)
Waiting == rejoin.parent # NoNode /\ Scanning = 0 /\ Scheduled({"rejoinScanConfirm"}) = 0

(* A plausible slip: no timeout for a command that could not be sent.      *)
NoTimeout == alarms
WithTimeout == alarms \cup {"rejoinTimeout"}

(* zb_mcps_data_confirm of the command, sent or not: the timeout starts.   *)
(* A confirm that comes after the answer starts it too: a fault when the   *)
(* rejoin is not waiting for an answer any more.                           *)
RejoinCmdConfirm ==
  /\ Ok /\ mac.cmds > 0
  /\ mac' = [mac EXCEPT !.cmds = @ - 1]
  /\ alarms' = (IF state = "rejoin" THEN WithTimeout ELSE alarms)
  /\ fault' = (IF state = "rejoin" /\ ~Waiting THEN "stray" ELSE fault)
  /\ UNCHANGED <<config, zdo, state, nwk, neighbors, requests, cbq, scan, answers, report, pending, lost, events>>

(* remove_parent_from_potential_parents.                                   *)
RemoveParent == ext' = NotPotential(ext, rejoin.parent)

RejoinResponseTimeout ==
  /\ Rings("rejoinTimeout")
  /\ alarms' = alarms \ {"rejoinTimeout"}
  /\ IF state # "rejoin" THEN fault' = "stray" /\ UNCHANGED <<cbq, ext, mac>>
     ELSE IF RxOn THEN RemoveParent /\ Schedules("rejoinScanConfirm", "none") /\ UNCHANGED <<mac, fault>>
     ELSE mac' = [mac EXCEPT !.poll = TRUE] /\ UNCHANGED <<cbq, ext, fault>>
  /\ UNCHANGED <<config, zdo, state, nwk, marked, pans, ieee, requests, scan, answers, report, pending, lost, events>>

(* A parent answers, now or late; a device that sleeps gets it by polling. *)
(* Bound: one answer waits in the queue.                                   *)
RejoinAnswer(n) ==
  /\ Ok /\ n \in answers /\ RxOn /\ Scheduled({"rejoinResponse"}) = 0
  /\ answers' = answers \ {n}
  /\ \E st \in {"ok", "refused"} : Schedules("rejoinResponse", [node |-> n, st |-> st])
  /\ UNCHANGED <<config, zdo, state, nwk, neighbors, requests, alarms, scan, mac, ghosts>>

(* The address of the answering device is compared when the parent's is    *)
(* known.                                                                  *)
FromParent(n) == rejoin.parent \notin ieee \/ n = rejoin.parent
Accepted == Arg.st = "ok" /\ FromParent(Arg.node)

CancelTimeout == alarms \ {"rejoinTimeout"}

RejoinResponse ==
  /\ Calls("rejoinResponse")
  /\ CASE state # "rejoin" ->
            Then(<<>>) /\ UNCHANGED <<nwk, extPan, ext, marked, ieee, state, alarms, acceptedAs, fault>>
       [] state = "rejoin" /\ ~Waiting ->
            fault' = "early" /\ UNCHANGED <<cbq, nwk, extPan, ext, marked, ieee, state, alarms, acceptedAs>>
       [] state = "rejoin" /\ Waiting /\ Accepted ->
            /\ nwk' = [nwk EXCEPT !.joined = TRUE, !.parent = rejoin.parent]
            /\ extPan' = rejoin.req.pan /\ state' = "idle" /\ ExneighborStop
            /\ marked' = Kept \cup {rejoin.parent} /\ ieee' = ieee \cup {rejoin.parent}
            /\ acceptedAs' = (IF rejoin.req.asRouter THEN "router" ELSE "ed")
            /\ alarms' = CancelTimeout /\ Then(<<Confirm("ok")>>) /\ UNCHANGED fault
       [] state = "rejoin" /\ Waiting /\ ~Accepted ->
            /\ ext' = NotPotential(ext, rejoin.parent)
            /\ alarms' = CancelTimeout /\ Then(<<Cb("rejoinScanConfirm", "none")>>)
            /\ UNCHANGED <<nwk, extPan, marked, ieee, state, acceptedAs, fault>>
  /\ UNCHANGED <<role, devType, useExt, zdo, pans, saved, rejoin, asked, scan, mac, answers, report, pending, lost, events>>

-----------------------------------------------------------------------------
(* Formation of a network and start of a router.                           *)

FormationRequest ==
  /\ Calls("formationRequest")
  /\ IF state = "idle" /\ ~nwk.joined
     THEN LET one == Cardinality(Chans) = 1 IN
          /\ Then(<<Cb("scanRequest", IF one THEN "active" ELSE "ed")>>)
          /\ state' = (IF one THEN "formationActive" ELSE "formationEd")
     ELSE Then(<<Cb("formationConfirm", "fail")>>) /\ UNCHANGED state
  /\ UNCHANGED <<config, zdo, nwk, neighbors, requests, below, ghosts>>

StartRouterRequest ==
  /\ Calls("startRouter")
  /\ IF devType = "router"
     THEN /\ nwk' = [nwk EXCEPT !.routerStarted = TRUE]
          /\ state' = "router" /\ Then(<<Cb("startRequest", "none")>>)
     ELSE Then(<<Cb("startRouterConfirm", "fail")>>) /\ UNCHANGED <<nwk, state>>
  /\ UNCHANGED <<config, zdo, neighbors, requests, below, ghosts>>

(* zb_mlme_start_request: without realignment the start succeeds.          *)
StartRequest ==
  /\ Calls("startRequest")
  /\ Then(<<Cb("startConfirm", "ok")>>)
  /\ UNCHANGED <<config, zdo, state, nwk, neighbors, requests, below, ghosts>>

StartConfirm ==
  /\ Calls("startConfirm")
  /\ CASE state = "router" ->
            devType' = "router" /\ Then(<<Cb("startRouterConfirm", "ok")>>) /\ UNCHANGED <<nwk, extPan, fault>>
       [] state = "formation" ->
            /\ devType' = "coordinator" /\ nwk' = [nwk EXCEPT !.joined = TRUE] /\ extPan' = "own"
            /\ Then(<<Cb("formationConfirm", "ok")>>) /\ UNCHANGED fault
       [] OTHER -> fault' = "assert" /\ UNCHANGED <<cbq, devType, nwk, extPan>>
  /\ state' = "idle" /\ ExneighborStop
  /\ UNCHANGED <<role, useExt, zdo, marked, pans, ieee, requests, below, report, pending, lost, events>>

(* zb_nlme_network_formation_confirm asks for permission to join and       *)
(* zb_nlme_permit_joining_confirm reports success, whatever they are told. *)
FormationConfirm ==
  /\ Calls("formationConfirm")
  /\ Then(<<Startup("ok")>>)
  /\ UNCHANGED <<config, zdo, state, nwk, neighbors, requests, below, ghosts>>

-----------------------------------------------------------------------------
(* The ZDO: what follows a join, the announcement and the polls.           *)

JoinConfirm ==
  /\ Calls("joinConfirm")
  /\ CASE Arg = "ok" ->
            /\ zdo' = [zdo EXCEPT !.started = FALSE] /\ UNCHANGED devType
            /\ Then(<<IF role = "router" /\ devType = "router" THEN Cb("startRouter", "none") ELSE Cb("joinDone", "none")>>)
       [] Arg # "ok" /\ zdo.rejoin /\ InsecureJoin ->
            /\ zdo' = [zdo EXCEPT !.rejoin = FALSE, !.discCount = ScanAttempts]
            /\ devType' = (IF role = "router" /\ devType = "none" THEN "router" ELSE "ed")
            /\ Then(<<Cb("discoveryRequest", "none")>>)
       [] Arg # "ok" /\ ~(zdo.rejoin /\ InsecureJoin) ->
            Then(<<Startup("fail")>>) /\ UNCHANGED <<zdo, devType>>
  /\ UNCHANGED <<role, useExt, extPan, state, nwk, neighbors, requests, below, ghosts>>

StartRouterConfirm ==
  /\ Calls("startRouterConfirm")
  /\ Then(<<Cb("joinDone", "none")>>)
  /\ UNCHANGED <<config, zdo, state, nwk, neighbors, requests, below, ghosts>>

WithPoll(z) == IF RxOn \/ z.insidePoll THEN alarms ELSE alarms \cup {"poll"}
JoinDone ==
  /\ Calls("joinDone")
  /\ zdo' = [zdo EXCEPT !.retry = 0]
  /\ alarms' = WithPoll(zdo)
  /\ Then(<<Cb("sendAnnce", "none")>>)
  /\ UNCHANGED <<config, state, nwk, neighbors, requests, scan, mac, answers, ghosts>>

AnnceIds == 1 .. 2     \* bound: announcements under way
SendDeviceAnnce ==
  /\ Calls("sendAnnce") /\ mac.annces # AnnceIds
  /\ \E id \in {Least(AnnceIds \ mac.annces)} :
       zdo' = [zdo EXCEPT !.annce = id] /\ mac' = [mac EXCEPT !.annces = @ \cup {id}]
  /\ Then(<<>>)
  /\ UNCHANGED <<config, state, nwk, neighbors, requests, alarms, scan, answers, ghosts>>

(* zb_apsde_data_confirm: only the announcement sent last reports.         *)
AnnceConfirm(id) ==
  /\ Ok /\ id \in mac.annces
  /\ mac' = [mac EXCEPT !.annces = @ \ {id}]
  /\ IF zdo.annce = id
     THEN /\ zdo' = [zdo EXCEPT !.annce = 0, !.started = TRUE]
          /\ IF zdo.started THEN UNCHANGED cbq ELSE \E st \in {"ok", "fail"} : Schedules("startupComplete", st)
     ELSE UNCHANGED <<zdo, cbq>>
  /\ UNCHANGED <<config, state, nwk, neighbors, requests, alarms, scan, answers, ghosts>>

StartupComplete ==
  /\ Calls("startupComplete")
  /\ report' = Arg /\ pending' = FALSE
  /\ Then(<<>>)
  /\ UNCHANGED <<config, zdo, state, nwk, neighbors, requests, below, lost, events, fault>>

(* zb_zdo_poll_parent: the timer asks for a buffer, the buffer starts the  *)
(* poll.                                                                   *)
PollParent ==
  /\ Rings("poll")
  /\ alarms' = alarms \ {"poll"}
  /\ IF nwk.joined THEN mac' = [mac EXCEPT !.poll = TRUE] /\ zdo' = [zdo EXCEPT !.insidePoll = TRUE]
                   ELSE UNCHANGED <<mac, zdo>>
  /\ UNCHANGED <<config, state, nwk, neighbors, requests, cbq, scan, answers, ghosts>>

(* The poll of the MAC ends: no answer, no data, or a frame.  During a     *)
(* rejoin the frame may be the parent's answer.                            *)
PollEnds ==
  /\ Ok /\ mac.poll
  /\ mac' = [mac EXCEPT !.poll = FALSE]
  /\ \/ Schedules("pollConfirm", "noData") /\ UNCHANGED <<answers, lost, events>>
     \/ /\ Schedules("pollConfirm", "noAck") /\ UNCHANGED <<answers, lost>>
        /\ IF state = "rejoin" THEN UNCHANGED events ELSE Happens
     \/ Schedules("pollConfirm", "frame") /\ lost' = (lost \/ state = "rejoin") /\ UNCHANGED <<answers, events>>
     \/ /\ state = "rejoin" /\ rejoin.parent \in answers
        /\ answers' = answers \ {rejoin.parent} /\ UNCHANGED <<lost, events>>
        /\ \E st \in {"ok", "refused"} :
             cbq' = cbq \o <<Cb("pollConfirm", "frame"), Cb("rejoinResponse", [node |-> rejoin.parent, st |-> st])>>
  /\ UNCHANGED <<config, zdo, state, nwk, neighbors, requests, alarms, scan, report, pending, fault>>

PollConfirmRejoin ==
  /\ Calls("pollConfirm") /\ state = "rejoin"
  /\ IF Arg = "frame" THEN Then(<<>>) /\ UNCHANGED <<ext, fault>>
     ELSE IF ~Waiting \/ mac.cmds > 0 \/ "rejoinTimeout" \in alarms   \* the poll was begun before
     THEN fault' = "stray" /\ UNCHANGED <<cbq, ext>>
     ELSE RemoveParent /\ Then(<<Cb("rejoinScanConfirm", "none")>>) /\ UNCHANGED fault
  /\ UNCHANGED <<config, zdo, state, nwk, marked, pans, ieee, requests, below, report, pending, lost, events>>

(* zb_nlme_sync_confirm.  Failures add up until the next join.  A poll from *)
(* before may fail while a rejoin is under way: a second one starts.       *)
Failures == IF Arg \in {"frame", "noData"} THEN zdo.retry ELSE zdo.retry + 1
Polled == [zdo EXCEPT !.retry = Failures, !.insidePoll = FALSE]
SyncConfirm ==
  /\ Calls("pollConfirm") /\ state # "rejoin"
  /\ IF Failures > zdo.retry /\ Failures >= RetryLimit
     THEN /\ InitiateRejoin(Polled, Tail(cbq), extPan) /\ UNCHANGED alarms
          /\ fault' = (IF nwk.joined THEN fault ELSE "stray")
     ELSE /\ zdo' = Polled
          /\ alarms' = (IF nwk.joined THEN WithPoll(Polled) ELSE alarms)
          /\ Then(<<>>) /\ UNCHANGED <<useExt, devType, nwk, pending, asked, fault>>
  /\ UNCHANGED <<role, extPan, state, neighbors, saved, rejoin, acceptedAs, scan, mac, answers, report, lost, events>>

-----------------------------------------------------------------------------
(* What happens to a device in the network.                                *)

(* zb_nlme_status_indication: the link to the parent failed too often.     *)
ParentLinkFailure ==
  /\ Happens /\ nwk.joined /\ role \in {"rxOn", "sleepy"}
  /\ InitiateRejoin(zdo, cbq, extPan)
  /\ UNCHANGED <<role, extPan, state, neighbors, saved, rejoin, acceptedAs, below, report, lost, fault>>

LeaveReceived ==
  /\ Happens /\ nwk.joined /\ role # "coordinator"
  /\ \E again \in BOOLEAN : Schedules("leaveIndication", again)
  /\ UNCHANGED <<config, zdo, state, nwk, neighbors, requests, below, report, pending, lost, fault>>

(* A plausible slip: every device rejoins as an end device.                *)
RejoinAsEd == JoinReq("rejoin", extPan, FALSE)

(* The device rejoins as what it was.                                      *)
LeaveRejoinReq == JoinReq("rejoin", extPan, role = "router" /\ devType = "router")

HandleCleared == [joined |-> FALSE, parent |-> NoNode, routerStarted |-> FALSE]

DoLeave ==
  /\ Calls("leaveIndication")
  /\ zdo' = [zdo EXCEPT !.started = FALSE, !.rejoin = (Arg \/ zdo.rejoin)]
  /\ nwk' = HandleCleared
  /\ IF Arg THEN /\ Then(<<Cb("joinRequest", LeaveRejoinReq)>>)
                 /\ pending' = TRUE /\ asked' = {} /\ UNCHANGED extPan
            ELSE Then(<<>>) /\ extPan' = NoPan /\ UNCHANGED <<pending, asked>>
  /\ UNCHANGED <<role, devType, useExt, state, neighbors, saved, rejoin, acceptedAs, below, report, lost, events, fault>>

(* The application of a device that does not poll looks for its parent by  *)
(* an orphan scan (tests/orphan_scan).                                     *)
OrphanJoin ==
  /\ Happens /\ cbq = <<>> /\ state = "idle" /\ nwk.joined /\ ~pending /\ role \in {"router", "rxOn"}
  /\ Schedules("joinRequest", JoinReq("direct", extPan, FALSE))
  /\ pending' = TRUE /\ asked' = {}
  /\ UNCHANGED <<config, zdo, state, nwk, neighbors, saved, rejoin, acceptedAs, below, report, lost, fault>>

(* zb_zdo_reset after a failed start, when nothing is under way, and a new *)
(* start by its callback.                                                  *)
Reset ==
  /\ Happens /\ report = "fail" /\ cbq = <<>> /\ state = "idle" /\ ~nwk.joined /\ ~pending
  /\ alarms = {} /\ ~mac.assoc /\ mac.cmds = 0
  /\ \E warm \in BOOLEAN :
       IF warm THEN Schedules("devStart", "none") /\ UNCHANGED state
               ELSE Schedules("resetConfirm", "none") /\ state' = "reset"
  /\ ext' = <<>> /\ marked' = {}
  /\ UNCHANGED <<config, zdo, nwk, pans, ieee, requests, below, report, pending, lost, fault>>

ResetConfirm ==
  /\ Calls("resetConfirm")
  /\ state' = "idle"
  /\ nwk' = HandleCleared
  /\ saved' = [req |-> NoReq, parent |-> NoNode] /\ rejoin' = [req |-> NoReq, parent |-> NoNode]
  /\ ext' = <<>> /\ marked' = {}
  /\ Then(<<Cb("devStart", "none")>>)
  /\ UNCHANGED <<config, zdo, pans, ieee, asked, acceptedAs, below, ghosts>>

-----------------------------------------------------------------------------
Environment ==
  \/ \E n \in Node : \E o \in Offer[n] : BeaconNotify(n, o)
  \/ EdScanRequest \/ ParentLinkFailure \/ LeaveReceived \/ OrphanJoin \/ Reset
  \/ \E n \in Node : RejoinAnswer(n)
LowerLayers ==
  \/ AssociationEnds \/ RejoinCmdConfirm \/ PollEnds
  \/ \E id \in AnnceIds : AnnceConfirm(id)
Callbacks ==
  \/ DevStart \/ DiscoveryRequest \/ ScanRequest \/ HandleScanRequest \/ ScanConfirmDisc \/ ScanConfirmOther
  \/ DiscoveryConfirm \/ JoinRequest \/ AssociateRequest \/ AssociateConfirmOk \/ AssociateConfirmFail
  \/ RejoinScanConfirm \/ RejoinResponse \/ FormationRequest \/ StartRouterRequest \/ StartRequest \/ StartConfirm
  \/ FormationConfirm \/ JoinConfirm \/ StartRouterConfirm \/ JoinDone \/ SendDeviceAnnce \/ StartupComplete
  \/ PollConfirmRejoin \/ SyncConfirm \/ DoLeave \/ ResetConfirm
AlarmsAndScan == ScanStep \/ DiscoveryAlarm \/ RejoinResponseTimeout
Next == Environment \/ LowerLayers \/ Callbacks \/ AlarmsAndScan \/ PollParent

Spec == Init /\ [][Next]_vars

-----------------------------------------------------------------------------
(* Every variable has a value of its type.                                 *)
TypeOK ==
  /\ role \in Roles /\ devType \in {"none", "ed", "router", "coordinator"} /\ state \in States
  /\ useExt \in Pans \cup {NoPan} /\ extPan \in Pans \cup {NoPan, "own"}
  /\ nwk.parent \in Node \cup {NoNode} /\ marked \subseteq Node /\ pans \subseteq Pans
  /\ \A i \in DOMAIN ext : ext[i].node \in Node
  /\ alarms \subseteq {"scanStep", "discovery", "rejoinTimeout", "poll"}
  /\ scan.left \subseteq Chans /\ scan.chan \in Chans \cup {0} /\ mac.cmds \in Nat /\ mac.annces \subseteq AnnceIds

(* The scan whose confirm zb_mlme_scan_confirm dispatches on the state of  *)
(* the NWK handle is the one that state stands for: while a procedure that *)
(* scans is under way there is one scan, in the other states none; and the *)
(* timeout of a rejoin runs only while that rejoin waits for an answer.    *)
ScanExpected ==
  Ok => /\ state \in ScanStates => Scanning = 1
        /\ state \notin ScanStates \cup {"rejoin"} => Scanning = 0
        /\ state = "rejoin" => Scanning <= 1
        /\ "rejoinTimeout" \in alarms => state = "rejoin" /\ Waiting

(* A device that has joined has a neighbor marked as its parent, which     *)
(* belongs to the network the device believes to be in.                    *)
JoinedParent ==
  Ok /\ nwk.joined /\ role # "coordinator" => nwk.parent \in marked /\ PanOf[nwk.parent] = extPan

(* A device works as a router only after a parent accepted it as one, also *)
(* after joins that fell back to an end device and after rejoins.          *)
RoleAgreed == Ok /\ nwk.routerStarted => acceptedAs = "router"

(* A parent that did not take the device, by refusing or by not answering, *)
(* is not asked again for the same request in the same role, however its   *)
(* answers and the timeouts meet (action property).                        *)
AskedOnce ==
  [][/\ Scheduled({"associateRequest"})' > Scheduled({"associateRequest"})
         => <<saved'.parent, saved'.req.asRouter>> \notin asked
     /\ mac'.cmds > mac.cmds => <<rejoin'.parent, rejoin'.req.asRouter>> \notin asked]_vars

(* What the join procedures keep (nwk_join.c, zdo_app.c), whatever answers,*)
(* timeouts, leaves and lost parents meet: the handle's state agrees with  *)
(* the scan under way, and the device's idea of its network, parent and    *)
(* role with what the parent granted.                                      *)
StateSound == TypeOK /\ ScanExpected /\ JoinedParent /\ RoleAgreed

(* No start and no rejoin is forgotten: when nothing that could continue   *)
(* it is left, no callback, no alarm, no scan and no exchange of the MAC,  *)
(* its result has been reported to the application, unless the layers      *)
(* below dropped the request or the code ran into a fault.                 *)
NothingUnderWay ==
  /\ cbq = <<>> /\ alarms \subseteq {"poll"} /\ ("poll" \in alarms => state # "rejoin") /\ ~scan.on
  /\ ~mac.assoc /\ mac.cmds = 0 /\ mac.annces = {} /\ ~mac.poll
StartupReported == Ok /\ NothingUnderWay => ~pending \/ lost
=============================================================================
