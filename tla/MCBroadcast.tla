---------------------------- MODULE MCBroadcast ----------------------------
(* A coordinator, a router and an end device, each with its neighbors.     *)
EXTENDS Broadcast

Nb(a, type, rel, rxon) == [addr |-> a, type |-> type, rel |-> rel, rxon |-> rxon]
Stimuli == {"rx", "fail", "beacon", "send", "status", "get", "set"}
Budget(some) == [k \in Stimuli |-> IF k \in DOMAIN some THEN some[k] ELSE 0]

Bcast(id, src, seq, dst, kind, pl) == Frame(id, src, seq, dst, kind, 3, pl)
A == Bcast(-1, 2, 7, All, "data", 0)
B == Bcast(-2, 2, 8, RxOn, "data", 0)
FromChild == Bcast(-3, 3, 9, All, "data", 0)
Short == Frame(-4, 2, 10, Routers, "data", 1, 0)
Dead == Frame(-5, 2, 11, All, "data", 0, 0)
StatusCmd == Bcast(-6, 2, 12, LowPower, "status", 0)
Update == Bcast(-7, 0, 13, All, "update", [ours |-> TRUE, id |-> 5, pan |-> 77])
Report(ours) == Frame(-8, 2, 14, 0, "report", 3, [ours |-> ours, ids |-> <<50, 60, 70>>])
Unicast == Frame(-9, 2, 15, 3, "data", 3, 0)
OtherUpdate == Bcast(-10, 0, 16, All, "update", [ours |-> TRUE, id |-> 6, pan |-> 50])
ForeignUpdate == Bcast(-11, 0, 17, All, "update", [ours |-> FALSE, id |-> 6, pan |-> 50])

Mix(role, nbt, frames, some) ==
  [role |-> role, nbt |-> nbt, addr |-> IF role = "zc" THEN 0 ELSE IF role = "zr" THEN 1 ELSE 9, parent |-> 1, pan |-> 50,
   frames |-> frames, pans |-> {50}, dsts |-> {All}, radii |-> {0}, gets |-> {}, sets |-> {}, n |-> Budget(some)]
R2 == Nb(2, "zr", "sibling", TRUE)
C0 == Nb(0, "zc", "parent", TRUE)
S3 == Nb(3, "ed", "child", FALSE)
S4 == Nb(4, "ed", "child", TRUE)
Gets == {<<"mlme", "Bsn">>, <<"mlme", "PanId">>, <<"mlme", "TransactionPersistenceTime">>, <<"mlme", "BeaconPayload">>, <<"mlme", "CoordExtendAddress">>,
         <<"nlme", "MaxChildren">>, <<"nlme", "ManagerAddr">>, <<"nlme", "ExtendedPanId">>, <<"nlme", "Bsn">>,
         <<"apsme", "DesignatedCoord">>, <<"apsme", "ChannelMask">>, <<"apsme", "NonmemberRadius">>, <<"apsme", "UseExtPanId">>, <<"apsme", "Bsn">>}
Sets == {<<"mlme", "Dsn", 7>>, <<"mlme", "CoordShortAddress", 600>>, <<"mlme", "MaxFrameRetries", 1>>, <<"nlme", "MaxChildren", 9>>,
         <<"nlme", "ManagerAddr", 258>>, <<"nlme", "ExtendedPanId", 1000>>, <<"apsme", "UseInsecureJoin", 0>>, <<"apsme", "ChannelMask", 1000>>,
         <<"apsme", "UseExtPanId", 999>>, <<"nlme", "Bsn", 3>>}

MCMixes ==
  {Mix("zr", <<C0, R2, S3>>, {A}, [rx |-> 2, send |-> 1]),
   Mix("zr", <<C0, R2>>, {A, B}, [rx |-> 3]),
   Mix("zr", <<R2, S3, S4>>, {FromChild, Short, Dead, ForeignUpdate}, [rx |-> 2]),
   Mix("zc", <<R2, S3>>, {StatusCmd, Unicast}, [rx |-> 1, fail |-> 1]),
   [Mix("zc", <<R2, S3, S4>>, {}, [send |-> 1, fail |-> 1]) EXCEPT !.dsts = {All, RxOn, 2}, !.radii = {0, 1}],
   [Mix("zc", <<R2, S4>>, {}, [status |-> 1, send |-> 1]) EXCEPT !.dsts = {All, 2}],
   Mix("zc", <<R2>>, {Report(TRUE), Report(FALSE)}, [rx |-> 2]),
   Mix("zc", <<R2>>, {}, [beacon |-> 2]),
   Mix("zr", <<C0>>, {Update, OtherUpdate}, [rx |-> 2, beacon |-> 1]),
   Mix("zr", <<C0>>, {Update}, [rx |-> 1, beacon |-> 2]),
   Mix("zr", <<C0, R2, S3>>, {}, [send |-> 4]),
   Mix("ed", <<C0>>, {A, B}, [rx |-> 2, send |-> 2]),
   [Mix("zr", <<C0>>, {B}, [set |-> 2, get |-> 1]) EXCEPT !.sets = Sets, !.gets = Gets],
   [Mix("zr", <<C0>>, {}, [set |-> 1, send |-> 1, beacon |-> 1]) EXCEPT
      !.sets = {<<"nlme", "SequenceNumber", 0>>, <<"nlme", "ManagerAddr", 1>>, <<"nlme", "MaxBroadcastRetries", 9>>, <<"mlme", "RxOnWhenIdle", 0>>}]}
=============================================================================
