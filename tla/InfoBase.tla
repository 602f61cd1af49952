------------------------------ MODULE InfoBase ------------------------------
(***************************************************************************)
(* The information bases of the MAC, NWK and APS layers and the primitives *)
(* that read and write their attributes: MLME-GET/SET (mac/mac.c),         *)
(* NLME-GET/SET (nwk/nwk_nlme.c) and APSME-GET/SET (aps/aps_main.c).       *)
(*                                                                         *)
(* An attribute is kept under its name with its full value.  A request     *)
(* reads or stores as many bytes of it as the code moves, which for most   *)
(* of the 16 and 32 bit attributes is one.                                 *)
(***************************************************************************)
EXTENDS Integers, Sequences, FiniteSetsExt

CONSTANTS
  Byte,          \* 2^8
  Leftover       \* bytes an earlier use may have left in the buffer of a confirm

ASSUME InfoBaseAssumption == Byte \in Nat \ {0} /\ Leftover \subseteq 0 .. Byte - 1 /\ Leftover # {}

VARIABLE attr    \* the value of every attribute

PibBytes == {"CurrentChannel", "CurrentPage", "AssociationPermit", "BattLifeExt", "BeaconPayloadLength",
             "BeaconOrder", "Bsn", "Dsn", "RxOnWhenIdle"}
PibWords == {"CoordShortAddress", "PanId", "ShortAddress", "SuperframeOrder"}
PibFixedBytes == {"MaxFrameRetries", "ResponseWaitTime"}      \* without ZB_CONFIGURABLE_MAC_PIB
PibFixedWords == {"AckWaitDuration"}
PibMisplaced == {"TransactionPersistenceTime", "MaxFrameTotalWaitTime"}
PibBlocks == {"BeaconPayload"}
PibSetOnly == {"CoordExtendAddress"}
PibAttrs == PibBytes \cup PibWords \cup PibFixedBytes \cup PibFixedWords \cup PibMisplaced \cup PibBlocks \cup PibSetOnly

NibBytes == {"SequenceNumber", "MaxBroadcastRetries", "MaxChildren", "MaxDepth", "MaxRouters", "AddrAlloc",
             "UseTreeRouting", "UpdateId", "SecurityLevel", "SecurityMaterialSet", "ActiveKeySeqNumber", "SecureAllFrames"}
NibWords == {"PassiveAckTimeout", "ManagerAddr"}
NibBlocks == {"ExtendedPanId"}
NibAttrs == NibBytes \cup NibWords \cup NibBlocks

AibBytes == {"DesignatedCoord", "UseInsecureJoin"}
AibWide == {"ChannelMask"}
AibBlocks == {"UseExtPanId"}
AibAttrs == AibBytes \cup AibWide \cup AibBlocks

Attrs == PibAttrs \cup NibAttrs \cup AibAttrs
Low(v) == v % Byte

(* A confirm: the status, the length announced and the value a reader of   *)
(* that many bytes finds.                                                  *)
Conf(a, status, len, value) == [attr |-> a, status |-> status, len |-> len, value |-> value]
Unsupported(a) == {Conf(a, "unsupported", 0, 0)}
Exact(a, len) == {Conf(a, "ok", len, attr[a])}
LowByteOnly(a, len) == {Conf(a, "ok", len, Low(attr[a]) + Byte * j) : j \in Leftover}
Beside(a) == {Conf(a, "ok", 2, i + Byte * j) : i \in Leftover, j \in Leftover}

(* zb_mlme_get_request.  Two attributes are stored behind the place the    *)
(* reader looks at: the size of the header is added to a 16 bit pointer.   *)
MlmeGetRequest(a) ==
  CASE a \in PibBytes \cup PibFixedBytes -> Exact(a, 1)
    [] a \in PibWords \cup PibFixedWords -> LowByteOnly(a, 2)
    [] a \in PibMisplaced -> Beside(a)
    [] a \in PibBlocks -> Exact(a, 15)
    [] OTHER -> Unsupported(a)

MlmeSettable == PibBytes \cup PibWords \cup PibBlocks \cup PibSetOnly
MlmeSetRequest(a, v) ==
  IF a \in PibBytes THEN [attr EXCEPT ![a] = Low(v)] ELSE IF a \in MlmeSettable THEN [attr EXCEPT ![a] = v] ELSE attr

NlmeGetRequest(a) ==
  CASE a \in NibBytes -> Exact(a, 1)
    [] a \in NibWords -> LowByteOnly(a, 2)
    [] a \in NibBlocks -> Exact(a, 8)
    [] OTHER -> Unsupported(a)

(* zb_nlme_set_request stores one byte of the attributes that have two.    *)
NlmeSetRequest(a, v) ==
  IF a \in NibBytes \cup NibWords THEN [attr EXCEPT ![a] = Low(v)] ELSE IF a \in NibBlocks THEN [attr EXCEPT ![a] = v] ELSE attr

ApsmeGetRequest(a) ==
  CASE a \in AibBytes -> Exact(a, 1)
    [] a \in AibWide -> LowByteOnly(a, 4)
    [] a \in AibBlocks -> Exact(a, 8)
    [] a = "NonmemberRadius" -> {Conf(a, "ok", 1, 2)}
    [] OTHER -> Unsupported(a)

ApsmeSetRequest(a, v) ==
  IF a \in AibBytes \cup AibWide THEN [attr EXCEPT ![a] = Low(v)] ELSE IF a \in AibBlocks THEN [attr EXCEPT ![a] = v] ELSE attr

(* What a set request leaves of a value, and which attributes it accepts.  *)
Settable(layer) ==
  CASE layer = "mlme" -> MlmeSettable [] layer = "nlme" -> NibAttrs [] OTHER -> AibAttrs
Kept(a, v) == IF a \in PibWords \cup PibBlocks \cup PibSetOnly \cup NibBlocks \cup AibBlocks THEN v ELSE Low(v)

GetRequest(layer, a) ==
  CASE layer = "mlme" -> MlmeGetRequest(a) [] layer = "nlme" -> NlmeGetRequest(a) [] OTHER -> ApsmeGetRequest(a)
SetRequest(layer, a, v) ==
  CASE layer = "mlme" -> MlmeSetRequest(a, v) [] layer = "nlme" -> NlmeSetRequest(a, v) [] OTHER -> ApsmeSetRequest(a, v)
SetStatus(layer, a) == IF a \in Settable(layer) THEN "ok" ELSE "unsupported"

(* zb_nwk_nib_init and zb_ib_set_defaults; what they do not set is zero.   *)
Defaults ==
  [a \in Attrs |->
     CASE a = "PassiveAckTimeout" -> 100 [] a = "MaxBroadcastRetries" -> 2 [] a = "MaxRouters" -> 4
       [] a = "MaxDepth" -> 5 [] a = "UseTreeRouting" -> 1 [] a = "MaxChildren" -> 32
       [] a = "RxOnWhenIdle" -> 1 [] a = "UseInsecureJoin" -> 1 [] a = "SecurityLevel" -> 5
       [] a = "BeaconOrder" -> 15 [] a = "SuperframeOrder" -> 15 [] OTHER -> 0]
=============================================================================
