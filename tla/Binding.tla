------------------------------ MODULE Binding ------------------------------
(***************************************************************************)
(* The binding and group tables of the APS layer (aps/aps_bind.c), the     *)
(* search of a destination for data sent by binding (aps/aps_main.c), and  *)
(* the matching of cluster lists in an end device bind                     *)
(* (zdo/zdo_bind_manage.c), as operators on table values.                  *)
(*                                                                         *)
(* The loops of the code look at the first entry of a table before they    *)
(* compare with the number of entries, so what an earlier entry has left   *)
(* behind is part of the state.  A counter that falls below 0 is a move of *)
(* memory past the end of the table: the result is the value Overrun.      *)
(***************************************************************************)
EXTENDS Naturals, Integers, Sequences, FiniteSets, SequencesExt, FiniteSetsExt

CONSTANTS
  SrcSize, DstSize,       \* ZB_APS_SRC_BINDING_TABLE_SIZE, ZB_APS_DST_BINDING_TABLE_SIZE
  GroupSize, EpsInGroup,  \* ZB_APS_GROUP_TABLE_SIZE, ZB_APS_ENDPOINTS_IN_GROUP_TABLE
  MaxClusterList          \* ZB_ZDO_MAX_CLUSTER_LIST

ASSUME BindingAssumption ==
  SrcSize \in Nat \ {0} /\ DstSize \in Nat \ {0} /\ GroupSize \in Nat /\ EpsInGroup \in Nat \ {0} /\ MaxClusterList \in Nat

Overrun == [srcN |-> -1]
NoSrc == [addr |-> "zero", ep |-> 0, cluster |-> 0]
NoDst == [mode |-> "group", addr |-> "zero", ep |-> 0, src |-> 0]
EmptyTable == [src |-> [i \in 0 .. SrcSize - 1 |-> NoSrc], dst |-> [i \in 0 .. DstSize - 1 |-> NoDst],
               srcN |-> 0, dstN |-> 0, known |-> {}]

BindReqMsg(src, ep, cluster, mode, dst, dstEp) ==
  [src |-> src, ep |-> ep, cluster |-> cluster, mode |-> mode, dst |-> dst, dstEp |-> dstEp]
EdBindReqMsg(target, ep, profile, in, out) == [target |-> target, ep |-> ep, profile |-> profile, in |-> in, out |-> out]
SrcOf(r) == [addr |-> r.src, ep |-> r.ep, cluster |-> r.cluster]
BindModes == {"long", "group"}
LooksAt(n) == 0 .. Max({n, 1}) - 1      \* entries a do-while loop over n entries reads
AtLeast(S, none) == IF S = {} THEN none ELSE Min(S)

(* aps_find_src_ref: the first entry, read even when the table is empty, or -1. *)
FindSrcRef(t, s) ==
  AtLeast({l \in LooksAt(t.srcN) : l < SrcSize /\ t.src[l] = s}, -1)

(* zb_apsme_bind_request: the table and the status. *)
BindRequest(t, r) ==
  LET s0 == FindSrcRef(t, SrcOf(r))
      s  == IF s0 = -1 THEN t.srcN ELSE s0
      t1 == [t EXCEPT !.known = @ \cup {r.src} \cup (IF r.mode = "long" THEN {r.dst} ELSE {})]
  IN IF s >= SrcSize \/ t.dstN >= DstSize THEN [t |-> [t EXCEPT !.known = @ \cup {r.src}], status |-> "table_full"]
     ELSE IF r.mode \notin BindModes THEN [t |-> [t EXCEPT !.known = @ \cup {r.src}], status |-> "no_entry"]
     ELSE [t |-> [t1 EXCEPT !.src[s] = IF s = t.srcN THEN SrcOf(r) ELSE @,
                            !.srcN = IF s = t.srcN THEN @ + 1 ELSE @,
                            !.dst[t.dstN] = [mode |-> r.mode, addr |-> r.dst,
                                             ep |-> IF r.mode = "long" THEN r.dstEp ELSE 0, src |-> s],
                            !.dstN = @ + 1],
           status |-> "ok"]

Matches(e, s, r) ==
  e.src = s /\ e.mode = r.mode /\ e.addr = r.dst /\ (r.mode = "long" => e.ep = r.dstEp)

(* The entries left when those of set gone are removed one by one, each time *)
(* moving the ones behind; the last entry stays readable behind the end.     *)
Packed(f, n, size, gone) ==
  LET keep == (0 .. n - 1) \ gone
      place(i) == Cardinality({j \in keep : j < i})
  IN [k \in 0 .. size - 1 |->
        IF k < Cardinality(keep) THEN f[CHOOSE i \in keep : place(i) = k] ELSE IF k < n THEN f[n - 1] ELSE f[k]]

(* zb_apsme_unbind_request: all entries of this source and destination are  *)
(* removed, then the source if no entry of it is left.                      *)
MutUnbindFound(t, s, r) ==
  LET gone == {d \in LooksAt(t.dstN) : Matches(t.dst[d], s, r)}
      n    == t.dstN - Cardinality(gone)
  IN IF n < 0 \/ t.srcN = 0 THEN Overrun
     ELSE IF \E d \in LooksAt(t.dstN) \ gone : t.dst[d].src = s THEN [t EXCEPT !.dst = Packed(t.dst, t.dstN, DstSize, gone), !.dstN = n]
     ELSE [t EXCEPT !.dst = Packed(t.dst, t.dstN, DstSize, gone), !.dstN = n, !.src = Packed(t.src, t.srcN, SrcSize, {s}), !.srcN = @ - 1]
UnbindFound(t, s, r) ==
  LET gone  == {d \in LooksAt(t.dstN) : Matches(t.dst[d], s, r)}
      found == \E d \in LooksAt(t.dstN) \ gone : t.dst[d].src = s
      n     == t.dstN - Cardinality(gone)
      dst1  == Packed(t.dst, t.dstN, DstSize, gone)
      lower == [d \in 0 .. DstSize - 1 |->
                 IF d \in LooksAt(n) /\ dst1[d].src > s THEN [dst1[d] EXCEPT !.src = @ - 1] ELSE dst1[d]]
  IN IF n < 0 \/ (~found /\ t.srcN = 0) THEN Overrun
     ELSE IF found THEN [t EXCEPT !.dst = dst1, !.dstN = n]
     ELSE [t EXCEPT !.dst = lower, !.dstN = n, !.src = Packed(t.src, t.srcN, SrcSize, {s}), !.srcN = @ - 1]

UnbindRequest(t, r) ==
  LET s == FindSrcRef(t, SrcOf(r))
      t1 == IF r.mode = "long" THEN [t EXCEPT !.known = @ \cup {r.dst}] ELSE t
  IN IF r.src \notin t.known THEN [t |-> t, status |-> "illegal"]
     ELSE IF s = -1 \/ r.mode \notin BindModes THEN [t |-> t, status |-> "no_entry"]
     ELSE [t |-> UnbindFound(t1, s, r), status |-> "ok"]

(* zb_search_dst_in_binding_table: the first destination of a source, when  *)
(* it is not a group.                                                       *)
SearchDst(t, s) ==
  LET ref == FindSrcRef(t, s)
      i   == AtLeast({d \in LooksAt(t.dstN) : t.dst[d].src = ref}, -1)
  IN IF ref = -1 \/ i = -1 THEN "none" ELSE IF t.dst[i].mode = "group" THEN "none" ELSE t.dst[i].addr

(* zb_apsme_add_group_request on a sequence of [addr, eps]. *)
AddGroup(groups, g, ep) ==
  LET known == {i \in 1 .. Len(groups) : groups[i].addr = g}
      i == Min(known)
  IN IF known # {}
     THEN IF ep \in ToSet(groups[i].eps) \/ Len(groups[i].eps) >= EpsInGroup THEN groups
          ELSE [groups EXCEPT ![i].eps = Append(@, ep)]
     ELSE IF Len(groups) < GroupSize THEN Append(groups, [addr |-> g, eps |-> <<ep>>]) ELSE groups

(* check_cluster_list: the clusters of the first list found in the second,  *)
(* once for each time they are found; the break leaves only the inner loop. *)
CheckClusterList(l1, l2) ==
  FlattenSeq([i \in 1 .. Len(l1) |->
               [j \in 1 .. Cardinality({k \in 1 .. Len(l2) : l2[k] = l1[i]}) |-> l1[i]]])
ClustersFit(l) == Len(l) <= MaxClusterList

=============================================================================
