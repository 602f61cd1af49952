----------------------------- MODULE ZdoProofs -----------------------------
(***************************************************************************)
(* Proofs about Zdo, for callback tables, sequence numbers and buffers of  *)
(* any number: which callback an answer is given to, how an end device     *)
(* bind ends, and the timeout of permit joining.                           *)
(***************************************************************************)
EXTENDS Zdo, FiniteSetTheorems, SequenceTheorems, WellFoundedInduction, TLAPS

-----------------------------------------------------------------------------
\* Natural numbers.

Below == {ss \in Nat \X Nat : ss[1] < ss[2]}

LEMMA BelowWellFounded == IsWellFoundedOn(Below, Nat)
BY NatLessThanWellFounded DEF OpToRel, Below

\* A set of natural numbers that is not empty has a least element.
LEMMA MinIn ==
  ASSUME NEW S \in SUBSET Nat, S # {}
  PROVE  Min(S) \in S /\ \A y \in S : Min(S) <= y
<1>1. PICK x \in S : \A y \in S : ~(<<y, x>> \in Below)
  BY BelowWellFounded, WFMin
<1>2. \A y \in S : ~(y < x)
  BY <1>1 DEF Below
<1>3. x \in S /\ \A y \in S : x <= y
  BY <1>2
<1>. QED BY <1>3 DEF Min

LEMMA NatClosed ==
  ASSUME NEW T, 0 \in T, \A k \in Nat : k \in T => k + 1 \in T
  PROVE  Nat \subseteq T
<1>1. SUFFICES ASSUME Nat \ T # {} PROVE FALSE
  OBVIOUS
<1>. DEFINE x == Min(Nat \ T)
<1>2. x \in Nat \ T /\ \A y \in Nat \ T : x <= y
  BY <1>1, MinIn
<1>. HIDE DEF x
<1>3. x # 0 /\ x - 1 \in Nat
  BY <1>2
<1>4. x - 1 \in T
  BY <1>2, <1>3
<1>5. (x - 1) + 1 \in T
  BY <1>3, <1>4
<1>6. (x - 1) + 1 = x
  BY <1>2
<1>. QED BY <1>2, <1>5, <1>6

LEMMA Constants ==
  /\ TableSize \in Nat \ {0} /\ TsnMod \in Nat \ {0} /\ NBuf \in Nat \ {0} /\ Wrap \in Nat \ {0}
  /\ Durations \subseteq Nat \cup {-1} /\ ScanCounts \subseteq Nat
  /\ PeerTsn \subseteq Nat /\ PendSize \in Nat
  /\ \A q \in EdBindReqs : q.in \in Seq(Nat) /\ q.out \in Seq(Nat)
BY ZdoAssumption, DescrAssumption

-----------------------------------------------------------------------------
\* What the variables hold, as far as the argument needs it.

EdbFns == {"check", "ebind", "eunbind"}
Funcs == EdbFns \cup {"none", "app", "peer", "finish"}
Slots == 0 .. TableSize - 1
Cbs == [func : Funcs, tsn : Int, left : Int, req : Nat]

\* A callback of the end device bind that was called, and has not yet run.
EdbCall(j) == j.do = "call" /\ j.func \in EdbFns

\* What the jobs hold that the argument needs.
JobTyped(j) ==
  /\ j.do = "call" => j.func \in Funcs
  /\ j.do \in {"tx", "notify", "edbind"} => j.tsn \in Int
  /\ j.do = "permit" => j.duration \in Durations
  /\ j.do = "edbind" => j.q \in EdBindReqs

\* A job that gives nobody an answer, and is no end device bind.
Plain(j) == JobTyped(j) /\ j.do # "edbind" /\ (j.do = "call" => j.func \notin EdbFns /\ j.about = 0 /\ j.req = 0)

Pends == 0 .. PendSize - 1
IsPend(p, t, s, a, r) == p = [tab |-> t, size |-> s, after |-> a, rejoin |-> r]
PendOk(p) ==
  /\ p.tab \in [Pends -> [used : BOOLEAN, tsn : Int, src : {Own, "peer", "none"}, buf : Bufs \cup {Undef}, req : Nat]]
  /\ p.size \in 0 .. PendSize
  /\ IsPend(p, p.tab, p.size, p.after, p.rejoin)
PendTyped == PendOk(pend)

CtxTyped == ctx.k = "scan" => ctx.tsn \in Int /\ ctx = [k |-> "scan", count |-> ctx.count, dst |-> ctx.dst, tsn |-> ctx.tsn]
Waiters == {"get_addr", "check_bind", "ed_scan", "leave_local"}
Typed ==
  /\ tsn \in Int /\ reqs \in Nat
  /\ cbs \in [Slots -> Cbs]
  /\ ssd.func \in {"none", "app"} /\ ssd.tsn \in Int
  /\ \A o \in owed : o.tsn \in Int /\ o = [req |-> o.req, tsn |-> o.tsn, clid |-> o.clid, x |-> o.x, left |-> o.left]
  /\ buf = [b \in Bufs |-> buf[b]]
  /\ \A b \in Bufs : JobTyped(buf[b])
  /\ wait \in [Waiters -> Nat]
  /\ CtxTyped /\ PendTyped

-----------------------------------------------------------------------------
\* The table of callbacks.

LEMMA FindCbFacts ==
  ASSUME NEW t \in Int
  PROVE  FindCb(t) = -1 \/ (FindCb(t) \in Slots /\ cbs[FindCb(t)].tsn = t /\ cbs[FindCb(t)].func # "none")
<1>. DEFINE ok(k) == cbs[Probe(t)[k]].tsn = t /\ cbs[Probe(t)[k]].func # "none"
            S == {k \in 1 .. TableSize : ok(k)}
<1>1. FindCb(t) = IF \E k \in 1 .. TableSize : ok(k) THEN Probe(t)[Min(S)] ELSE -1
  BY DEF FindCb, FirstOf
<1>2. CASE \E k \in 1 .. TableSize : ok(k)
  <2>1. S \in SUBSET Nat /\ S # {}
    BY <1>2, Constants
  <2>2. Min(S) \in S
    <3>. HIDE DEF S
    <3>. QED BY <2>1, MinIn
  <2>. DEFINE m == Min(S)
  <2>3. m \in 1 .. TableSize /\ ok(m) /\ FindCb(t) = Probe(t)[m]
    BY <1>1, <1>2, <2>2
  <2>. HIDE DEF m
  <2>4. Probe(t)[m] \in Slots
    <3>1. Probe(t)[m] = (Hash(t) + m - 1) % TableSize
      BY <2>3 DEF Probe
    <3>. QED BY <2>3, <3>1, Constants DEF Slots, Hash
  <2>. QED BY <2>3, <2>4
<1>. QED BY <1>1, <1>2

LEMMA RegisterFacts ==
  ASSUME NEW t \in Int, NEW func, NEW count, NEW r
  PROVE  \/ Register(cbs, t, func, count, r) = cbs
         \/ /\ func # "null"
            /\ \E i \in Slots :
                 /\ cbs[i].func = "none"
                 /\ Register(cbs, t, func, count, r) = [cbs EXCEPT ![i] = [func |-> func, tsn |-> t, left |-> count, req |-> r]]
<1>. DEFINE ok(k) == cbs[Probe(t)[k]].func = "none"
            S == {k \in 1 .. TableSize : ok(k)}
            i == IF \E k \in 1 .. TableSize : ok(k) THEN Probe(t)[Min(S)] ELSE -1
<1>1. Register(cbs, t, func, count, r) =
        IF func = "null" \/ i = -1 THEN cbs
        ELSE [cbs EXCEPT ![i] = [func |-> func, tsn |-> t, left |-> count, req |-> r]]
  BY DEF Register, FirstOf
<1>2. ASSUME i # -1 PROVE i \in Slots /\ cbs[i].func = "none"
  <2>0. \E k \in 1 .. TableSize : ok(k)
    BY <1>2
  <2>1. S \in SUBSET Nat /\ S # {}
    BY <2>0, Constants
  <2>2. Min(S) \in S
    <3>. HIDE DEF S
    <3>. QED BY <2>1, MinIn
  <2>. DEFINE m == Min(S)
  <2>3. m \in 1 .. TableSize /\ ok(m) /\ i = Probe(t)[m]
    BY <2>0, <2>2
  <2>. HIDE DEF m, i
  <2>4. Probe(t)[m] \in Slots
    <3>1. Probe(t)[m] = (Hash(t) + m - 1) % TableSize
      BY <2>3 DEF Probe
    <3>. QED BY <2>3, <3>1, Constants DEF Slots, Hash
  <2>. QED BY <2>3, <2>4
<1>. HIDE DEF i
<1>. QED BY <1>1, <1>2

LEMMA PutFacts ==
  ASSUME buf = [b \in Bufs |-> buf[b]], NEW b \in Bufs, NEW j, buf' = Put(b, j)
  PROVE  /\ buf' = [x \in Bufs |-> buf'[x]] /\ buf'[b] = j
         /\ \A x \in Bufs : x # b => buf'[x] = buf[x]
<1>1. DOMAIN buf = Bufs
  <2>1. DOMAIN [x \in Bufs |-> buf[x]] = Bufs
    OBVIOUS
  <2>. QED BY <2>1
<1>2. buf' = [x \in Bufs |-> IF x = b THEN j ELSE buf[x]]
  BY <1>1 DEF Put
<1>. QED BY <1>2

LEMMA AfRespFacts ==
  ASSUME NEW b, NEW t \in Int, NEW about, NEW st, NEW x, NEW otherwise, AfResp(b, t, about, st, x, otherwise)
  PROVE  \/ cbs' = cbs /\ buf' = Put(b, otherwise)
         \/ \E i \in Slots : /\ cbs[i].tsn = t /\ cbs[i].func # "none"
                             /\ cbs' = [cbs EXCEPT ![i] = Answered(cbs[i])]
                             /\ buf' = Put(b, CallOf(cbs[i], about, st, x))
<1>1. CASE FindCb(t) = -1
  BY <1>1 DEF AfResp
<1>2. CASE FindCb(t) # -1
  <2>. DEFINE i == FindCb(t)
  <2>1. i \in Slots /\ cbs[i].tsn = t /\ cbs[i].func # "none"
    BY <1>2, FindCbFacts
  <2>2. cbs' = [cbs EXCEPT ![i] = Answered(cbs[i])] /\ buf' = Put(b, CallOf(cbs[i], about, st, x))
    BY <1>2 DEF AfResp
  <2>. QED BY <2>1, <2>2
<1>. QED BY <1>1, <1>2

\* A free buffer.
LEMMA NewBufFacts ==
  ASSUME FreeBufs # {}
  PROVE  NewBuf \in Bufs /\ NewBuf # Undef /\ buf[NewBuf].do = "free"
<1>1. FreeBufs \in SUBSET Nat
  BY Constants DEF FreeBufs, Bufs
<1>2. NewBuf \in FreeBufs
  BY <1>1, MinIn DEF NewBuf
<1>. QED BY <1>2, Constants DEF FreeBufs, Bufs, Undef

-----------------------------------------------------------------------------
\* The end device bind: one call, answer to come or place in the line for a
\* buffer carries it on, and what was asked is what is no longer left to ask.

InTable == {i \in Slots : cbs[i].func \in EdbFns}
Running == {b \in Bufs : EdbCall(buf[b])}
Asked(bind) == UNION {{[dev |-> d, i |-> i, bind |-> bind] : i \in edb.num[d] + 1 .. Len(edb.list[d])} : d \in {1, 2}}

\* What the callback f finds.
AtFn(f) ==
  /\ edb.asked = Asked(f = "ebind")
  /\ f = "check" => \A d \in {1, 2} : edb.num[d] = Len(edb.list[d])
  /\ edb.cur = 1 \/ (edb.cur = 2 /\ edb.num[1] = 0)
Underway == edb.p1 # Undef /\ edb.p2 # Undef /\ edb.alarm = Undef /\ ~edb.done

EdbShape ==
  /\ edb = [p1 |-> edb.p1, p2 |-> edb.p2, list |-> edb.list, num |-> edb.num, cur |-> edb.cur,
            alarm |-> edb.alarm, asked |-> edb.asked, done |-> edb.done]
  /\ edb.num = <<edb.num[1], edb.num[2]>>
  /\ \A d \in {1, 2} : Len(edb.list[d]) \in Nat /\ edb.num[d] \in 0 .. Len(edb.list[d])
  /\ edb.cur \in 1 .. 3 /\ edb.done \in BOOLEAN
  /\ edb.p1 \in Bufs \cup {Undef}
  /\ edb.p1 # Undef /\ edb.p2 = Undef => buf[edb.p1].do = "edbind"
  /\ edb.p1 = Undef => edb.p2 = Undef
  /\ edb.alarm # Undef => edb.alarm = edb.p1 /\ edb.p2 = Undef

OneChain ==
  /\ wait["check_bind"] \in {0, 1}
  /\ wait["check_bind"] = 1 => InTable = {} /\ Running = {}
  /\ InTable # {} => Running = {}
  /\ \A i, j \in InTable : i = j
  /\ \A b, c \in Running : b = c

Carried ==
  /\ wait["check_bind"] = 1 => Underway /\ edb.asked = {} /\ \A d \in {1, 2} : edb.num[d] = Len(edb.list[d])
  /\ \A i \in InTable : cbs[i].left = 1 /\ Underway /\ AtFn(cbs[i].func)
  /\ \A b \in Running : Underway /\ AtFn(buf[b].func)

EdbInv == EdbShape /\ OneChain /\ Carried /\ EdBindComplete

-----------------------------------------------------------------------------
\* Numbers: as long as the sequence numbers have not wrapped, the number of a
\* request is its sequence number.

NumInv ==
  /\ \A i \in Slots : cbs[i].func # "none" => cbs[i].req <= reqs
  /\ \A o \in owed : o.req \in 0 .. reqs
  /\ ssd.req \in 0 .. reqs
  /\ \A i \in Pends : pend.tab[i].req <= reqs
  /\ reqs < TsnMod =>
       /\ tsn = reqs
       /\ \A i \in Slots : cbs[i].func # "none" => cbs[i].req = cbs[i].tsn
       /\ \A o \in owed : o.req = o.tsn
       /\ ssd.req = ssd.tsn
       /\ \A i \in Pends : pend.tab[i].req = 0 \/ pend.tab[i].req = pend.tab[i].tsn
       /\ RightCallback

ZdoInv == Typed /\ EdbInv /\ NumInv

-----------------------------------------------------------------------------
\* Steps that have nothing to do with an end device bind.

PendKept ==
  /\ PendTyped'
  /\ \A i \in Pends : pend'.tab[i].req = 0 \/ (pend'.tab[i].req = pend.tab[i].req /\ pend'.tab[i].tsn = pend.tab[i].tsn)
BufFcn == buf' = [b \in Bufs |-> buf'[b]]
Frame ==
  /\ edb' = edb /\ BufFcn
  /\ wait' \in [Waiters -> Nat] /\ wait'["check_bind"] = wait["check_bind"]
  /\ CtxTyped' /\ PendKept
Changes(b) == buf[b].do # "edbind" /\ Plain(buf'[b])
Quiet ==
  /\ Frame /\ UNCHANGED client
  /\ \A b \in Bufs : buf'[b] = buf[b] \/ Changes(b)
OwedShape(o) == o = [req |-> o.req, tsn |-> o.tsn, clid |-> o.clid, x |-> o.x, left |-> o.left]

\* A request with the callback f.
Sends(f) ==
  /\ BufFcn /\ wait' \in [Waiters -> Nat] /\ CtxTyped' /\ PendTyped'
  /\ tsn' = NextTsn /\ reqs' = reqs + 1
  /\ ssd' = ssd \/ (ssd'.func = "app" /\ ssd'.tsn = NextTsn /\ ssd'.req = reqs + 1)
  /\ \A o \in owed' : o \in owed \/ (o.req = reqs + 1 /\ o.tsn = NextTsn /\ OwedShape(o))
  /\ \A i \in Pends : \/ pend'.tab[i].req = 0
                      \/ pend'.tab[i].req = pend.tab[i].req /\ pend'.tab[i].tsn = pend.tab[i].tsn
                      \/ pend'.tab[i].req = reqs + 1 /\ pend'.tab[i].tsn = NextTsn
  /\ \A b \in Bufs : buf'[b] = buf[b] \/ Changes(b)
  /\ \E c \in Int : (f \in EdbFns => c = 1) /\ cbs' = Register(cbs, NextTsn, f, c, reqs + 1)
OwedKept == \A o \in owed' : OwedShape(o) /\ \E p \in owed : o.req = p.req /\ o.tsn = p.tsn
Answers ==
  /\ Frame /\ OwedKept /\ UNCHANGED <<tsn, reqs, ssd>>
  /\ \E b \in Bufs, t \in Int : \E about, st, x, otherwise :
       /\ buf[b].do # "edbind" /\ Plain(otherwise)
       /\ about \in 0 .. reqs /\ (reqs < TsnMod => about = 0 \/ about = t)
       /\ AfResp(b, t, about, st, x, otherwise)

LEMMA QuietStep ==
  ASSUME ZdoInv, Quiet
  PROVE  ZdoInv'
<1>1. Typed'
  <2>1. \A b \in Bufs : JobTyped(buf'[b])
    BY DEF ZdoInv, Typed, Quiet, Changes, Plain
  <2>. QED BY <2>1 DEF ZdoInv, Typed, Quiet, Frame, PendKept, client, BufFcn, CtxTyped
<1>2. InTable' = InTable /\ Running' \subseteq Running /\ \A b \in Running' : buf'[b] = buf[b]
  <2>1. \A b \in Bufs : EdbCall(buf'[b]) => buf'[b] = buf[b]
    BY DEF Quiet, Changes, Plain, EdbCall
  <2>. QED BY <2>1 DEF InTable, Running, Quiet, client
<1>3. EdbInv'
  <2>1. EdbShape'
    <3>1. \A b \in Bufs : buf[b].do = "edbind" => buf'[b] = buf[b]
      BY DEF Quiet, Changes
    <3>. QED BY <3>1 DEF ZdoInv, EdbInv, EdbShape, Quiet, Frame
  <2>2. OneChain'
    BY <1>2 DEF ZdoInv, EdbInv, OneChain, Quiet, Frame
  <2>3. Carried'
    BY <1>2 DEF ZdoInv, EdbInv, Carried, Quiet, Frame, client, AtFn, Underway, Asked
  <2>. QED BY <2>1, <2>2, <2>3 DEF ZdoInv, EdbInv, Quiet, Frame, EdBindComplete
<1>4. NumInv'
  <2>1. RightCallback => RightCallback'
    BY DEF RightCallback, Quiet, Changes, Plain
  <2>2. tsn' = tsn /\ reqs' = reqs /\ reqs \in Nat /\ cbs' = cbs /\ ssd' = ssd /\ owed' = owed
    BY DEF ZdoInv, Typed, Quiet, client
  <2>3. \A i \in Pends : pend'.tab[i].req = 0 \/ (pend'.tab[i].req = pend.tab[i].req /\ pend'.tab[i].tsn = pend.tab[i].tsn)
    BY DEF Quiet, Frame, PendKept
  <2>4. NumInv
    BY DEF ZdoInv
  <2>. QED BY <2>1, <2>2, <2>3, <2>4 DEF NumInv
<1>. QED BY <1>1, <1>3, <1>4 DEF ZdoInv

LEMMA NextNumber ==
  ASSUME Typed, NumInv
  PROVE  /\ NextTsn \in Int /\ reqs \in Nat /\ reqs + 1 \in Nat
         /\ reqs + 1 < TsnMod => reqs < TsnMod /\ NextTsn = reqs + 1
<1>1. tsn \in Int /\ reqs \in Nat /\ TsnMod \in Nat \ {0}
  BY Constants DEF Typed
<1>2. (tsn + 1) % TsnMod \in Int
  BY <1>1
<1>3. ASSUME reqs + 1 < TsnMod PROVE reqs < TsnMod /\ (tsn + 1) % TsnMod = reqs + 1
  <2>1. reqs < TsnMod /\ tsn = reqs
    BY <1>1, <1>3 DEF NumInv
  <2>. QED BY <1>1, <1>3, <2>1
<1>. QED BY <1>1, <1>2, <1>3 DEF NextTsn

LEMMA SendsTable ==
  ASSUME Typed, NumInv, NEW f \in Funcs \cup {"null"}, Sends(f)
  PROVE  /\ cbs' \in [Slots -> Cbs]
         /\ \E i \in Slots \cup {-1} :
              /\ \A k \in Slots : k # i => cbs'[k] = cbs[k]
              /\ i # -1 => /\ cbs[i].func = "none" /\ f # "null"
                           /\ cbs'[i].func = f /\ cbs'[i].tsn = NextTsn /\ cbs'[i].req = reqs + 1
                           /\ f \in EdbFns => cbs'[i].left = 1
<1>1. PICK c \in Int : (f \in EdbFns => c = 1) /\ cbs' = Register(cbs, NextTsn, f, c, reqs + 1)
  BY DEF Sends
<1>2. cbs \in [Slots -> Cbs] /\ NextTsn \in Int /\ reqs + 1 \in Nat /\ -1 \notin Slots
  BY NextNumber DEF Typed, Slots
<1>. DEFINE new == [func |-> f, tsn |-> NextTsn, left |-> c, req |-> reqs + 1]
<1>3. \/ cbs' = cbs
      \/ f # "null" /\ \E i \in Slots : cbs[i].func = "none" /\ cbs' = [cbs EXCEPT ![i] = new]
  BY <1>1, <1>2, RegisterFacts
<1>4. CASE cbs' = cbs
  BY <1>2, <1>4
<1>5. CASE f # "null" /\ \E i \in Slots : cbs[i].func = "none" /\ cbs' = [cbs EXCEPT ![i] = new]
  <2>1. PICK i \in Slots : cbs[i].func = "none" /\ cbs' = [cbs EXCEPT ![i] = new]
    BY <1>5
  <2>2. new \in Cbs
    BY <1>1, <1>2, <1>5 DEF Cbs
  <2>3. new.func = f /\ new.tsn = NextTsn /\ new.req = reqs + 1 /\ (f \in EdbFns => new.left = 1)
    BY <1>1
  <2>. HIDE DEF new
  <2>4. cbs' \in [Slots -> Cbs] /\ cbs'[i] = new /\ \A k \in Slots : k # i => cbs'[k] = cbs[k]
    BY <1>2, <2>1, <2>2
  <2>. QED BY <1>5, <2>1, <2>3, <2>4
<1>. QED BY <1>3, <1>4, <1>5

LEMMA SendsTyped ==
  ASSUME Typed, NumInv, NEW f \in Funcs \cup {"null"}, Sends(f)
  PROVE  Typed' /\ NumInv'
<1>1. PICK i \in Slots \cup {-1} :
         /\ \A k \in Slots : k # i => cbs'[k] = cbs[k]
         /\ i # -1 => /\ cbs[i].func = "none" /\ f # "null"
                      /\ cbs'[i].func = f /\ cbs'[i].tsn = NextTsn /\ cbs'[i].req = reqs + 1
                      /\ f \in EdbFns => cbs'[i].left = 1
  BY SendsTable
<1>2. /\ NextTsn \in Int /\ reqs \in Nat /\ reqs + 1 \in Nat
      /\ reqs + 1 < TsnMod => reqs < TsnMod /\ NextTsn = reqs + 1
  BY NextNumber
<1>3. /\ tsn' = NextTsn /\ reqs' = reqs + 1
      /\ ssd' = ssd \/ (ssd'.func = "app" /\ ssd'.tsn = NextTsn /\ ssd'.req = reqs + 1)
      /\ \A o \in owed' : o \in owed \/ (o.req = reqs + 1 /\ o.tsn = NextTsn /\ OwedShape(o))
      /\ \A b \in Bufs : buf'[b] = buf[b] \/ Changes(b)
  BY DEF Sends
<1>4. Typed'
  <2>1. \A x \in Bufs : JobTyped(buf'[x])
    BY <1>3 DEF Typed, Changes, Plain
  <2>2. \A o \in owed' : o.tsn \in Int /\ o = [req |-> o.req, tsn |-> o.tsn, clid |-> o.clid, x |-> o.x, left |-> o.left]
    BY <1>2, <1>3 DEF Typed, OwedShape
  <2>3. cbs' \in [Slots -> Cbs]
    BY SendsTable
  <2>. QED BY <1>2, <1>3, <2>1, <2>2, <2>3 DEF Typed, Sends, BufFcn
<1>5. RightCallback => RightCallback'
  BY <1>3 DEF RightCallback, Changes, Plain
<1>6. \A k \in Pends : \/ pend'.tab[k].req = 0
                       \/ pend'.tab[k].req = pend.tab[k].req /\ pend'.tab[k].tsn = pend.tab[k].tsn
                       \/ pend'.tab[k].req = reqs + 1 /\ pend'.tab[k].tsn = NextTsn
  BY DEF Sends
<1>7. ASSUME NEW k \in Slots, cbs'[k].func # "none"
      PROVE  cbs'[k].req <= reqs + 1 /\ (reqs + 1 < TsnMod => cbs'[k].req = cbs'[k].tsn)
  <2>1. CASE k = i
    <3>1. i # -1
      BY <2>1 DEF Slots
    <3>. QED BY <1>1, <1>2, <2>1, <3>1
  <2>2. CASE k # i
    <3>1. cbs[k].req \in Nat
      BY DEF Typed, Cbs
    <3>. QED BY <1>1, <1>2, <1>7, <2>2, <3>1 DEF NumInv
  <2>. QED BY <2>1, <2>2
<1>8. ASSUME NEW o \in owed' PROVE o.req \in 0 .. reqs + 1 /\ (reqs + 1 < TsnMod => o.req = o.tsn)
  BY <1>2, <1>3 DEF NumInv
<1>9. ssd'.req \in 0 .. reqs + 1 /\ (reqs + 1 < TsnMod => ssd'.req = ssd'.tsn)
  BY <1>2, <1>3 DEF NumInv
<1>10. ASSUME NEW k \in Pends
       PROVE  pend'.tab[k].req <= reqs + 1 /\ (reqs + 1 < TsnMod => pend'.tab[k].req = 0 \/ pend'.tab[k].req = pend'.tab[k].tsn)
  <2>1. pend.tab[k].req <= reqs /\ pend.tab[k].req \in Nat
    BY DEF NumInv, Typed, PendTyped, PendOk
  <2>2. reqs < TsnMod => pend.tab[k].req = 0 \/ pend.tab[k].req = pend.tab[k].tsn
    BY DEF NumInv
  <2>. QED BY <1>2, <1>6, <2>1, <2>2
<1>11. NumInv'
  <2>1. reqs < TsnMod => RightCallback
    BY DEF NumInv
  <2>. QED BY <1>2, <1>3, <1>5, <1>7, <1>8, <1>9, <1>10, <2>1 DEF NumInv
<1>. QED BY <1>4, <1>11

\* A request that is no part of an end device bind.
LEMMA SendsStep ==
  ASSUME ZdoInv, NEW f \in (Funcs \ EdbFns) \cup {"null"}, Sends(f), edb' = edb, wait'["check_bind"] = wait["check_bind"]
  PROVE  ZdoInv'
<1>1. Typed' /\ NumInv'
  BY SendsTyped DEF ZdoInv
<1>2. PICK i \in Slots \cup {-1} :
         /\ \A k \in Slots : k # i => cbs'[k] = cbs[k]
         /\ i # -1 => cbs[i].func = "none" /\ cbs'[i].func = f
  BY SendsTable DEF ZdoInv
<1>3. InTable' = InTable /\ \A k \in InTable : cbs'[k] = cbs[k]
  <2>1. ASSUME NEW k \in Slots
        PROVE  (cbs'[k].func \in EdbFns <=> cbs[k].func \in EdbFns) /\ (cbs[k].func \in EdbFns => cbs'[k] = cbs[k])
    <3>1. CASE k = i
      <4>1. i # -1
        BY <3>1 DEF Slots
      <4>2. cbs[i].func \notin EdbFns /\ cbs'[i].func \notin EdbFns
        BY <1>2, <4>1 DEF EdbFns
      <4>. QED BY <3>1, <4>2
    <3>2. CASE k # i
      BY <1>2, <3>2
    <3>. QED BY <3>1, <3>2
  <2>. QED BY <2>1 DEF InTable
<1>4. \A b \in Bufs : buf'[b] = buf[b] \/ Changes(b)
  BY DEF Sends
<1>5. Running' \subseteq Running /\ \A x \in Running' : buf'[x] = buf[x]
  BY <1>4 DEF Running, EdbCall, Changes, Plain
<1>6. EdbShape /\ OneChain /\ Carried /\ EdBindComplete
  BY DEF ZdoInv, EdbInv
<1>7. EdbShape'
  BY <1>4, <1>6 DEF EdbShape, Changes
<1>8. OneChain'
  BY <1>3, <1>5, <1>6 DEF OneChain
<1>9. Carried'
  <2>1. Underway' = Underway /\ \A g : AtFn(g)' = AtFn(g)
    BY DEF Underway, AtFn, Asked
  <2>. QED BY <1>3, <1>5, <1>6, <2>1 DEF Carried
<1>. QED BY <1>1, <1>6, <1>7, <1>8, <1>9 DEF ZdoInv, EdbInv, EdBindComplete

LEMMA SendReqSends ==
  ASSUME Typed, NumInv, NEW b \in Bufs, NEW q, buf[b].do # "edbind", SendReq(b, q),
         q.clid # "ssd", q.count \in Int, q.func \in EdbFns => q.count = 1,
         wait' \in [Waiters -> Nat], CtxTyped', PendKept
  PROVE  Sends(q.func)
<1>1. NextTsn \in Int /\ buf = [x \in Bufs |-> buf[x]]
  BY NextNumber DEF Typed
<1>2. /\ tsn' = NextTsn /\ reqs' = reqs + 1 /\ ssd' = ssd /\ owed' = owed \cup Owe(q)
      /\ cbs' = Register(cbs, NextTsn, q.func, q.count, reqs + 1) /\ buf' = Put(b, TxReq(q, NextTsn, reqs + 1))
  BY DEF SendReq
<1>3. /\ buf' = [x \in Bufs |-> buf'[x]] /\ buf'[b] = TxReq(q, NextTsn, reqs + 1)
      /\ \A x \in Bufs : x # b => buf'[x] = buf[x]
  BY <1>1, <1>2, PutFacts
<1>4. Changes(b)
  BY <1>1, <1>3 DEF Changes, Plain, JobTyped, TxReq
<1>5. \A o \in Owe(q) : o.req = reqs + 1 /\ o.tsn = NextTsn /\ OwedShape(o)
  BY DEF Owe, OwedShape
<1>6. \A i \in Pends : pend'.tab[i].req = 0 \/ (pend'.tab[i].req = pend.tab[i].req /\ pend'.tab[i].tsn = pend.tab[i].tsn)
  BY DEF PendKept
<1>7. PendTyped'
  BY DEF PendKept
<1>. QED BY <1>2, <1>3, <1>4, <1>5, <1>6, <1>7 DEF Sends, BufFcn

LEMMA AnsweredFacts ==
  ASSUME NEW e \in Cbs
  PROVE  /\ Answered(e) \in Cbs
         /\ Answered(e).func # "none" => Answered(e).func = e.func /\ Answered(e).tsn = e.tsn /\ Answered(e).req = e.req
         /\ e.left = 1 => Answered(e).func = "none"
<1>1. NoCb \in Cbs /\ NoCb.func = "none"
  BY DEF NoCb, Cbs, Funcs
<1>2. Wrap \in Nat \ {0} /\ e.left \in Int
  BY Constants DEF Cbs
<1>3. (e.left - 1 + Wrap) % Wrap \in Int
  BY <1>2
<1>4. e.left = 1 => (e.left - 1 + Wrap) % Wrap = 0
  <2>1. Wrap % Wrap = 0
    BY <1>2
  <2>. QED BY <1>2, <2>1
<1>. QED BY <1>1, <1>3, <1>4 DEF Answered, Cbs

\* An answer, or what is taken for one, hands the place in the table over to
\* the call.
LEMMA AnswersStep ==
  ASSUME ZdoInv, Answers
  PROVE  ZdoInv'
<1>1. PICK b \in Bufs, t \in Int : \E about, st, x, otherwise :
         /\ buf[b].do # "edbind" /\ Plain(otherwise)
         /\ about \in 0 .. reqs /\ (reqs < TsnMod => about = 0 \/ about = t)
         /\ AfResp(b, t, about, st, x, otherwise)
  BY DEF Answers
<1>2. PICK about, st, x, otherwise :
         /\ buf[b].do # "edbind" /\ Plain(otherwise)
         /\ about \in 0 .. reqs /\ (reqs < TsnMod => about = 0 \/ about = t)
         /\ AfResp(b, t, about, st, x, otherwise)
  BY <1>1
<1>3. /\ cbs \in [Slots -> Cbs] /\ buf = [y \in Bufs |-> buf[y]]
      /\ tsn' = tsn /\ reqs' = reqs /\ ssd' = ssd /\ reqs \in Nat /\ edb' = edb /\ wait'["check_bind"] = wait["check_bind"]
  BY DEF ZdoInv, Typed, Answers, Frame
<1>4. PICK i \in Slots \cup {-1} : LET job == IF i = -1 THEN otherwise ELSE CallOf(cbs[i], about, st, x) IN
        /\ i = -1 => cbs' = cbs
        /\ i # -1 => cbs[i].tsn = t /\ cbs[i].func # "none" /\ cbs' = [cbs EXCEPT ![i] = Answered(cbs[i])]
        /\ buf' = Put(b, job)
  <2>1. -1 \notin Slots
    BY DEF Slots
  <2>2. \/ cbs' = cbs /\ buf' = Put(b, otherwise)
        \/ \E i \in Slots : /\ cbs[i].tsn = t /\ cbs[i].func # "none"
                            /\ cbs' = [cbs EXCEPT ![i] = Answered(cbs[i])]
                            /\ buf' = Put(b, CallOf(cbs[i], about, st, x))
    BY <1>2, AfRespFacts
  <2>. QED BY <2>1, <2>2
<1>. DEFINE job == IF i = -1 THEN otherwise ELSE CallOf(cbs[i], about, st, x)
<1>5. /\ buf'[b] = job /\ \A y \in Bufs : y # b => buf'[y] = buf[y]
  BY <1>3, <1>4, PutFacts
<1>6. i # -1 => i \in Slots /\ cbs[i] \in Cbs
  BY <1>3
<1>7. /\ cbs' \in [Slots -> Cbs]
      /\ \A k \in Slots : k # i => cbs'[k] = cbs[k]
      /\ i # -1 => cbs'[i] = Answered(cbs[i])
  <2>1. CASE i = -1
    BY <1>3, <1>4, <2>1 DEF Slots
  <2>2. CASE i # -1
    <3>1. Answered(cbs[i]) \in Cbs
      BY <1>6, <2>2, AnsweredFacts
    <3>. QED BY <1>3, <1>4, <1>6, <2>2, <3>1
  <2>. QED BY <2>1, <2>2
<1>8. \A k \in Slots : /\ cbs'[k].func # "none" => cbs'[k].func = cbs[k].func /\ cbs'[k].tsn = cbs[k].tsn /\ cbs'[k].req = cbs[k].req
                       /\ k = i /\ cbs[k].left = 1 => cbs'[k].func = "none"
  <2>. TAKE k \in Slots
  <2>1. CASE k = i
    <3>1. i # -1 /\ cbs[i] \in Cbs
      BY <1>6, <2>1 DEF Slots
    <3>. QED BY <1>7, <2>1, <3>1, AnsweredFacts
  <2>2. CASE k # i
    BY <1>7, <2>2
  <2>. QED BY <2>1, <2>2
<1>9. /\ i # -1 => job.do = "call" /\ job.func = cbs[i].func /\ job.req = cbs[i].req /\ job.about = about
      /\ i = -1 => job = otherwise
  BY DEF CallOf
<1>. HIDE DEF job
<1>10. JobTyped(job) /\ job.do # "edbind"
  <2>1. CASE i = -1
    BY <1>2, <1>9, <2>1 DEF Plain
  <2>2. CASE i # -1
    BY <1>6, <1>9, <2>2 DEF JobTyped, Cbs
  <2>. QED BY <2>1, <2>2
<1>11. Typed'
  <2>1. \A y \in Bufs : JobTyped(buf'[y])
    BY <1>5, <1>10 DEF ZdoInv, Typed
  <2>2. \A o \in owed' : o.tsn \in Int /\ o = [req |-> o.req, tsn |-> o.tsn, clid |-> o.clid, x |-> o.x, left |-> o.left]
    BY DEF ZdoInv, Typed, Answers, OwedKept, OwedShape
  <2>. QED BY <1>3, <1>7, <2>1, <2>2 DEF ZdoInv, Typed, Answers, Frame, PendKept, BufFcn, CtxTyped
<1>12. EdbInv'
  <2>0. EdbShape /\ OneChain /\ Carried /\ EdBindComplete
    BY DEF ZdoInv, EdbInv
  <2>1. EdbShape'
    BY <1>2, <1>3, <1>5, <2>0 DEF EdbShape
  <2>2. InTable' \subseteq InTable /\ \A k \in InTable' : k # i /\ cbs'[k] = cbs[k]
    <3>1. ASSUME NEW k \in InTable' PROVE k \in InTable /\ k # i
      <4>1. k \in Slots /\ cbs'[k].func \in EdbFns /\ cbs'[k].func # "none"
        BY DEF InTable, EdbFns
      <4>2. k \in InTable
        BY <1>8, <4>1 DEF InTable
      <4>3. cbs[k].left = 1
        BY <2>0, <4>2 DEF Carried
      <4>. QED BY <1>8, <4>1, <4>2, <4>3
    <3>. QED BY <1>7, <3>1 DEF InTable
  <2>3. \A y \in Running' : /\ y # b => y \in Running /\ buf'[y] = buf[y]
                            /\ y = b => i \in InTable /\ buf'[b].func = cbs[i].func
    <3>1. b \in Running' => i # -1 /\ cbs[i].func \in EdbFns /\ buf'[b].func = cbs[i].func
      BY <1>2, <1>5, <1>9 DEF Running, EdbCall, Plain
    <3>2. b \in Running' => i \in InTable
      BY <1>6, <3>1 DEF InTable
    <3>. QED BY <1>5, <3>1, <3>2 DEF Running
  <2>4. InTable # {} => Running = {}
    BY <2>0 DEF OneChain
  <2>5. b \in Running' => InTable' = {} /\ Running' \subseteq {b} /\ wait["check_bind"] = 0
    <3>1. SUFFICES ASSUME b \in Running' PROVE InTable' = {} /\ Running' \subseteq {b} /\ wait["check_bind"] = 0
      OBVIOUS
    <3>2. i \in InTable
      BY <2>3, <3>1
    <3>. QED BY <2>0, <2>2, <2>3, <2>4, <3>2 DEF OneChain
  <2>6. OneChain'
    <3>1. CASE b \in Running'
      BY <1>3, <2>0, <2>5, <3>1 DEF OneChain
    <3>2. CASE b \notin Running'
      <4>1. Running' \subseteq Running
        BY <2>3, <3>2
      <4>. QED BY <1>3, <2>0, <2>2, <4>1 DEF OneChain
    <3>. QED BY <3>1, <3>2
  <2>7. Carried'
    <3>1. Underway' = Underway /\ \A f : AtFn(f)' = AtFn(f)
      BY <1>3 DEF Underway, AtFn, Asked
    <3>2. \A y \in Running' : Underway /\ AtFn(buf'[y].func)
      BY <2>0, <2>3 DEF Carried
    <3>3. \A k \in InTable' : cbs'[k].left = 1 /\ Underway /\ AtFn(cbs'[k].func)
      BY <2>0, <2>2 DEF Carried
    <3>. QED BY <1>3, <2>0, <3>1, <3>2, <3>3 DEF Carried
  <2>. QED BY <1>3, <2>0, <2>1, <2>6, <2>7 DEF EdbInv, EdBindComplete
<1>13. NumInv'
  <2>1. NumInv
    BY DEF ZdoInv
  <2>2. reqs < TsnMod => RightCallback'
    <3>1. SUFFICES ASSUME reqs < TsnMod, NEW y \in Bufs, buf'[y].do = "call", buf'[y].about # 0 PROVE buf'[y].req = buf'[y].about
      BY DEF RightCallback
    <3>2. CASE y # b
      BY <1>5, <2>1, <3>1, <3>2 DEF NumInv, RightCallback
    <3>3. CASE y = b
      <4>1. i # -1
        BY <1>2, <1>5, <1>9, <3>1, <3>3 DEF Plain
      <4>2. cbs[i].tsn = t /\ cbs[i].func # "none" /\ about # 0 /\ about = t
        BY <1>2, <1>4, <1>5, <1>9, <3>1, <3>3, <4>1
      <4>3. cbs[i].req = cbs[i].tsn
        BY <1>6, <2>1, <3>1, <4>1, <4>2 DEF NumInv
      <4>. QED BY <1>5, <1>9, <3>3, <4>1, <4>2, <4>3
    <3>. QED BY <3>2, <3>3
  <2>3. \A k \in Pends : pend'.tab[k].req = 0 \/ (pend'.tab[k].req = pend.tab[k].req /\ pend'.tab[k].tsn = pend.tab[k].tsn)
    BY DEF Answers, Frame, PendKept
  <2>4. \A o \in owed' : \E p \in owed : o.req = p.req /\ o.tsn = p.tsn
    BY DEF Answers, OwedKept
  <2>. QED BY <1>3, <1>8, <2>1, <2>2, <2>3, <2>4 DEF NumInv
<1>. QED BY <1>11, <1>12, <1>13 DEF ZdoInv


-----------------------------------------------------------------------------
\* The steps of an end device bind.

LEMMA AskedNothing ==
  ASSUME \A d \in {1, 2} : edb.num[d] = Len(edb.list[d]) /\ Len(edb.list[d]) \in Nat, NEW bind
  PROVE  Asked(bind) = {}
<1>1. \A d \in {1, 2} : edb.num[d] + 1 .. Len(edb.list[d]) = {}
  OBVIOUS
<1>. QED BY <1>1 DEF Asked

\* The first request, once there is a buffer for it.
LEMMA CheckStep ==
  ASSUME ZdoInv, Sends("check"), wait["check_bind"] > 0, wait'["check_bind"] = wait["check_bind"] - 1,
         edb' = [edb EXCEPT !.cur = IF edb.num[1] > 0 THEN 1 ELSE 2]
  PROVE  ZdoInv'
<1>1. Typed' /\ NumInv'
  BY SendsTyped DEF ZdoInv, Funcs, EdbFns
<1>2. PICK i \in Slots \cup {-1} :
         /\ \A k \in Slots : k # i => cbs'[k] = cbs[k]
         /\ i # -1 => cbs'[i].func = "check" /\ cbs'[i].left = 1
  <2>1. "check" \in Funcs \cup {"null"} /\ "check" \in EdbFns
    BY DEF Funcs, EdbFns
  <2>. QED BY <2>1, SendsTable DEF ZdoInv
<1>3. EdbShape /\ OneChain /\ Carried /\ EdBindComplete
  BY DEF ZdoInv, EdbInv
<1>4. wait["check_bind"] = 1 /\ wait'["check_bind"] = 0
  BY <1>3 DEF OneChain
<1>5. InTable = {} /\ Running = {} /\ Underway /\ edb.asked = {} /\ \A d \in {1, 2} : edb.num[d] = Len(edb.list[d])
  BY <1>3, <1>4 DEF OneChain, Carried
<1>6. \A b \in Bufs : buf'[b] = buf[b] \/ Changes(b)
  BY DEF Sends
<1>7. Running' = {}
  BY <1>5, <1>6 DEF Running, EdbCall, Changes, Plain
<1>8. \A k \in InTable' : k = i /\ i # -1
  BY <1>2, <1>5 DEF InTable, Slots
<1>9. /\ edb'.num = edb.num /\ edb'.list = edb.list /\ edb'.asked = edb.asked /\ edb'.done = edb.done
      /\ edb'.p1 = edb.p1 /\ edb'.p2 = edb.p2 /\ edb'.alarm = edb.alarm
      /\ edb'.cur = IF edb.num[1] > 0 THEN 1 ELSE 2
  BY <1>3 DEF EdbShape
<1>10. EdbShape'
  <2>1. edb' = [p1 |-> edb'.p1, p2 |-> edb'.p2, list |-> edb'.list, num |-> edb'.num, cur |-> edb'.cur,
                alarm |-> edb'.alarm, asked |-> edb'.asked, done |-> edb'.done]
    BY <1>3 DEF EdbShape
  <2>2. edb'.cur \in 1 .. 3
    BY <1>9
  <2>3. edb.p1 # Undef /\ edb.p2 # Undef
    BY <1>5 DEF Underway
  <2>. QED BY <1>3, <1>9, <2>1, <2>2, <2>3 DEF EdbShape
<1>11. OneChain'
  BY <1>4, <1>7, <1>8 DEF OneChain
<1>12. Carried'
  <2>1. Underway'
    BY <1>5, <1>9 DEF Underway
  <2>2. AtFn("check")'
    <3>1. Asked("check" = "ebind")' = {}
      BY <1>3, <1>5, <1>9, AskedNothing DEF Asked, EdbShape
    <3>2. edb.num[1] \in Nat
      BY <1>3 DEF EdbShape
    <3>3. edb'.asked = Asked("check" = "ebind")'
      BY <1>5, <1>9, <3>1
    <3>4. \A d \in {1, 2} : edb'.num[d] = Len(edb'.list[d])
      BY <1>5, <1>9
    <3>5. edb'.cur = 1 \/ (edb'.cur = 2 /\ edb'.num[1] = 0)
      BY <1>9, <3>2
    <3>. QED BY <3>3, <3>4, <3>5 DEF AtFn
  <2>3. \A k \in InTable' : cbs'[k].left = 1 /\ cbs'[k].func = "check"
    BY <1>2, <1>8
  <2>. QED BY <1>4, <1>7, <2>1, <2>2, <2>3 DEF Carried
<1>13. EdBindComplete'
  BY <1>3, <1>9 DEF EdBindComplete
<1>. QED BY <1>1, <1>10, <1>11, <1>12, <1>13 DEF ZdoInv, EdbInv

\* What a callback of the end device bind finds, when it runs.
LEMMA CallbackFacts ==
  ASSUME ZdoInv, NEW b \in Bufs, EdbCall(buf[b])
  PROVE  /\ EdbShape /\ EdBindComplete /\ Underway /\ AtFn(buf[b].func)
         /\ InTable = {} /\ Running = {b} /\ wait["check_bind"] = 0
         /\ edb.cur \in {1, 2} /\ (edb.cur = 2 => edb.num[1] = 0)
         /\ buf[b].do = "call" /\ buf[b].func \in EdbFns
         /\ \A bind \in BOOLEAN : buf[b].func = "check" \/ bind = (buf[b].func = "ebind") => edb.asked = Asked(bind)
<1>1. EdbShape /\ OneChain /\ Carried /\ EdBindComplete
  BY DEF ZdoInv, EdbInv
<1>2. b \in Running
  BY DEF Running
<1>3. InTable = {} /\ Running = {b} /\ wait["check_bind"] = 0
  BY <1>1, <1>2 DEF OneChain
<1>4. Underway /\ AtFn(buf[b].func)
  BY <1>1, <1>2 DEF Carried
<1>5. buf[b].func = "check" => \A bind : edb.asked = Asked(bind)
  <2>1. SUFFICES ASSUME buf[b].func = "check", NEW bind PROVE edb.asked = Asked(bind)
    OBVIOUS
  <2>2. \A d \in {1, 2} : edb.num[d] = Len(edb.list[d]) /\ Len(edb.list[d]) \in Nat
    BY <1>1, <1>4, <2>1 DEF AtFn, EdbShape
  <2>3. edb.asked = Asked(buf[b].func = "ebind")
    BY <1>4 DEF AtFn
  <2>4. \A x : Asked(x) = {}
    BY <2>2, AskedNothing
  <2>. QED BY <2>3, <2>4
<1>6. edb.asked = Asked(buf[b].func = "ebind")
  BY <1>4 DEF AtFn
<1>7. edb.cur \in {1, 2} /\ (edb.cur = 2 => edb.num[1] = 0)
  BY <1>4 DEF AtFn
<1>8. buf[b].do = "call" /\ buf[b].func \in EdbFns
  BY DEF EdbCall
<1>. QED BY <1>1, <1>3, <1>4, <1>5, <1>6, <1>7, <1>8

\* The next cluster of the device: its request is sent.
LEMMA AskStep ==
  ASSUME ZdoInv, NEW b \in Bufs, EdbCall(buf[b]), NEW bind \in BOOLEAN,
         buf[b].func = "check" \/ bind = (buf[b].func = "ebind"),
         edb.num[edb.cur] > 0,
         edb' = [edb EXCEPT !.num[edb.cur] = @ - 1,
                            !.asked = @ \cup {[dev |-> edb.cur, i |-> edb.num[edb.cur], bind |-> bind]}],
         Sends(IF bind THEN "ebind" ELSE "eunbind"), buf'[b].do = "tx", wait' = wait
  PROVE  ZdoInv'
<1>. DEFINE f == IF bind THEN "ebind" ELSE "eunbind"
            c == edb.cur
<1>1. Typed' /\ NumInv'
  BY SendsTyped DEF ZdoInv, Funcs, EdbFns
<1>2. PICK i \in Slots \cup {-1} :
         /\ \A k \in Slots : k # i => cbs'[k] = cbs[k]
         /\ i # -1 => cbs'[i].func = f /\ cbs'[i].left = 1
  <2>1. f \in Funcs \cup {"null"} /\ f \in EdbFns
    BY DEF Funcs, EdbFns
  <2>. QED BY <2>1, SendsTable DEF ZdoInv
<1>3. /\ EdbShape /\ EdBindComplete /\ Underway
      /\ InTable = {} /\ Running = {b} /\ wait["check_bind"] = 0
      /\ c \in {1, 2} /\ (c = 2 => edb.num[1] = 0)
      /\ edb.asked = Asked(bind)
  BY CallbackFacts
<1>4. Running' = {}
  <2>1. \A y \in Bufs : buf'[y] = buf[y] \/ Changes(y)
    BY DEF Sends
  <2>2. \A y \in Bufs : y # b => ~EdbCall(buf[y])
    BY <1>3 DEF Running
  <2>. QED BY <2>1, <2>2 DEF Running, EdbCall, Changes, Plain
<1>5. \A k \in InTable' : k = i /\ i # -1
  BY <1>2, <1>3 DEF InTable, Slots
<1>6. /\ edb'.list = edb.list /\ edb'.done = edb.done /\ edb'.cur = c
      /\ edb'.p1 = edb.p1 /\ edb'.p2 = edb.p2 /\ edb'.alarm = edb.alarm
      /\ edb'.num[c] = edb.num[c] - 1 /\ \A d \in {1, 2} \ {c} : edb'.num[d] = edb.num[d]
      /\ edb'.num = <<edb'.num[1], edb'.num[2]>>
      /\ edb'.asked = edb.asked \cup {[dev |-> c, i |-> edb.num[c], bind |-> bind]}
      /\ edb' = [p1 |-> edb'.p1, p2 |-> edb'.p2, list |-> edb'.list, num |-> edb'.num, cur |-> edb'.cur,
                 alarm |-> edb'.alarm, asked |-> edb'.asked, done |-> edb'.done]
  <2>1. edb = [p1 |-> edb.p1, p2 |-> edb.p2, list |-> edb.list, num |-> edb.num, cur |-> edb.cur,
               alarm |-> edb.alarm, asked |-> edb.asked, done |-> edb.done]
    BY <1>3 DEF EdbShape
  <2>2. edb.num = <<edb.num[1], edb.num[2]>>
    BY <1>3 DEF EdbShape
  <2>. DEFINE num == [edb.num EXCEPT ![c] = @ - 1]
  <2>3. num = <<num[1], num[2]>> /\ num[c] = edb.num[c] - 1 /\ \A d \in {1, 2} \ {c} : num[d] = edb.num[d]
    BY <1>3, <2>2
  <2>4. edb' = [edb EXCEPT !.num = num, !.asked = edb.asked \cup {[dev |-> c, i |-> edb.num[c], bind |-> bind]}]
    BY <2>1
  <2>. HIDE DEF num
  <2>. QED BY <2>1, <2>3, <2>4
<1>7. \A d \in {1, 2} : edb.num[d] \in Nat /\ Len(edb.list[d]) \in Nat /\ edb.num[d] <= Len(edb.list[d])
  BY <1>3 DEF EdbShape
<1>8. edb.num[c] > 0
  OBVIOUS
<1>. HIDE DEF c, f
<1>9. \A d \in {1, 2} : edb'.num[d] \in 0 .. Len(edb.list[d])
  BY <1>3, <1>6, <1>7, <1>8
<1>10. EdbShape'
  BY <1>3, <1>6, <1>9 DEF EdbShape, Underway
<1>11. OneChain'
  BY <1>3, <1>4, <1>5 DEF OneChain
<1>12. edb'.asked = Asked(bind)'
  <2>. DEFINE Rest(d, k) == {[dev |-> d, i |-> j, bind |-> bind] : j \in k + 1 .. Len(edb.list[d])}
  <2>1. edb.asked = Rest(1, edb.num[1]) \cup Rest(2, edb.num[2])
    BY <1>3 DEF Asked
  <2>2. Asked(bind)' = Rest(1, edb'.num[1]) \cup Rest(2, edb'.num[2])
    BY <1>6 DEF Asked
  <2>3. Rest(c, edb'.num[c]) = Rest(c, edb.num[c]) \cup {[dev |-> c, i |-> edb.num[c], bind |-> bind]}
    <3>1. edb'.num[c] + 1 .. Len(edb.list[c]) = (edb.num[c] + 1 .. Len(edb.list[c])) \cup {edb.num[c]}
      BY <1>3, <1>6, <1>7, <1>8
    <3>. QED BY <3>1
  <2>. HIDE DEF Rest
  <2>4. CASE c = 1
    <3>1. edb'.num[2] = edb.num[2]
      BY <1>6, <2>4
    <3>. QED BY <1>6, <2>1, <2>2, <2>3, <2>4, <3>1
  <2>5. CASE c = 2
    <3>1. edb'.num[1] = edb.num[1]
      BY <1>6, <2>5
    <3>. QED BY <1>6, <2>1, <2>2, <2>3, <2>5, <3>1
  <2>. QED BY <1>3, <2>4, <2>5
<1>13. Carried'
  <2>1. Underway'
    BY <1>3, <1>6 DEF Underway
  <2>2. (f = "ebind") = bind /\ f # "check"
    BY DEF f
  <2>3. AtFn(f)'
    <3>1. edb'.asked = Asked(f = "ebind")'
      BY <1>12, <2>2
    <3>2. edb'.cur = 1 \/ (edb'.cur = 2 /\ edb'.num[1] = 0)
      BY <1>3, <1>6
    <3>. QED BY <2>2, <3>1, <3>2 DEF AtFn
  <2>4. \A k \in InTable' : cbs'[k].left = 1 /\ cbs'[k].func = f
    BY <1>2, <1>5
  <2>. QED BY <1>3, <1>4, <2>1, <2>3, <2>4 DEF Carried
<1>14. EdBindComplete'
  BY <1>3, <1>6 DEF EdBindComplete, Underway
<1>. QED BY <1>1, <1>10, <1>11, <1>13, <1>14 DEF ZdoInv, EdbInv

\* The clusters of the first device are done: the callback goes once more
\* through the scheduler for those of the second.
LEMMA TurnStep ==
  ASSUME ZdoInv, NEW b \in Bufs, EdbCall(buf[b]), NEW bind \in BOOLEAN,
         buf[b].func = "check" \/ bind = (buf[b].func = "ebind"),
         edb.cur = 1, ~(edb.num[1] > 0), edb' = [edb EXCEPT !.cur = 2],
         buf' = Put(b, CallOf([func |-> IF bind THEN "ebind" ELSE "eunbind", req |-> 0], 0, "ok", "none")),
         UNCHANGED <<client, wait, ctx, pend>>
  PROVE  ZdoInv'
<1>. DEFINE f == IF bind THEN "ebind" ELSE "eunbind"
<1>1. /\ EdbShape /\ EdBindComplete /\ Underway
      /\ InTable = {} /\ Running = {b} /\ wait["check_bind"] = 0
      /\ edb.asked = Asked(bind)
  BY CallbackFacts
<1>2. /\ buf' = [x \in Bufs |-> buf'[x]] /\ buf'[b] = CallOf([func |-> f, req |-> 0], 0, "ok", "none")
      /\ \A x \in Bufs : x # b => buf'[x] = buf[x]
  BY PutFacts DEF ZdoInv, Typed
<1>3. buf'[b].do = "call" /\ buf'[b].func = f /\ buf'[b].about = 0
  BY <1>2 DEF CallOf
<1>4. f \in EdbFns /\ f # "check" /\ (f = "ebind") = bind
  BY DEF EdbFns
<1>. HIDE DEF f
<1>5. Typed'
  <2>1. JobTyped(buf'[b])
    BY <1>3, <1>4 DEF JobTyped, Funcs
  <2>2. \A x \in Bufs : JobTyped(buf'[x])
    BY <1>2, <2>1 DEF ZdoInv, Typed
  <2>. QED BY <1>2, <2>2 DEF ZdoInv, Typed, client, CtxTyped, PendTyped
<1>6. NumInv'
  <2>1. RightCallback => RightCallback'
    BY <1>2, <1>3 DEF RightCallback
  <2>. QED BY <2>1 DEF ZdoInv, NumInv, client
<1>7. Running' = {b} /\ InTable' = {}
  BY <1>1, <1>2, <1>3, <1>4 DEF Running, EdbCall, InTable, client
<1>8. /\ edb'.num = edb.num /\ edb'.list = edb.list /\ edb'.asked = edb.asked /\ edb'.done = edb.done
      /\ edb'.p1 = edb.p1 /\ edb'.p2 = edb.p2 /\ edb'.alarm = edb.alarm /\ edb'.cur = 2
      /\ edb' = [p1 |-> edb'.p1, p2 |-> edb'.p2, list |-> edb'.list, num |-> edb'.num, cur |-> edb'.cur,
                 alarm |-> edb'.alarm, asked |-> edb'.asked, done |-> edb'.done]
  BY <1>1 DEF EdbShape
<1>9. EdbShape'
  BY <1>1, <1>8 DEF EdbShape, Underway
<1>10. OneChain'
  BY <1>1, <1>7 DEF OneChain
<1>11. edb'.num[1] = 0
  BY <1>1, <1>8 DEF EdbShape
<1>12. AtFn(f)'
  <2>1. edb'.asked = Asked(f = "ebind")'
    BY <1>1, <1>4, <1>8 DEF Asked
  <2>. QED BY <1>4, <1>8, <1>11, <2>1 DEF AtFn
<1>13. Carried'
  BY <1>1, <1>3, <1>7, <1>8, <1>12 DEF Carried, Underway
<1>14. EdBindComplete'
  BY <1>1, <1>8 DEF EdBindComplete
<1>. QED BY <1>5, <1>6, <1>9, <1>10, <1>13, <1>14 DEF ZdoInv, EdbInv

\* Both devices were asked for everything that is left: the end.
LEMMA EndStep ==
  ASSUME ZdoInv, NEW b \in Bufs, EdbCall(buf[b]), NEW bind \in BOOLEAN,
         buf[b].func = "check" \/ bind = (buf[b].func = "ebind"),
         edb.cur # 1, ~(edb.num[edb.cur] > 0), edb' = [EdbEnded(edb) EXCEPT !.cur = 3, !.done = TRUE],
         buf' = Put(b, Free),
         UNCHANGED <<client, wait, ctx, pend>>
  PROVE  ZdoInv'
<1>1. /\ EdbShape /\ EdBindComplete /\ Underway
      /\ InTable = {} /\ Running = {b} /\ wait["check_bind"] = 0
      /\ edb.asked = Asked(bind) /\ edb.cur = 2 /\ edb.num[1] = 0
  BY CallbackFacts
<1>2. /\ buf' = [x \in Bufs |-> buf'[x]] /\ buf'[b] = Free
      /\ \A x \in Bufs : x # b => buf'[x] = buf[x]
  BY PutFacts DEF ZdoInv, Typed
<1>3. buf'[b].do = "free"
  BY <1>2 DEF Free, J
<1>5. Typed'
  <2>1. \A x \in Bufs : JobTyped(buf'[x])
    BY <1>2, <1>3 DEF ZdoInv, Typed, JobTyped
  <2>. QED BY <1>2, <2>1 DEF ZdoInv, Typed, client, CtxTyped, PendTyped
<1>6. NumInv'
  <2>1. RightCallback => RightCallback'
    BY <1>2, <1>3 DEF RightCallback
  <2>. QED BY <2>1 DEF ZdoInv, NumInv, client
<1>7. Running' = {} /\ InTable' = {}
  BY <1>1, <1>2, <1>3 DEF Running, EdbCall, InTable, client
<1>8. /\ edb'.num = edb.num /\ edb'.list = edb.list /\ edb'.asked = edb.asked /\ edb'.done
      /\ edb'.p1 = Undef /\ edb'.p2 = Undef /\ edb'.alarm = edb.alarm /\ edb'.cur = 3
      /\ edb' = [p1 |-> edb'.p1, p2 |-> edb'.p2, list |-> edb'.list, num |-> edb'.num, cur |-> edb'.cur,
                 alarm |-> edb'.alarm, asked |-> edb'.asked, done |-> edb'.done]
  BY <1>1 DEF EdbShape, EdbEnded
<1>9. EdbShape'
  BY <1>1, <1>8 DEF EdbShape, Underway
<1>10. OneChain' /\ Carried'
  BY <1>1, <1>7 DEF OneChain, Carried
<1>11. EdBindComplete'
  <2>1. edb.num[1] = 0 /\ edb.num[2] = 0
    BY <1>1 DEF EdbShape
  <2>2. \A d \in {1, 2} : edb.num[d] + 1 = 1
    BY <2>1
  <2>3. edb'.asked = UNION {{[dev |-> d, i |-> i, bind |-> bind] : i \in 1 .. Len(edb'.list[d])} : d \in {1, 2}}
    BY <1>1, <1>8, <2>2 DEF Asked
  <2>. QED BY <2>3 DEF EdBindComplete
<1>. QED BY <1>5, <1>6, <1>9, <1>10, <1>11 DEF ZdoInv, EdbInv

-----------------------------------------------------------------------------
\* The lists of matched clusters.

Joined(s, h, i) == IF i = 1 THEN s[i] ELSE h[i - 1] \o s[i]
IsJoin(S, s, h, k) == h \in [1 .. k -> Seq(S)] /\ \A i \in 1 .. k : h[i] = Joined(s, h, i)

LEMMA JoinExists ==
  ASSUME NEW S, NEW s, \A i \in 1 .. Len(s) : s[i] \in Seq(S), Len(s) \in Nat \ {0}
  PROVE  \E h : IsJoin(S, s, h, Len(s))
<1>. DEFINE T == {k \in Nat : k < Len(s) => \E h : IsJoin(S, s, h, k + 1)}
<1>1. 0 \in T
  <2>. DEFINE h0 == [i \in 1 .. 1 |-> s[i]]
  <2>1. h0 \in [1 .. 1 -> Seq(S)] /\ \A i \in 1 .. 1 : h0[i] = s[i] /\ i = 1
    OBVIOUS
  <2>. HIDE DEF h0
  <2>2. IsJoin(S, s, h0, 0 + 1)
    BY <2>1 DEF IsJoin, Joined
  <2>. QED BY <2>2
<1>2. ASSUME NEW k \in Nat, k \in T PROVE k + 1 \in T
  <2>1. SUFFICES ASSUME k + 1 < Len(s) PROVE \E h : IsJoin(S, s, h, (k + 1) + 1)
    OBVIOUS
  <2>2. PICK h : IsJoin(S, s, h, k + 1)
    BY <1>2, <2>1
  <2>3. h[k + 1] \in Seq(S) /\ s[k + 2] \in Seq(S)
    BY <2>1, <2>2 DEF IsJoin
  <2>4. PICK last \in Seq(S) : last = h[k + 1] \o s[k + 2]
    BY <2>3, ConcatProperties
  <2>. DEFINE g == [m \in 1 .. k + 2 |-> IF m = k + 2 THEN last ELSE h[m]]
  <2>5. g \in [1 .. k + 2 -> Seq(S)]
    BY <2>2 DEF IsJoin
  <2>6. ASSUME NEW m \in 1 .. k + 2 PROVE g[m] = Joined(s, g, m)
    <3>1. CASE m = k + 2
      <4>1. g[m] = last /\ m # 1 /\ m - 1 = k + 1 /\ g[m - 1] = h[k + 1]
        BY <3>1
      <4>. HIDE DEF g
      <4>. QED BY <2>4, <3>1, <4>1 DEF Joined
    <3>2. CASE m # k + 2
      <4>1. m \in 1 .. k + 1 /\ g[m] = h[m] /\ (m # 1 => g[m - 1] = h[m - 1])
        BY <3>2
      <4>2. h[m] = Joined(s, h, m)
        BY <2>2, <4>1 DEF IsJoin
      <4>. HIDE DEF g
      <4>. QED BY <4>1, <4>2 DEF Joined
    <3>. QED BY <3>1, <3>2
  <2>. HIDE DEF g
  <2>7. IsJoin(S, s, g, (k + 1) + 1)
    BY <2>5, <2>6 DEF IsJoin
  <2>. QED BY <2>7
<1>. HIDE DEF T
<1>3. Nat \subseteq T
  BY <1>1, <1>2, NatClosed
<1>4. Len(s) - 1 \in T /\ Len(s) - 1 < Len(s) /\ (Len(s) - 1) + 1 = Len(s)
  BY <1>3
<1>. QED BY <1>4 DEF T

LEMMA FlattenType ==
  ASSUME NEW S, NEW s, \A i \in 1 .. Len(s) : s[i] \in Seq(S), Len(s) \in Nat \ {0}
  PROVE  FlattenSeq(s) \in Seq(S)
<1>. DEFINE Rest(h) == h = [i \in 1 .. Len(s) |-> Joined(s, h, i)]
            rest == CHOOSE h : Rest(h)
            Found(h) == IsJoin(S, s, h, Len(s))
<1>1. \A h : Found(h) => Rest(h)
  BY DEF IsJoin
<1>2. PICK h : Found(h)
  BY JoinExists
<1>3. Rest(rest)
  <2>1. Rest(h)
    BY <1>1, <1>2
  <2>. HIDE DEF Rest
  <2>. QED BY <2>1
<1>4. FlattenSeq(s) = rest[Len(s)]
  BY DEF FlattenSeq, Joined
<1>5. PICK r : r = rest
  OBVIOUS
<1>6. \A i \in 1 .. Len(s) : r[i] = Joined(s, r, i)
  <2>1. r = [i \in 1 .. Len(s) |-> Joined(s, r, i)]
    BY <1>3, <1>5
  <2>. QED BY <2>1, Zenon
<1>. HIDE DEF rest
<1>. DEFINE T == {k \in Nat : k < Len(s) => r[k + 1] \in Seq(S)}
<1>7. 0 \in T
  BY <1>6 DEF Joined
<1>8. ASSUME NEW k \in Nat, k \in T PROVE k + 1 \in T
  <2>1. SUFFICES ASSUME k + 1 < Len(s) PROVE r[k + 2] \in Seq(S)
    OBVIOUS
  <2>2. r[k + 1] \in Seq(S) /\ s[k + 2] \in Seq(S)
    BY <1>8, <2>1
  <2>3. r[k + 2] = r[k + 1] \o s[k + 2]
    <3>1. k + 2 \in 1 .. Len(s) /\ k + 2 # 1 /\ k + 2 - 1 = k + 1
      BY <2>1
    <3>2. r[k + 2] = Joined(s, r, k + 2)
      BY <1>6, <3>1
    <3>3. Joined(s, r, k + 2) = r[(k + 2) - 1] \o s[k + 2]
      BY <3>1, Zenon DEF Joined
    <3>4. r[(k + 2) - 1] = r[k + 1]
      BY <3>1
    <3>. QED BY <3>2, <3>3, <3>4, Zenon
  <2>. QED BY <2>2, <2>3, ConcatProperties
<1>. HIDE DEF T
<1>9. Nat \subseteq T
  BY <1>7, <1>8, NatClosed
<1>10. Len(s) - 1 \in T /\ Len(s) - 1 < Len(s) /\ (Len(s) - 1) + 1 = Len(s)
  BY <1>9
<1>11. r[Len(s)] \in Seq(S)
  BY <1>10 DEF T
<1>. QED BY <1>4, <1>5, <1>11

LEMMA MatchedType ==
  ASSUME NEW l1 \in Seq(Nat), NEW l2 \in Seq(Nat)
  PROVE  Len(CheckClusterList(l1, l2)) \in Nat
<1>. DEFINE Found(i) == {k \in 1 .. Len(l2) : l2[k] = l1[i]}
            s == [i \in 1 .. Len(l1) |-> [j \in 1 .. Cardinality(Found(i)) |-> l1[i]]]
<1>1. Len(l1) \in Nat /\ Len(l2) \in Nat /\ \A i \in 1 .. Len(l1) : l1[i] \in Nat
  BY LenProperties, ElementOfSeq
<1>2. Len(s) = Len(l1)
  BY <1>1
<1>3. ASSUME NEW i \in 1 .. Len(l1) PROVE s[i] \in Seq(Nat)
  <2>1. Cardinality(Found(i)) \in Nat
    <3>1. IsFiniteSet(1 .. Len(l2)) /\ Found(i) \subseteq 1 .. Len(l2)
      BY <1>1, FS_Interval
    <3>. QED BY <3>1, FS_Subset, FS_CardinalityType
  <2>. HIDE DEF Found
  <2>2. \A m \in Nat : [j \in 1 .. m |-> l1[i]] \in Seq(Nat)
    BY <1>1
  <2>. QED BY <2>1, <2>2
<1>4. CheckClusterList(l1, l2) = FlattenSeq(s)
  BY DEF CheckClusterList
<1>5. FlattenSeq(s) \in Seq(Nat)
  <2>. HIDE DEF s
  <2>1. CASE Len(s) = 0
    <3>1. FlattenSeq(s) = s
      BY <2>1 DEF FlattenSeq
    <3>2. s \in Seq(Nat)
      BY <1>1, <1>2, <2>1 DEF s
    <3>. QED BY <3>1, <3>2
  <2>2. CASE Len(s) # 0
    BY <1>1, <1>2, <1>3, <2>2, FlattenType
  <2>. QED BY <2>1, <2>2
<1>. QED BY <1>4, <1>5, LenProperties

\* No end device bind is under way: nothing carries one on.
LEMMA IdleStep ==
  ASSUME ZdoInv, ~Underway, UNCHANGED <<client, ctx, pend>>, BufFcn, wait' \in [Waiters -> Nat],
         \A x \in Bufs : buf'[x] = buf[x] \/ (JobTyped(buf'[x]) /\ buf'[x].do # "call")
  PROVE  Typed' /\ NumInv' /\ InTable' = {} /\ Running' = {} /\ wait["check_bind"] = 0
<1>1. InTable = {} /\ Running = {} /\ wait["check_bind"] = 0
  BY DEF ZdoInv, EdbInv, OneChain, Carried
<1>2. Typed'
  <2>1. \A x \in Bufs : JobTyped(buf'[x])
    BY DEF ZdoInv, Typed
  <2>. QED BY <2>1 DEF ZdoInv, Typed, client, CtxTyped, PendTyped, BufFcn
<1>3. NumInv'
  <2>1. RightCallback => RightCallback'
    BY DEF RightCallback
  <2>. QED BY <2>1 DEF ZdoInv, NumInv, client
<1>4. Running' = {} /\ InTable' = {}
  BY <1>1 DEF Running, EdbCall, InTable, client
<1>. QED BY <1>1, <1>2, <1>3, <1>4

LEMMA FirstStep ==
  ASSUME ZdoInv, NEW b \in Bufs, buf[b].do = "free", b # Undef, NEW q \in EdBindReqs, NEW t \in Int,
         edb.p1 = Undef, EdbFirst(b, q, t), UNCHANGED <<client, ctx, pend>>
  PROVE  ZdoInv'
<1>1. EdbShape /\ EdBindComplete /\ ~Underway
  BY DEF ZdoInv, EdbInv, Underway
<1>2. /\ buf' = [x \in Bufs |-> buf'[x]] /\ buf'[b] = [do |-> "edbind", q |-> q, tsn |-> t]
      /\ \A x \in Bufs : x # b => buf'[x] = buf[x]
  BY PutFacts DEF ZdoInv, Typed, EdbFirst
<1>3. JobTyped(buf'[b]) /\ buf'[b].do = "edbind"
  BY <1>2 DEF JobTyped
<1>4. wait' = wait /\ wait \in [Waiters -> Nat]
  BY DEF ZdoInv, Typed, EdbFirst
<1>5. Typed' /\ NumInv' /\ InTable' = {} /\ Running' = {} /\ wait["check_bind"] = 0
  <2>1. \A x \in Bufs : buf'[x] = buf[x] \/ (JobTyped(buf'[x]) /\ buf'[x].do # "call")
    BY <1>2, <1>3
  <2>. QED BY <1>1, <1>2, <1>4, <2>1, IdleStep DEF BufFcn
<1>6. /\ edb'.num = edb.num /\ edb'.list = edb.list /\ edb'.asked = edb.asked /\ edb'.done = edb.done
      /\ edb'.p1 = b /\ edb'.p2 = edb.p2 /\ edb'.alarm = b /\ edb'.cur = edb.cur
      /\ edb' = [p1 |-> edb'.p1, p2 |-> edb'.p2, list |-> edb'.list, num |-> edb'.num, cur |-> edb'.cur,
                 alarm |-> edb'.alarm, asked |-> edb'.asked, done |-> edb'.done]
  BY <1>1 DEF EdbShape, EdbFirst
<1>7. EdbShape'
  BY <1>1, <1>3, <1>6 DEF EdbShape
<1>8. OneChain' /\ Carried'
  BY <1>4, <1>5 DEF OneChain, Carried
<1>9. EdBindComplete'
  BY <1>1, <1>6 DEF EdBindComplete
<1>. QED BY <1>5, <1>7, <1>8, <1>9 DEF ZdoInv, EdbInv

\* The timer answers the first request and ends the end device bind.
LEMMA TimerStep ==
  ASSUME ZdoInv, EndDeviceBindTimer
  PROVE  ZdoInv'
<1>1. EdbShape /\ EdBindComplete
  BY DEF ZdoInv, EdbInv
<1>2. edb.alarm # Undef /\ edb.alarm = edb.p1 /\ edb.p2 = Undef /\ edb.p1 \in Bufs /\ buf[edb.p1].do = "edbind"
  BY <1>1 DEF EndDeviceBindTimer, EdbShape
<1>. DEFINE b == edb.p1
<1>3. ~Underway
  BY <1>2 DEF Underway
<1>4. /\ buf' = [x \in Bufs |-> buf'[x]] /\ buf'[b] = TxResp(buf[b].tsn)
      /\ \A x \in Bufs : x # b => buf'[x] = buf[x]
  BY <1>2, PutFacts DEF ZdoInv, Typed, EndDeviceBindTimer
<1>5. JobTyped(buf'[b]) /\ buf'[b].do = "tx"
  <2>1. JobTyped(buf[b])
    BY <1>2 DEF ZdoInv, Typed
  <2>. QED BY <1>2, <1>4, <2>1 DEF JobTyped, TxResp
<1>6. UNCHANGED <<client, wait, pend, ctx>> /\ wait \in [Waiters -> Nat]
  BY DEF ZdoInv, Typed, EndDeviceBindTimer, scanning
<1>7. Typed' /\ NumInv' /\ InTable' = {} /\ Running' = {} /\ wait["check_bind"] = 0
  <2>1. \A x \in Bufs : buf'[x] = buf[x] \/ (JobTyped(buf'[x]) /\ buf'[x].do # "call")
    BY <1>4, <1>5
  <2>. QED BY <1>3, <1>4, <1>6, <2>1, IdleStep DEF BufFcn
<1>8. /\ edb'.num = edb.num /\ edb'.list = edb.list /\ edb'.asked = edb.asked /\ edb'.done = edb.done
      /\ edb'.p1 = Undef /\ edb'.p2 = Undef /\ edb'.alarm = Undef /\ edb'.cur = edb.cur
      /\ edb' = [p1 |-> edb'.p1, p2 |-> edb'.p2, list |-> edb'.list, num |-> edb'.num, cur |-> edb'.cur,
                 alarm |-> edb'.alarm, asked |-> edb'.asked, done |-> edb'.done]
  BY <1>1 DEF EdbShape, EdbEnded, EndDeviceBindTimer
<1>9. EdbShape'
  BY <1>1, <1>8 DEF EdbShape
<1>10. OneChain' /\ Carried'
  BY <1>6, <1>7 DEF OneChain, Carried
<1>11. EdBindComplete'
  BY <1>1, <1>8 DEF EdBindComplete
<1>. QED BY <1>7, <1>9, <1>10, <1>11 DEF ZdoInv, EdbInv

\* The second request: both are answered, and if clusters match the binding
\* begins.
LEMMA SecondStep ==
  ASSUME ZdoInv, NEW b \in Bufs, buf[b].do = "free", b # Undef, NEW q \in EdBindReqs, NEW t \in Int,
         edb.p1 # Undef, edb.p2 = Undef, EdbSecond(b, q, t), UNCHANGED <<client, ctx, pend>>
  PROVE  ZdoInv'
<1>1. EdbShape /\ EdBindComplete /\ ~Underway /\ edb.p1 \in Bufs /\ buf[edb.p1].do = "edbind"
  BY DEF ZdoInv, EdbInv, Underway, EdbShape
<1>. DEFINE q1 == buf[edb.p1].q
            m  == IF q1.profile = q.profile THEN EdbMatched(q1, q) ELSE << <<>>, <<>> >>
            ok == m # << <<>>, <<>> >>
            e  == [edb EXCEPT !.alarm = Undef, !.list = m, !.num = <<Len(m[1]), Len(m[2])>>, !.asked = {}, !.done = FALSE]
<1>2. JobTyped(buf[edb.p1]) /\ q1 \in EdBindReqs
  BY <1>1 DEF ZdoInv, Typed, JobTyped
<1>3. \A d \in {1, 2} : Len(m[d]) \in Nat
  <2>1. Len(EdbMatched(q1, q)[1]) \in Nat /\ Len(EdbMatched(q1, q)[2]) \in Nat
    BY <1>2, MatchedType, Constants DEF EdbMatched
  <2>2. Len(<< >>) \in Nat
    OBVIOUS
  <2>. QED BY <2>1, <2>2
<1>4. /\ edb' = IF ok THEN [e EXCEPT !.p2 = b]
                ELSE EdbEnded(IF q1.profile = q.profile THEN e ELSE [edb EXCEPT !.alarm = Undef])
      /\ buf' = [buf EXCEPT ![b] = TxResp(t), ![edb.p1] = TxResp(buf[edb.p1].tsn)]
      /\ wait' = [wait EXCEPT !["check_bind"] = IF ok THEN @ + 1 ELSE @]
  BY DEF EdbSecond
<1>. HIDE DEF m, q1
<1>5. /\ BufFcn
      /\ \A x \in Bufs : buf'[x] = buf[x] \/ (JobTyped(buf'[x]) /\ buf'[x].do # "call")
  <2>1. b # edb.p1
    BY <1>1
  <2>2. buf = [x \in Bufs |-> buf[x]]
    BY DEF ZdoInv, Typed
  <2>3. DOMAIN buf = Bufs
    <3>1. DOMAIN [x \in Bufs |-> buf[x]] = Bufs
      OBVIOUS
    <3>. QED BY <2>2, <3>1
  <2>4. buf' = [x \in Bufs |-> IF x = edb.p1 THEN TxResp(buf[edb.p1].tsn) ELSE IF x = b THEN TxResp(t) ELSE buf[x]]
    BY <1>1, <1>4, <2>1, <2>3
  <2>5. JobTyped(TxResp(t)) /\ TxResp(t).do = "tx"
    BY DEF JobTyped, TxResp
  <2>6. JobTyped(TxResp(buf[edb.p1].tsn)) /\ TxResp(buf[edb.p1].tsn).do = "tx"
    BY <1>1, <1>2 DEF JobTyped, TxResp
  <2>. QED BY <2>4, <2>5, <2>6 DEF BufFcn
<1>6. wait \in [Waiters -> Nat]
  BY DEF ZdoInv, Typed
<1>7. wait' \in [Waiters -> Nat] /\ wait'["check_bind"] = IF ok THEN wait["check_bind"] + 1 ELSE wait["check_bind"]
  <2>1. "check_bind" \in Waiters
    BY DEF Waiters
  <2>2. wait["check_bind"] \in Nat
    BY <1>6, <2>1
  <2>. QED BY <1>4, <1>6, <2>1, <2>2
<1>8. Typed' /\ NumInv' /\ InTable' = {} /\ Running' = {} /\ wait["check_bind"] = 0
  BY <1>1, <1>5, <1>7, IdleStep
<1>9. edb = [p1 |-> edb.p1, p2 |-> edb.p2, list |-> edb.list, num |-> edb.num, cur |-> edb.cur,
             alarm |-> edb.alarm, asked |-> edb.asked, done |-> edb.done]
  BY <1>1 DEF EdbShape
<1>10. CASE ok
  <2>1. /\ edb'.p1 = edb.p1 /\ edb'.p2 = b /\ edb'.list = m /\ edb'.num = <<Len(m[1]), Len(m[2])>> /\ edb'.cur = edb.cur
        /\ edb'.alarm = Undef /\ edb'.asked = {} /\ edb'.done = FALSE
        /\ edb' = [p1 |-> edb'.p1, p2 |-> edb'.p2, list |-> edb'.list, num |-> edb'.num, cur |-> edb'.cur,
                   alarm |-> edb'.alarm, asked |-> edb'.asked, done |-> edb'.done]
    BY <1>4, <1>9, <1>10
  <2>2. \A d \in {1, 2} : edb'.num[d] = Len(edb'.list[d]) /\ edb'.num[d] \in Nat
    BY <1>3, <2>1
  <2>3. EdbShape'
    <3>1. edb'.num = <<edb'.num[1], edb'.num[2]>>
      BY <2>1
    <3>2. \A d \in {1, 2} : Len(edb'.list[d]) \in Nat /\ edb'.num[d] \in 0 .. Len(edb'.list[d])
      BY <2>2
    <3>. QED BY <1>1, <2>1, <3>1, <3>2 DEF EdbShape
  <2>4. OneChain'
    BY <1>7, <1>8, <1>10 DEF OneChain
  <2>5. Carried'
    BY <1>7, <1>8, <2>1, <2>2 DEF Carried, Underway
  <2>6. EdBindComplete'
    BY <2>1 DEF EdBindComplete
  <2>. QED BY <1>8, <2>3, <2>4, <2>5, <2>6 DEF ZdoInv, EdbInv
<1>11. CASE ~ok /\ q1.profile = q.profile
  <2>1. /\ edb'.p1 = Undef /\ edb'.p2 = Undef /\ edb'.list = m /\ edb'.num = <<Len(m[1]), Len(m[2])>> /\ edb'.cur = edb.cur
        /\ edb'.alarm = Undef /\ edb'.asked = {} /\ edb'.done = FALSE
        /\ edb' = [p1 |-> edb'.p1, p2 |-> edb'.p2, list |-> edb'.list, num |-> edb'.num, cur |-> edb'.cur,
                   alarm |-> edb'.alarm, asked |-> edb'.asked, done |-> edb'.done]
    BY <1>4, <1>9, <1>11 DEF EdbEnded
  <2>2. \A d \in {1, 2} : edb'.num[d] = Len(edb'.list[d]) /\ edb'.num[d] \in Nat
    BY <1>3, <2>1
  <2>3. EdbShape'
    <3>1. edb'.num = <<edb'.num[1], edb'.num[2]>>
      BY <2>1
    <3>2. \A d \in {1, 2} : Len(edb'.list[d]) \in Nat /\ edb'.num[d] \in 0 .. Len(edb'.list[d])
      BY <2>2
    <3>. QED BY <1>1, <2>1, <3>1, <3>2 DEF EdbShape
  <2>4. OneChain' /\ Carried'
    BY <1>7, <1>8, <1>11 DEF OneChain, Carried
  <2>5. EdBindComplete'
    BY <2>1 DEF EdBindComplete
  <2>. QED BY <1>8, <2>3, <2>4, <2>5 DEF ZdoInv, EdbInv
<1>12. CASE ~ok /\ q1.profile # q.profile
  <2>1. /\ edb'.p1 = Undef /\ edb'.p2 = Undef /\ edb'.list = edb.list /\ edb'.num = edb.num /\ edb'.cur = edb.cur
        /\ edb'.alarm = Undef /\ edb'.asked = edb.asked /\ edb'.done = edb.done
        /\ edb' = [p1 |-> edb'.p1, p2 |-> edb'.p2, list |-> edb'.list, num |-> edb'.num, cur |-> edb'.cur,
                   alarm |-> edb'.alarm, asked |-> edb'.asked, done |-> edb'.done]
    BY <1>4, <1>9, <1>12 DEF EdbEnded
  <2>2. EdbShape'
    BY <1>1, <2>1 DEF EdbShape
  <2>3. OneChain' /\ Carried'
    BY <1>7, <1>8, <1>12 DEF OneChain, Carried
  <2>4. EdBindComplete'
    BY <1>1, <2>1 DEF EdBindComplete
  <2>. QED BY <1>8, <2>2, <2>3, <2>4 DEF ZdoInv, EdbInv
<1>. QED BY <1>10, <1>11, <1>12

-----------------------------------------------------------------------------
\* The table of leave requests.

SameCalls(p, r) == \A i \in Pends : r.tab[i].req = 0 \/ (r.tab[i].req = p.tab[i].req /\ r.tab[i].tsn = p.tab[i].tsn)

LEMMA PendFields ==
  ASSUME NEW t, NEW s, NEW a, NEW r, NEW p, IsPend(p, t, s, a, r)
  PROVE  /\ \A i : IsPend(Dropped(p, i), [t EXCEPT ![i].used = FALSE], IF s = i + 1 THEN i ELSE s, a, r)
         /\ IsPend(Left(p), t, 0, FALSE, r)
         /\ \A i, e, m : IsPend([p EXCEPT !.tab[i] = e, !.size = m], [t EXCEPT ![i] = e], m, a, r)
         /\ \A x : IsPend([p EXCEPT !.after = x], t, s, x, r) /\ IsPend([p EXCEPT !.rejoin = x], t, s, a, x)
         /\ p.tab = t /\ p.size = s /\ p.after = a /\ p.rejoin = r
<1>1. p = [tab |-> t, size |-> s, after |-> a, rejoin |-> r] /\ p.tab = t /\ p.size = s /\ p.after = a /\ p.rejoin = r
  BY DEF IsPend
<1>2. ASSUME NEW i
      PROVE  IsPend(Dropped(p, i), [t EXCEPT ![i].used = FALSE], IF s = i + 1 THEN i ELSE s, a, r)
  <2>. PICK v : v = [t EXCEPT ![i].used = FALSE]
    OBVIOUS
  <2>. PICK m : m = IF s = i + 1 THEN i ELSE s
    OBVIOUS
  <2>. PICK q : q = [p EXCEPT !.tab = v, !.size = m]
    OBVIOUS
  <2>1. q = Dropped(p, i)
    BY <1>1 DEF Dropped
  <2>2. q = [tab |-> v, size |-> m, after |-> a, rejoin |-> r]
    BY <1>1
  <2>. QED BY <2>1, <2>2 DEF IsPend
<1>3. IsPend(Left(p), t, 0, FALSE, r)
  <2>. PICK q : q = Left(p)
    OBVIOUS
  <2>1. q = [tab |-> t, size |-> 0, after |-> FALSE, rejoin |-> r]
    BY <1>1 DEF Left
  <2>. QED BY <2>1 DEF IsPend
<1>4. ASSUME NEW i, NEW e, NEW m
      PROVE  IsPend([p EXCEPT !.tab[i] = e, !.size = m], [t EXCEPT ![i] = e], m, a, r)
  <2>. PICK v : v = [t EXCEPT ![i] = e]
    OBVIOUS
  <2>. PICK q : q = [p EXCEPT !.tab = v, !.size = m]
    OBVIOUS
  <2>1. q = [p EXCEPT !.tab[i] = e, !.size = m]
    BY <1>1
  <2>2. q = [tab |-> v, size |-> m, after |-> a, rejoin |-> r]
    BY <1>1
  <2>. QED BY <2>1, <2>2 DEF IsPend
<1>5. ASSUME NEW x PROVE IsPend([p EXCEPT !.after = x], t, s, x, r) /\ IsPend([p EXCEPT !.rejoin = x], t, s, a, x)
  <2>. PICK q : q = [p EXCEPT !.after = x]
    OBVIOUS
  <2>. PICK o : o = [p EXCEPT !.rejoin = x]
    OBVIOUS
  <2>1. q = [tab |-> t, size |-> s, after |-> x, rejoin |-> r] /\ o = [tab |-> t, size |-> s, after |-> a, rejoin |-> x]
    BY <1>1
  <2>. QED BY <2>1 DEF IsPend
<1>. QED BY <1>1, <1>2, <1>3, <1>4, <1>5

\* The parts of a table of the given shape.
LEMMA PendParts ==
  ASSUME NEW t, NEW s, NEW a, NEW r, NEW p, IsPend(p, t, s, a, r)
  PROVE  p.tab = t /\ p.size = s /\ IsPend(p, p.tab, p.size, p.after, p.rejoin)
<1>1. p.tab = t /\ p.size = s /\ p.after = a /\ p.rejoin = r
  BY DEF IsPend
<1>. QED BY <1>1

LEMMA DroppedOk ==
  ASSUME NEW p, PendOk(p), NEW i \in Pends
  PROVE  PendOk(Dropped(p, i)) /\ SameCalls(p, Dropped(p, i))
<1>. DEFINE tab == [p.tab EXCEPT ![i].used = FALSE]
            size == IF p.size = i + 1 THEN i ELSE p.size
<1>1. IsPend(Dropped(p, i), tab, size, p.after, p.rejoin)
  BY PendFields DEF PendOk
<1>2. p.tab \in [Pends -> [used : BOOLEAN, tsn : Int, src : {Own, "peer", "none"}, buf : Bufs \cup {Undef}, req : Nat]]
  BY DEF PendOk
<1>3. tab \in [Pends -> [used : BOOLEAN, tsn : Int, src : {Own, "peer", "none"}, buf : Bufs \cup {Undef}, req : Nat]]
  BY <1>2
<1>4. \A k \in Pends : tab[k].req = p.tab[k].req /\ tab[k].tsn = p.tab[k].tsn
  BY <1>2
<1>5. size \in 0 .. PendSize
  BY Constants DEF PendOk, Pends
<1>. HIDE DEF tab, size
<1>6. /\ Dropped(p, i).tab = tab /\ Dropped(p, i).size = size
      /\ IsPend(Dropped(p, i), Dropped(p, i).tab, Dropped(p, i).size, Dropped(p, i).after, Dropped(p, i).rejoin)
  BY <1>1, PendParts
<1>. QED BY <1>3, <1>4, <1>5, <1>6 DEF PendOk, SameCalls

LEMMA LeftOk ==
  ASSUME NEW p, PendOk(p)
  PROVE  PendOk(Left(p)) /\ Left(p).tab = p.tab
<1>1. IsPend(Left(p), p.tab, 0, FALSE, p.rejoin)
  BY PendFields DEF PendOk
<1>2. /\ Left(p).tab = p.tab /\ Left(p).size = 0
      /\ IsPend(Left(p), Left(p).tab, Left(p).size, Left(p).after, Left(p).rejoin)
  BY <1>1, PendParts
<1>. QED BY <1>2, Constants DEF PendOk

LEMMA MarksOk ==
  ASSUME NEW p, PendOk(p), NEW x
  PROVE  /\ PendOk([p EXCEPT !.after = x]) /\ [p EXCEPT !.after = x].tab = p.tab
         /\ PendOk([p EXCEPT !.rejoin = x]) /\ [p EXCEPT !.rejoin = x].tab = p.tab
<1>. DEFINE q == [p EXCEPT !.after = x]
            o == [p EXCEPT !.rejoin = x]
<1>1. IsPend(q, p.tab, p.size, x, p.rejoin) /\ IsPend(o, p.tab, p.size, p.after, x)
  BY PendFields DEF PendOk
<1>. HIDE DEF q, o
<1>2. /\ q.tab = p.tab /\ q.size = p.size /\ IsPend(q, q.tab, q.size, q.after, q.rejoin)
      /\ o.tab = p.tab /\ o.size = p.size /\ IsPend(o, o.tab, o.size, o.after, o.rejoin)
  BY <1>1, PendParts
<1>3. PendOk(q) /\ PendOk(o)
  BY <1>2 DEF PendOk
<1>. QED BY <1>2, <1>3 DEF q, o

LEMMA PendedOk ==
  ASSUME PendTyped, NEW i \in Pends, NEW t \in Int, NEW src \in {Own, "peer"}, NEW b \in Bufs, NEW r \in Nat
  PROVE  LET q == Pended(i, t, src, b, r) IN
         /\ PendOk(q) /\ q.tab[i].req = r /\ q.tab[i].tsn = t
         /\ \A k \in Pends : k # i => q.tab[k].req = pend.tab[k].req /\ q.tab[k].tsn = pend.tab[k].tsn
<1>. DEFINE e == [used |-> TRUE, tsn |-> t, src |-> src, buf |-> b, req |-> r]
            tab == [pend.tab EXCEPT ![i] = e]
            size == Max({pend.size, i + 1})
            q == Pended(i, t, src, b, r)
<1>2. pend.tab \in [Pends -> [used : BOOLEAN, tsn : Int, src : {Own, "peer", "none"}, buf : Bufs \cup {Undef}, req : Nat]]
  BY DEF PendTyped, PendOk
<1>3. e \in [used : BOOLEAN, tsn : Int, src : {Own, "peer", "none"}, buf : Bufs \cup {Undef}, req : Nat]
  OBVIOUS
<1>4. tab \in [Pends -> [used : BOOLEAN, tsn : Int, src : {Own, "peer", "none"}, buf : Bufs \cup {Undef}, req : Nat]]
  BY <1>2, <1>3
<1>5. tab[i] = e /\ \A k \in Pends : k # i => tab[k] = pend.tab[k]
  BY <1>2
<1>6. size \in 0 .. PendSize
  <2>1. pend.size \in 0 .. PendSize /\ i + 1 \in 0 .. PendSize
    BY Constants DEF PendTyped, PendOk, Pends
  <2>. DEFINE m == IF pend.size >= i + 1 THEN pend.size ELSE i + 1
  <2>2. m \in {pend.size, i + 1} /\ \A y \in {pend.size, i + 1} : m >= y
    BY <2>1
  <2>. HIDE DEF m
  <2>3. size \in {pend.size, i + 1}
    BY <2>2 DEF Max
  <2>. QED BY <2>1, <2>3
<1>7. IsPend(q, tab, size, pend.after, pend.rejoin)
  <2>1. \A k, o, m : IsPend([pend EXCEPT !.tab[k] = o, !.size = m], [pend.tab EXCEPT ![k] = o], m, pend.after, pend.rejoin)
    BY PendFields DEF PendTyped, PendOk
  <2>2. IsPend([pend EXCEPT !.tab[i] = e, !.size = size], [pend.tab EXCEPT ![i] = e], size, pend.after, pend.rejoin)
    <3>. HIDE DEF e, size
    <3>. QED BY <2>1
  <2>3. q = [pend EXCEPT !.tab[i] = e, !.size = size]
    BY DEF Pended
  <2>. HIDE DEF q, size, e
  <2>. QED BY <2>2, <2>3
<1>. HIDE DEF tab, size, q
<1>8. q.tab = tab /\ q.size = size /\ IsPend(q, q.tab, q.size, q.after, q.rejoin)
  BY <1>7, PendParts
<1>9. PendOk(q)
  BY <1>4, <1>6, <1>8 DEF PendOk
<1>10. q.tab[i].req = r /\ q.tab[i].tsn = t
  BY <1>5, <1>8
<1>11. \A k \in Pends : k # i => q.tab[k].req = pend.tab[k].req /\ q.tab[k].tsn = pend.tab[k].tsn
  BY <1>5, <1>8
<1>. QED BY <1>9, <1>10, <1>11 DEF q

\* The places that are searched.
LEMMA PlaceFacts ==
  ASSUME Typed
  PROVE  /\ FreePend \in Pends \cup {PendSize}
         /\ \A b : AtLeast(PendOf(b), -1) \in Pends \cup {-1}
<1>. DEFINE F == {i \in 0 .. PendSize - 1 : ~pend.tab[i].used}
<1>1. FreePend \in Pends \cup {PendSize}
  <2>1. F \in SUBSET Nat /\ F \subseteq Pends
    BY Constants DEF Pends
  <2>2. FreePend = IF F = {} THEN PendSize ELSE Min(F)
    BY DEF FreePend, AtLeast
  <2>. HIDE DEF F
  <2>. QED BY <2>1, <2>2, MinIn
<1>2. ASSUME NEW b PROVE AtLeast(PendOf(b), -1) \in Pends \cup {-1}
  <2>1. pend.size \in 0 .. PendSize
    BY DEF Typed, PendTyped, PendOk
  <2>2. PendOf(b) \in SUBSET Nat /\ PendOf(b) \subseteq Pends
    BY <2>1, Constants DEF PendOf, Pends
  <2>. QED BY <2>2, MinIn DEF AtLeast
<1>. QED BY <1>1, <1>2

-----------------------------------------------------------------------------
\* What a step writes.

LEMMA SamePend ==
  ASSUME Typed, pend' = pend
  PROVE  PendKept
BY DEF Typed, PendTyped, PendOk, PendKept

LEMMA SameWait ==
  ASSUME Typed, wait' = wait
  PROVE  wait' \in [Waiters -> Nat] /\ wait'["check_bind"] = wait["check_bind"]
BY DEF Typed

LEMMA WaitStep ==
  ASSUME Typed, NEW w \in Waiters \ {"check_bind"}, NEW m \in Nat, wait' = [wait EXCEPT ![w] = m]
  PROVE  wait' \in [Waiters -> Nat] /\ wait'["check_bind"] = wait["check_bind"]
<1>1. "check_bind" \in Waiters /\ wait \in [Waiters -> Nat]
  BY DEF Typed, Waiters
<1>. QED BY <1>1

LEMMA PlainJobs ==
  /\ \A do : do \notin {"call", "tx", "notify", "edbind", "permit"} => Plain(J(do))
  /\ \A t \in Int : Plain(TxResp(t)) /\ \A q, a : Plain(TxAns(t, q, a))
  /\ \A dev, x : Plain(LeaveJob(dev, x)) /\ Plain([do |-> "left", dev |-> dev, st |-> x])
  /\ \A t \in Int : \A dst, st : Plain([do |-> "notify", tsn |-> t, dst |-> dst, st |-> st])
<1>1. \A do : do \notin {"call", "tx", "notify", "edbind", "permit"} => Plain(J(do))
  BY DEF Plain, JobTyped, J
<1>2. \A t \in Int : Plain(TxResp(t)) /\ \A q, a : Plain(TxAns(t, q, a))
  BY DEF Plain, JobTyped, TxResp, TxAns
<1>3. \A dev, x : Plain(LeaveJob(dev, x)) /\ Plain([do |-> "left", dev |-> dev, st |-> x])
  BY DEF Plain, JobTyped, LeaveJob
<1>4. \A t \in Int : \A dst, st : Plain([do |-> "notify", tsn |-> t, dst |-> dst, st |-> st])
  BY DEF Plain, JobTyped
<1>. QED BY <1>1, <1>2, <1>3, <1>4

LEMMA PlainConsts == Plain(Free) /\ Plain(Lost) /\ Plain(LeftJob) /\ Plain(EdScanJob) /\ Plain(J("started")) /\ Plain(J("scanned")) /\ Plain(J("parked")) /\ Plain(J("data"))
BY DEF Plain, JobTyped, J, Free, Lost, LeftJob, EdScanJob

LEMMA QuietPut ==
  ASSUME ZdoInv, NEW b \in Bufs, buf[b].do # "edbind", NEW j, Plain(j), buf' = Put(b, j),
         edb' = edb, UNCHANGED client,
         wait' \in [Waiters -> Nat], wait'["check_bind"] = wait["check_bind"], CtxTyped', PendKept
  PROVE  ZdoInv'
<1>1. /\ buf' = [x \in Bufs |-> buf'[x]] /\ buf'[b] = j
      /\ \A x \in Bufs : x # b => buf'[x] = buf[x]
  BY PutFacts DEF ZdoInv, Typed
<1>2. Quiet
  BY <1>1 DEF Quiet, Frame, BufFcn, Changes
<1>. QED BY <1>2, QuietStep

LEMMA QuietSame ==
  ASSUME ZdoInv, buf' = buf, edb' = edb, UNCHANGED client,
         wait' \in [Waiters -> Nat], wait'["check_bind"] = wait["check_bind"], CtxTyped', PendKept
  PROVE  ZdoInv'
<1>1. Quiet
  BY DEF ZdoInv, Typed, Quiet, Frame, BufFcn
<1>. QED BY <1>1, QuietStep

\* Nothing but one buffer, and what the argument does not look at.
LEMMA QuietBuf ==
  ASSUME ZdoInv, NEW b \in Bufs, buf[b].do # "edbind", NEW j, Plain(j), buf' = Put(b, j),
         edb' = edb, UNCHANGED client, wait' = wait, CtxTyped', pend' = pend
  PROVE  ZdoInv'
BY QuietPut, SamePend, SameWait DEF ZdoInv

LEMMA SameCtx ==
  ASSUME Typed, ctx' = ctx
  PROVE  CtxTyped'
BY DEF Typed, CtxTyped

-----------------------------------------------------------------------------
\* Leaving.

LEMMA ReceiveLeaveStep ==
  ASSUME ZdoInv, NEW t \in PeerTsn, NEW d, NEW r, ReceiveLeave(t, "peer", d, r)
  PROVE  ZdoInv'
<1>1. NewBuf \in Bufs /\ buf[NewBuf].do = "free" /\ t \in Int
  BY NewBufFacts, Constants DEF ReceiveLeave
<1>2. edb' = edb /\ UNCHANGED client /\ wait' = wait /\ ctx' = ctx
  BY DEF ReceiveLeave, scanning
<1>3. Typed /\ PendTyped
  BY DEF ZdoInv, Typed
<1>4. CtxTyped' /\ wait' \in [Waiters -> Nat] /\ wait'["check_bind"] = wait["check_bind"]
  BY <1>2, <1>3, SameCtx, SameWait
<1>. DEFINE i == FreePend
<1>5. CASE i = PendSize
  <2>1. pend' = pend /\ buf' = Put(NewBuf, TxResp(t))
    BY <1>5 DEF ReceiveLeave, MgmtLeaveSrv
  <2>2. Plain(TxResp(t))
    BY <1>1, PlainJobs
  <2>. QED BY <1>1, <1>2, <1>3, <1>4, <2>1, <2>2, SamePend, QuietPut
<1>6. CASE i # PendSize
  <2>1. pend' = Pended(i, t, "peer", NewBuf, 0) /\ buf' = Put(NewBuf, LeaveJob(d, r))
    BY <1>6 DEF ReceiveLeave, MgmtLeaveSrv
  <2>2. i \in Pends
    BY <1>3, <1>6, PlaceFacts
  <2>3. LET q == Pended(i, t, "peer", NewBuf, 0) IN
        /\ PendOk(q) /\ q.tab[i].req = 0 /\ q.tab[i].tsn = t
        /\ \A k \in Pends : k # i => q.tab[k].req = pend.tab[k].req /\ q.tab[k].tsn = pend.tab[k].tsn
    BY <1>1, <1>3, <2>2, PendedOk
  <2>4. PendKept
    BY <2>1, <2>3 DEF PendKept, PendTyped, PendOk
  <2>5. Plain(LeaveJob(d, r))
    BY PlainJobs
  <2>. QED BY <1>1, <1>2, <1>4, <2>1, <2>4, <2>5, QuietPut
<1>. QED BY <1>5, <1>6

LEMMA AppLeaveLocalStep ==
  ASSUME ZdoInv, NEW d, NEW r, AppLeaveLocal(d, r)
  PROVE  ZdoInv'
<1>1. NewBuf \in Bufs /\ buf[NewBuf].do = "free"
  BY NewBufFacts DEF AppLeaveLocal
<1>2. edb' = edb /\ wait' = wait /\ ctx' = ctx
  BY DEF AppLeaveLocal, scanning
<1>3. Typed /\ PendTyped /\ NumInv
  BY DEF ZdoInv, Typed
<1>4. CtxTyped' /\ wait' \in [Waiters -> Nat] /\ wait'["check_bind"] = wait["check_bind"]
  BY <1>2, <1>3, SameCtx, SameWait
<1>. DEFINE i == FreePend
<1>5. CASE i = PendSize
  <2>. DEFINE j == CallOf([func |-> "app", req |-> 0], 0, "insufficient_space", "none")
  <2>1. pend' = pend /\ buf' = Put(NewBuf, j) /\ UNCHANGED client
    BY <1>5 DEF AppLeaveLocal
  <2>2. j.do = "call" /\ j.func = "app" /\ j.about = 0 /\ j.req = 0
    BY DEF CallOf
  <2>. HIDE DEF j
  <2>3. Plain(j)
    BY <2>2 DEF Plain, JobTyped, EdbFns, Funcs
  <2>. QED BY <1>1, <1>2, <1>3, <1>4, <2>1, <2>3, SamePend, QuietPut
<1>6. CASE i # PendSize
  <2>1. /\ pend' = Pended(i, NextTsn, Own, NewBuf, reqs + 1) /\ buf' = Put(NewBuf, LeaveJob(d, r))
        /\ tsn' = NextTsn /\ reqs' = reqs + 1 /\ cbs' = Register(cbs, NextTsn, "app", 1, reqs + 1)
        /\ ssd' = ssd /\ owed' = owed
    BY <1>6 DEF AppLeaveLocal
  <2>2. i \in Pends
    BY <1>3, <1>6, PlaceFacts
  <2>3. NextTsn \in Int /\ reqs + 1 \in Nat
    BY <1>3, NextNumber
  <2>4. LET q == Pended(i, NextTsn, Own, NewBuf, reqs + 1) IN
        /\ PendOk(q) /\ q.tab[i].req = reqs + 1 /\ q.tab[i].tsn = NextTsn
        /\ \A k \in Pends : k # i => q.tab[k].req = pend.tab[k].req /\ q.tab[k].tsn = pend.tab[k].tsn
    BY <1>1, <1>3, <2>2, <2>3, PendedOk
  <2>5. PendTyped' /\ \A k \in Pends : \/ pend'.tab[k].req = pend.tab[k].req /\ pend'.tab[k].tsn = pend.tab[k].tsn
                                       \/ pend'.tab[k].req = reqs + 1 /\ pend'.tab[k].tsn = NextTsn
    BY <2>1, <2>4 DEF PendTyped, PendOk
  <2>6. /\ BufFcn /\ buf'[NewBuf] = LeaveJob(d, r)
        /\ \A x \in Bufs : x # NewBuf => buf'[x] = buf[x]
    BY <1>1, <1>3, <2>1, PutFacts DEF Typed, BufFcn
  <2>7. \A x \in Bufs : buf'[x] = buf[x] \/ Changes(x)
    BY <1>1, <2>6, PlainJobs DEF Changes
  <2>8. Sends("app")
    <3>1. \E c \in Int : ("app" \in EdbFns => c = 1) /\ cbs' = Register(cbs, NextTsn, "app", c, reqs + 1)
      BY <2>1
    <3>. QED BY <1>4, <2>1, <2>5, <2>6, <2>7, <3>1 DEF Sends
  <2>9. "app" \in (Funcs \ EdbFns) \cup {"null"}
    BY DEF Funcs, EdbFns
  <2>. QED BY <1>2, <1>4, <2>8, <2>9, SendsStep
<1>. QED BY <1>5, <1>6

LEMMA NlmeLeaveRequestStep ==
  ASSUME ZdoInv, NEW b \in Bufs, NlmeLeaveRequest(b)
  PROVE  ZdoInv'
<1>1. buf[b].do = "leave" /\ Typed
  BY DEF NlmeLeaveRequest, In, ZdoInv
<1>2. edb' = edb /\ UNCHANGED client /\ wait' = wait /\ ctx' = ctx
  BY DEF NlmeLeaveRequest, scanning
<1>3. CtxTyped' /\ wait' \in [Waiters -> Nat] /\ wait'["check_bind"] = wait["check_bind"]
  BY <1>1, <1>2, SameCtx, SameWait
<1>4. PendKept
  <2>1. pend' = pend \/ pend' = [pend EXCEPT !.rejoin = buf[b].rejoin]
    BY DEF NlmeLeaveRequest
  <2>2. PendOk(pend)
    BY <1>1 DEF Typed, PendTyped
  <2>3. CASE pend' = [pend EXCEPT !.rejoin = buf[b].rejoin]
    <3>1. PendOk(pend') /\ pend'.tab = pend.tab
      BY <2>2, <2>3, MarksOk
    <3>. QED BY <3>1 DEF PendKept, PendTyped, PendOk
  <2>. QED BY <1>1, <2>1, <2>3, SamePend
<1>5. buf' = buf \/ \E st : buf' = LeaveConf(b, st)
  BY DEF NlmeLeaveRequest
<1>6. CASE buf' = buf
  BY <1>2, <1>3, <1>4, <1>6, QuietSame
<1>7. CASE \E st : buf' = LeaveConf(b, st)
  <2>1. PICK st : buf' = Put(b, [do |-> "left", dev |-> buf[b].dev, st |-> st])
    BY <1>7 DEF LeaveConf, Put
  <2>2. Plain([do |-> "left", dev |-> buf[b].dev, st |-> st])
    BY PlainJobs
  <2>. QED BY <1>1, <1>2, <1>3, <1>4, <2>1, <2>2, QuietPut
<1>. QED BY <1>5, <1>6, <1>7

LEMMA NwkDoLeaveLocalStep ==
  ASSUME ZdoInv, NwkDoLeaveLocal
  PROVE  ZdoInv'
<1>1. NewBuf \in Bufs /\ buf[NewBuf].do = "free" /\ Typed
  BY NewBufFacts DEF NwkDoLeaveLocal, Serve, ZdoInv
<1>2. edb' = edb /\ UNCHANGED client /\ ctx' = ctx /\ buf' = Put(NewBuf, LeftJob)
  BY DEF NwkDoLeaveLocal, scanning
<1>3. wait' \in [Waiters -> Nat] /\ wait'["check_bind"] = wait["check_bind"]
  <2>1. wait["leave_local"] \in Nat /\ wait["leave_local"] > 0 /\ wait' = [wait EXCEPT !["leave_local"] = wait["leave_local"] - 1]
    BY <1>1 DEF NwkDoLeaveLocal, Serve, Typed, Waiters
  <2>2. "leave_local" \in Waiters \ {"check_bind"} /\ wait["leave_local"] - 1 \in Nat
    BY <2>1 DEF Waiters
  <2>. QED BY <1>1, <2>1, <2>2, WaitStep
<1>4. PendKept
  BY <1>1, LeftOk DEF NwkDoLeaveLocal, PendKept, Typed, PendTyped
<1>. QED BY <1>1, <1>2, <1>3, <1>4, PlainConsts, SameCtx, QuietPut

\* The entry of a leave request of our own refers to the request, every other
\* one to none: so does the call of its callback.
LEMMA NlmeLeaveConfirmStep ==
  ASSUME ZdoInv, NEW b \in Bufs, NlmeLeaveConfirm(b)
  PROVE  ZdoInv'
<1>1. buf[b].do = "left" /\ Typed /\ PendOk(pend) /\ NumInv
  BY DEF NlmeLeaveConfirm, In, ZdoInv, Typed, PendTyped
<1>2. /\ edb' = edb /\ ctx' = ctx /\ tsn' = tsn /\ reqs' = reqs /\ ssd' = ssd /\ owed' = owed
      /\ CtxTyped'
  <2>1. edb' = edb /\ ctx' = ctx /\ tsn' = tsn /\ reqs' = reqs /\ ssd' = ssd /\ owed' = owed
    BY DEF NlmeLeaveConfirm, scanning
  <2>. QED BY <1>1, <2>1, SameCtx
<1>. DEFINE will == buf[b].st = "ok" /\ buf[b].dev = Own
            i == AtLeast(PendOf(b), -1)
            st == buf[b].st
<1>3. i \in Pends \cup {-1}
  BY <1>1, PlaceFacts
<1>4. \/ i = -1 /\ LeaveUnanswered(b, will)
      \/ i # -1 /\ LeaveAnsweredLocally(b, i, st, will)
      \/ i # -1 /\ LeaveAnsweredRemotely(b, i, st, will)
  BY DEF NlmeLeaveConfirm
<1>. HIDE DEF will, i, st
<1>5. CASE i = -1 /\ LeaveUnanswered(b, will)
  <2>1. cbs' = cbs /\ wait' = wait /\ (pend' = pend \/ pend' = Left(pend))
    BY <1>5 DEF LeaveUnanswered
  <2>2. buf' = Put(b, LeftJob) \/ buf' = Put(b, Free)
    BY <1>5 DEF LeaveUnanswered
  <2>3. PendKept
    <3>1. PendOk(Left(pend)) /\ Left(pend).tab = pend.tab
      BY <1>1, LeftOk
    <3>2. pend' = Left(pend) => PendKept
      BY <3>1 DEF PendKept, PendTyped
    <3>. QED BY <1>1, <2>1, <3>2, SamePend
  <2>. QED BY <1>1, <1>2, <2>1, <2>2, <2>3, PlainConsts, SameWait, QuietPut DEF client
<1>6. ASSUME i # -1 PROVE /\ i \in Pends /\ pend.tab[i].tsn \in Int /\ pend.tab[i].req \in 0 .. reqs
                          /\ reqs < TsnMod => pend.tab[i].req = 0 \/ pend.tab[i].req = pend.tab[i].tsn
                          /\ PendOk(Dropped(pend, i)) /\ SameCalls(pend, Dropped(pend, i))
  <2>1. i \in Pends
    BY <1>3, <1>6
  <2>2. pend.tab[i].tsn \in Int /\ pend.tab[i].req \in Nat
    BY <1>1, <2>1 DEF PendOk
  <2>3. reqs \in Nat
    BY <1>1 DEF Typed
  <2>. QED BY <1>1, <2>1, <2>2, <2>3, DroppedOk DEF NumInv
<1>7. ASSUME NEW p \in {pend, Dropped(pend, i)}, i # -1, pend' = [p EXCEPT !.after = will] PROVE PendKept
  <2>1. PendOk(p) /\ SameCalls(pend, p)
    BY <1>1, <1>6, <1>7 DEF SameCalls
  <2>2. PendOk(pend') /\ pend'.tab = p.tab
    BY <1>7, <2>1, MarksOk
  <2>. QED BY <2>1, <2>2 DEF PendKept, PendTyped, SameCalls
<1>8. CASE i # -1 /\ LeaveAnsweredLocally(b, i, st, will)
  <2>. DEFINE t == pend.tab[i].tsn
              about == pend.tab[i].req
  <2>1. AfResp(b, t, about, st, "none", Lost)
    BY <1>8 DEF LeaveAnsweredLocally
  <2>2. PendKept
    BY <1>7, <1>8 DEF LeaveAnsweredLocally
  <2>3. wait' \in [Waiters -> Nat] /\ wait'["check_bind"] = wait["check_bind"]
    <3>1. wait["leave_local"] \in Nat /\ "leave_local" \in Waiters \ {"check_bind"}
      BY <1>1 DEF Typed, Waiters
    <3>. DEFINE m == IF FindCb(pend.tab[i].tsn) # -1 THEN wait["leave_local"] + 1 ELSE wait["leave_local"]
    <3>2. wait' = [wait EXCEPT !["leave_local"] = m] /\ m \in Nat
      BY <1>8, <3>1 DEF LeaveAnsweredLocally
    <3>. HIDE DEF m
    <3>. QED BY <1>1, <3>1, <3>2, WaitStep
  <2>4. BufFcn
    <3>1. \E j : buf' = Put(b, j)
      BY <2>1 DEF AfResp
    <3>. QED BY <1>1, <3>1, PutFacts DEF BufFcn, Typed
  <2>5. OwedKept
    BY <1>1, <1>2 DEF OwedKept, OwedShape, Typed
  <2>6. Answers
    <3>1. t \in Int /\ about \in 0 .. reqs /\ (reqs < TsnMod => about = 0 \/ about = t) /\ Plain(Lost) /\ buf[b].do # "edbind"
      BY <1>1, <1>6, <1>8, PlainConsts
    <3>. HIDE DEF t, about
    <3>2. \E c \in Bufs, s \in Int : \E a, x, y, otherwise :
             /\ buf[c].do # "edbind" /\ Plain(otherwise)
             /\ a \in 0 .. reqs /\ (reqs < TsnMod => a = 0 \/ a = s)
             /\ AfResp(c, s, a, x, y, otherwise)
      BY <2>1, <3>1
    <3>. QED BY <1>2, <2>2, <2>3, <2>4, <2>5, <3>2 DEF Answers, Frame
  <2>. QED BY <2>6, AnswersStep
<1>9. CASE i # -1 /\ LeaveAnsweredRemotely(b, i, st, will)
  <2>1. buf' = Put(b, TxResp(pend.tab[i].tsn)) /\ cbs' = cbs /\ wait' = wait
    BY <1>9 DEF LeaveAnsweredRemotely
  <2>2. PendKept
    BY <1>7, <1>9 DEF LeaveAnsweredRemotely
  <2>3. Plain(TxResp(pend.tab[i].tsn))
    BY <1>6, <1>9, PlainJobs
  <2>. QED BY <1>1, <1>2, <2>1, <2>2, <2>3, SameWait, QuietPut DEF client
<1>. QED BY <1>4, <1>5, <1>8, <1>9

LEMMA DataConfirmStep ==
  ASSUME ZdoInv, NEW b \in Bufs, NEW st, DataConfirm(b, st)
  PROVE  ZdoInv'
<1>1. buf[b].do = "tx" /\ Typed /\ PendOk(pend) /\ NumInv
  BY DEF DataConfirm, In, ZdoInv, Typed, PendTyped
<1>2. /\ edb' = edb /\ ctx' = ctx /\ tsn' = tsn /\ reqs' = reqs /\ ssd' = ssd /\ owed' = owed
      /\ CtxTyped'
  <2>1. edb' = edb /\ ctx' = ctx /\ tsn' = tsn /\ reqs' = reqs /\ ssd' = ssd /\ owed' = owed
    BY DEF DataConfirm, scanning
  <2>. QED BY <1>1, <2>1, SameCtx
<1>. DEFINE i == AtLeast(PendOf(b), -1)
<1>3. i \in Pends \cup {-1}
  BY <1>1, PlaceFacts
<1>4. \/ i # -1 /\ MgmtLeaveComplete(b, i)
      \/ DataAcknowledged(b, st)
      \/ buf' = Put(b, Free) /\ UNCHANGED <<cbs, pend, wait, joined>>
  BY DEF DataConfirm
<1>. HIDE DEF i
<1>5. CASE i # -1 /\ MgmtLeaveComplete(b, i)
  <2>1. i \in Pends
    BY <1>3, <1>5
  <2>2. PendOk(Dropped(pend, i)) /\ SameCalls(pend, Dropped(pend, i))
    BY <1>1, <2>1, DroppedOk
  <2>3. PendOk(Left(Dropped(pend, i))) /\ Left(Dropped(pend, i)).tab = Dropped(pend, i).tab
    BY <2>2, LeftOk
  <2>4. pend' \in {Dropped(pend, i), Left(Dropped(pend, i))} /\ cbs' = cbs
    BY <1>5 DEF MgmtLeaveComplete
  <2>5. PendKept
    BY <2>2, <2>3, <2>4 DEF PendKept, PendTyped, SameCalls
  <2>6. wait' \in [Waiters -> Nat] /\ wait'["check_bind"] = wait["check_bind"]
    <3>1. wait["leave_local"] + 1 \in Nat /\ "leave_local" \in Waiters \ {"check_bind"}
      BY <1>1 DEF Typed, Waiters
    <3>2. wait' = wait \/ wait' = [wait EXCEPT !["leave_local"] = wait["leave_local"] + 1]
      BY <1>5 DEF MgmtLeaveComplete, Waits
    <3>. QED BY <1>1, <3>1, <3>2, WaitStep, SameWait
  <2>7. buf' = Put(b, Lost) \/ buf' = Put(b, LeftJob)
    BY <1>5 DEF MgmtLeaveComplete
  <2>. QED BY <1>1, <1>2, <2>4, <2>5, <2>6, <2>7, PlainConsts, QuietPut DEF client
<1>6. CASE DataAcknowledged(b, st)
  <2>1. pend' = pend /\ wait' = wait
    BY <1>6 DEF DataAcknowledged
  <2>2. PendKept /\ wait' \in [Waiters -> Nat] /\ wait'["check_bind"] = wait["check_bind"]
    BY <1>1, <2>1, SamePend, SameWait
  <2>3. CASE buf' = Put(b, Free) /\ cbs' = cbs
    BY <1>1, <1>2, <2>2, <2>3, PlainConsts, QuietPut DEF client
  <2>4. CASE \E s : AfResp(b, buf[b].tsn, 0, s, "none", Free)
    <3>1. PICK s : AfResp(b, buf[b].tsn, 0, s, "none", Free)
      BY <2>4
    <3>2. buf[b].tsn \in Int /\ 0 \in 0 .. reqs
      BY <1>1 DEF Typed, JobTyped
    <3>3. BufFcn
      <4>1. \E j : buf' = Put(b, j)
        BY <3>1 DEF AfResp
      <4>. QED BY <1>1, <4>1, PutFacts DEF BufFcn, Typed
    <3>4. OwedKept
      BY <1>1, <1>2 DEF OwedKept, OwedShape, Typed
    <3>5. \E c \in Bufs, k \in Int : \E a, x, y, otherwise :
             /\ buf[c].do # "edbind" /\ Plain(otherwise)
             /\ a \in 0 .. reqs /\ (reqs < TsnMod => a = 0 \/ a = k)
             /\ AfResp(c, k, a, x, y, otherwise)
      BY <1>1, <3>1, <3>2, PlainConsts
    <3>6. Answers
      BY <1>2, <2>2, <3>3, <3>4, <3>5 DEF Answers, Frame
    <3>. QED BY <3>6, AnswersStep
  <2>. QED BY <1>6, <2>3, <2>4 DEF DataAcknowledged
<1>7. CASE buf' = Put(b, Free) /\ UNCHANGED <<cbs, pend, wait, joined>>
  BY <1>1, <1>2, <1>7, PlainConsts, QuietBuf DEF client
<1>. QED BY <1>4, <1>5, <1>6, <1>7

-----------------------------------------------------------------------------
\* Requests that arrive, permit joining, energy scans.

LEMMA ReceivedStep ==
  ASSUME ZdoInv, NEW t \in PeerTsn,
         \/ \E q \in DiscReqs, g \in Garbage : ReceiveDiscovery(q, t, g)
         \/ \E bind \in BOOLEAN, r \in BindReqs : ReceiveBindUnbind(bind, r, t)
         \/ \E c \in ScanCounts : ReceiveUpdateScan(c, t, "peer")
         \/ \E w \in {"channel", "mask", "bad_duration"} : ReceiveUpdateOther(w, t, "peer")
  PROVE  ZdoInv'
<1>1. Typed /\ t \in Int
  BY Constants DEF ZdoInv
<1>2. ASSUME NEW q, NEW g, ReceiveDiscovery(q, t, g) PROVE ZdoInv'
  <2>1. NewBuf \in Bufs /\ buf[NewBuf].do = "free"
    BY <1>2, NewBufFacts DEF ReceiveDiscovery
  <2>2. PICK a : buf' = Put(NewBuf, Kept(a, t, q))
    BY <1>2 DEF ReceiveDiscovery
  <2>3. Plain(Kept(a, t, q))
    BY <1>1, PlainJobs, PlainConsts DEF Kept
  <2>4. edb' = edb /\ UNCHANGED client /\ wait' = wait /\ ctx' = ctx /\ pend' = pend
    BY <1>2 DEF ReceiveDiscovery, scanning
  <2>. QED BY <1>1, <2>1, <2>2, <2>3, <2>4, SameCtx, QuietBuf
<1>3. ASSUME NEW bind \in BOOLEAN, NEW r, ReceiveBindUnbind(bind, r, t) PROVE ZdoInv'
  <2>1. NewBuf \in Bufs /\ buf[NewBuf].do = "free"
    BY <1>3, NewBufFacts DEF ReceiveBindUnbind
  <2>2. buf' = buf \/ buf' = Put(NewBuf, TxResp(t))
    BY <1>3 DEF ReceiveBindUnbind
  <2>3. Plain(TxResp(t))
    BY <1>1, PlainJobs
  <2>4. edb' = edb /\ UNCHANGED client /\ wait' = wait /\ ctx' = ctx /\ pend' = pend
    BY <1>3 DEF ReceiveBindUnbind, scanning
  <2>5. CtxTyped' /\ PendKept /\ wait' \in [Waiters -> Nat] /\ wait'["check_bind"] = wait["check_bind"]
    BY <1>1, <2>4, SameCtx, SamePend, SameWait
  <2>. QED BY <2>1, <2>2, <2>3, <2>4, <2>5, QuietPut, QuietSame
<1>4. ASSUME NEW c, ReceiveUpdateScan(c, t, "peer") PROVE ZdoInv'
  <2>1. NewBuf \in Bufs /\ buf[NewBuf].do = "free"
    BY <1>4, NewBufFacts DEF ReceiveUpdateScan
  <2>2. edb' = edb /\ UNCHANGED client /\ wait' = wait /\ pend' = pend
    BY <1>4 DEF ReceiveUpdateScan
  <2>3. CASE ctx' = ScanCtx(c - 1, "peer", t) /\ buf' = Put(NewBuf, EdScanJob)
    <3>1. CtxTyped'
      BY <1>1, <2>3 DEF CtxTyped, ScanCtx
    <3>. QED BY <2>1, <2>2, <2>3, <3>1, PlainConsts, QuietBuf
  <2>4. CASE ctx' = ctx /\ \E st : buf' = Put(NewBuf, [do |-> "notify", tsn |-> t, dst |-> "peer", st |-> st])
    <3>1. PICK st : buf' = Put(NewBuf, [do |-> "notify", tsn |-> t, dst |-> "peer", st |-> st])
      BY <2>4
    <3>2. Plain([do |-> "notify", tsn |-> t, dst |-> "peer", st |-> st])
      BY <1>1, PlainJobs
    <3>. QED BY <1>1, <2>1, <2>2, <2>4, <3>1, <3>2, SameCtx, QuietBuf
  <2>. QED BY <1>4, <2>3, <2>4 DEF ReceiveUpdateScan
<1>5. ASSUME NEW w, ReceiveUpdateOther(w, t, "peer") PROVE ZdoInv'
  <2>1. NewBuf \in Bufs /\ buf[NewBuf].do = "free"
    BY <1>5, NewBufFacts DEF ReceiveUpdateOther
  <2>2. edb' = edb /\ UNCHANGED client /\ wait' = wait /\ pend' = pend /\ ctx' = ctx
    BY <1>5 DEF ReceiveUpdateOther
  <2>. DEFINE j == IF w = "bad_duration" THEN [do |-> "notify", tsn |-> t, dst |-> "peer", st |-> "invalid_request"] ELSE Lost
  <2>3. buf' = Put(NewBuf, j)
    BY <1>5 DEF ReceiveUpdateOther
  <2>4. Plain(j)
    BY <1>1, PlainJobs, PlainConsts
  <2>. HIDE DEF j
  <2>. QED BY <1>1, <2>1, <2>2, <2>3, <2>4, SameCtx, QuietBuf
<1>. QED BY <1>2, <1>3, <1>4, <1>5

LEMMA ReceivedOtherStep ==
  ASSUME ZdoInv, ReceivedOther
  PROVE  ZdoInv'
<1>1. Typed
  BY DEF ZdoInv
<1>2. ASSUME NEW a, ReceiveAnnce(a) PROVE ZdoInv'
  <2>1. buf' = buf /\ edb' = edb /\ UNCHANGED client /\ wait' = wait /\ ctx' = ctx /\ pend' = pend
    BY <1>2 DEF ReceiveAnnce, scanning
  <2>. QED BY <1>1, <2>1, SameCtx, SamePend, SameWait, QuietSame
<1>3. ASSUME NEW d \in Durations, ReceivePermit(d) PROVE ZdoInv'
  <2>1. NewBuf \in Bufs /\ buf[NewBuf].do = "free"
    BY <1>3, NewBufFacts DEF ReceivePermit
  <2>2. edb' = edb /\ UNCHANGED client /\ wait' = wait /\ pend' = pend /\ ctx' = ctx
    BY <1>3 DEF ReceivePermit, scanning
  <2>. DEFINE j == IF Ffd THEN [do |-> "permit", duration |-> d] ELSE Lost
  <2>3. buf' = Put(NewBuf, j)
    BY <1>3 DEF ReceivePermit
  <2>4. Plain(j)
    <3>1. Plain([do |-> "permit", duration |-> d])
      BY DEF Plain, JobTyped
    <3>. QED BY <3>1, PlainConsts
  <2>. HIDE DEF j
  <2>. QED BY <1>1, <2>1, <2>2, <2>3, <2>4, SameCtx, QuietBuf
<1>. QED BY <1>2, <1>3 DEF ReceivedOther

\* Jobs that only hand their buffer on, or free it.
LEMMA HandedOnStep ==
  ASSUME ZdoInv, NEW b \in Bufs,
         \/ Rejoined(b) \/ NlmePermitJoiningRequest(b) \/ NlmePermitJoiningConfirm(b)
         \/ \E st \in {"ok", "error"} : EdScanConfirm(b, st)
         \/ FinishCallback(b) \/ AppCallback(b)
  PROVE  ZdoInv'
<1>1. Typed /\ CtxTyped
  BY DEF ZdoInv, Typed
<1>2. ASSUME NEW j, Plain(j), buf' = Put(b, j), buf[b].do # "edbind",
             edb' = edb, UNCHANGED client, wait' = wait, ctx' = ctx, pend' = pend
      PROVE  ZdoInv'
  BY <1>1, <1>2, SameCtx, QuietBuf
<1>3. CASE Rejoined(b)
  <2>1. /\ buf' = Put(b, Free) /\ buf[b].do # "edbind"
        /\ edb' = edb /\ UNCHANGED client /\ wait' = wait /\ ctx' = ctx /\ pend' = pend
    BY <1>3 DEF Rejoined, In, scanning
  <2>. QED BY <1>2, <2>1, PlainConsts
<1>4. CASE NlmePermitJoiningRequest(b)
  <2>1. /\ buf' = Put(b, J("started")) /\ buf[b].do # "edbind"
        /\ edb' = edb /\ UNCHANGED client /\ wait' = wait /\ ctx' = ctx /\ pend' = pend
    BY <1>4 DEF NlmePermitJoiningRequest, In, scanning
  <2>. QED BY <1>2, <2>1, PlainConsts
<1>5. CASE NlmePermitJoiningConfirm(b)
  <2>1. /\ buf' = Put(b, Free) /\ buf[b].do # "edbind"
        /\ edb' = edb /\ UNCHANGED client /\ wait' = wait /\ ctx' = ctx /\ pend' = pend
    BY <1>5 DEF NlmePermitJoiningConfirm, In, scanning
  <2>. QED BY <1>2, <2>1, PlainConsts
<1>6. ASSUME NEW st, EdScanConfirm(b, st) PROVE ZdoInv'
  <2>. DEFINE j == IF flg.zdoScan THEN NotifyJob(st) ELSE IF flg.mgrScan THEN J("scanned") ELSE Lost
  <2>1. /\ buf' = Put(b, j) /\ buf[b].do # "edbind"
        /\ edb' = edb /\ UNCHANGED client /\ wait' = wait /\ ctx' = ctx /\ pend' = pend
    BY <1>6 DEF EdScanConfirm, In, scanning
  <2>2. TsnRead \in Int
    BY <1>1 DEF TsnRead, CtxTyped
  <2>3. Plain(NotifyJob(st))
    BY <2>2, PlainJobs DEF NotifyJob
  <2>4. Plain(j)
    BY <2>3, PlainConsts
  <2>. HIDE DEF j
  <2>. QED BY <1>2, <2>1, <2>4
<1>7. CASE FinishCallback(b)
  <2>1. /\ buf' = Put(b, Lost) /\ buf[b].do # "edbind"
        /\ edb' = edb /\ UNCHANGED client /\ wait' = wait /\ ctx' = ctx /\ pend' = pend
    BY <1>7 DEF FinishCallback, In
  <2>. QED BY <1>2, <2>1, PlainConsts
<1>8. CASE AppCallback(b)
  <2>1. /\ buf' = Put(b, Free) /\ buf[b].do # "edbind"
        /\ edb' = edb /\ UNCHANGED client /\ wait' = wait /\ ctx' = ctx /\ pend' = pend
    BY <1>8 DEF AppCallback, In, scanning
  <2>. QED BY <1>2, <2>1, PlainConsts
<1>. QED BY <1>3, <1>4, <1>5, <1>6, <1>7, <1>8

LEMMA SendReqStep ==
  ASSUME ZdoInv, NEW b \in Bufs, buf[b].do # "edbind", NEW q, SendReq(b, q), q.clid # "ssd", q.count \in Int,
         q.func \in (Funcs \ EdbFns) \cup {"null"}, edb' = edb,
         wait' \in [Waiters -> Nat], wait'["check_bind"] = wait["check_bind"], CtxTyped', PendKept
  PROVE  ZdoInv'
<1>1. q.func \notin EdbFns
  BY DEF EdbFns
<1>2. Sends(q.func)
  BY <1>1, SendReqSends DEF ZdoInv
<1>. QED BY <1>2, SendsStep

LEMMA ScanStep ==
  ASSUME ZdoInv, NEW b \in Bufs,
         \/ \E c \in 0 .. Wrap - 1 : NwkUpdNotify(b, c)
         \/ \E busy \in BOOLEAN : ChannelCheckScanResult(b, busy)
  PROVE  ZdoInv'
<1>1. Typed /\ wait \in [Waiters -> Nat]
  BY DEF ZdoInv, Typed
<1>2. ASSUME NEW c, NwkUpdNotify(b, c) PROVE ZdoInv'
  <2>1. buf[b].do = "notify" /\ buf[b].tsn \in Int
    <3>1. buf[b].do = "notify"
      BY <1>2 DEF NwkUpdNotify, In
    <3>. QED BY <1>1, <3>1 DEF Typed, JobTyped
  <2>2. edb' = edb /\ pend' = pend /\ ctx' = ctx
    BY <1>2 DEF NwkUpdNotify
  <2>3. PendKept /\ CtxTyped'
    BY <1>1, <2>2, SamePend, SameCtx
  <2>4. wait' \in [Waiters -> Nat] /\ wait'["check_bind"] = wait["check_bind"]
    <3>. DEFINE more == buf[b].st = "ok" /\ c # 0
                m == IF more THEN wait["ed_scan"] + 1 ELSE wait["ed_scan"]
    <3>1. "ed_scan" \in Waiters \ {"check_bind"} /\ wait["ed_scan"] \in Nat
      BY <1>1 DEF Waiters
    <3>2. wait' = [wait EXCEPT !["ed_scan"] = m]
      BY <1>2, Zenon DEF NwkUpdNotify
    <3>3. m \in Nat
      BY <3>1
    <3>. HIDE DEF m
    <3>. QED BY <1>1, <3>1, <3>2, <3>3, WaitStep
  <2>5. CASE flg.sendAck
    <3>. DEFINE q == Q("notify", "finish", 1, FALSE)
    <3>1. SendReq(b, q)
      BY <1>2, <2>5 DEF NwkUpdNotify
    <3>2. q.clid # "ssd" /\ q.count \in Int /\ q.func \in (Funcs \ EdbFns) \cup {"null"}
      BY DEF Q, Funcs, EdbFns
    <3>. HIDE DEF q
    <3>. QED BY <2>1, <2>2, <2>3, <2>4, <3>1, <3>2, SendReqStep
  <2>6. CASE ~flg.sendAck
    <3>1. buf' = Put(b, TxResp(buf[b].tsn)) /\ UNCHANGED client
      BY <1>2, <2>6 DEF NwkUpdNotify
    <3>2. Plain(TxResp(buf[b].tsn))
      BY <2>1, PlainJobs
    <3>. QED BY <2>1, <2>2, <2>3, <2>4, <3>1, <3>2, QuietPut
  <2>. QED BY <2>5, <2>6
<1>3. ASSUME NEW busy, ChannelCheckScanResult(b, busy) PROVE ZdoInv'
  <2>. DEFINE j == IF busy THEN [do |-> "notify", tsn |-> 0, dst |-> "manager", st |-> "ok"] ELSE Free
  <2>1. buf[b].do = "scanned" /\ buf' = Put(b, j)
    BY <1>3 DEF ChannelCheckScanResult, In
  <2>2. Plain(j)
    BY PlainJobs, PlainConsts
  <2>3. edb' = edb /\ UNCHANGED client /\ wait' = wait /\ pend' = pend
    BY <1>3 DEF ChannelCheckScanResult
  <2>4. CtxTyped'
    <3>1. ctx' = ctx \/ ctx' = ScanCtx(0, "manager", 0)
      BY <1>3 DEF ChannelCheckScanResult
    <3>2. ctx' = ScanCtx(0, "manager", 0) => CtxTyped'
      BY DEF CtxTyped, ScanCtx
    <3>. QED BY <1>1, <3>1, <3>2, SameCtx
  <2>. HIDE DEF j
  <2>. QED BY <2>1, <2>2, <2>3, <2>4, QuietBuf
<1>. QED BY <1>2, <1>3

LEMMA ReceiveNotifyStep ==
  ASSUME ZdoInv, NEW t \in PeerTsn, NEW busy, ReceiveNotify(t, busy)
  PROVE  ZdoInv'
<1>1. Typed /\ t \in Int
  BY Constants DEF ZdoInv
<1>2. NewBuf \in Bufs /\ buf[NewBuf].do = "free"
  BY NewBufFacts DEF ReceiveNotify
<1>3. edb' = edb /\ pend' = pend /\ ctx' = ctx /\ wait' = wait
  BY DEF ReceiveNotify
<1>4. PendKept /\ CtxTyped' /\ wait' \in [Waiters -> Nat] /\ wait'["check_bind"] = wait["check_bind"]
  BY <1>1, <1>3, SamePend, SameCtx, SameWait
<1>5. CASE AfResp(NewBuf, t, 0, "ok", "none", Free) /\ UNCHANGED <<tsn, reqs, ssd, owed>>
  <2>1. 0 \in 0 .. reqs
    BY <1>1 DEF Typed
  <2>2. BufFcn
    <3>1. \E j : buf' = Put(NewBuf, j)
      BY <1>5 DEF AfResp
    <3>. QED BY <1>1, <1>2, <3>1, PutFacts DEF BufFcn, Typed
  <2>3. OwedKept
    BY <1>1, <1>5 DEF OwedKept, OwedShape, Typed
  <2>4. \E c \in Bufs, k \in Int : \E a, x, y, otherwise :
             /\ buf[c].do # "edbind" /\ Plain(otherwise)
             /\ a \in 0 .. reqs /\ (reqs < TsnMod => a = 0 \/ a = k)
             /\ AfResp(c, k, a, x, y, otherwise)
    BY <1>1, <1>2, <1>5, <2>1, PlainConsts
  <2>5. Answers
    BY <1>3, <1>4, <1>5, <2>2, <2>3, <2>4 DEF Answers, Frame
  <2>. QED BY <2>5, AnswersStep
<1>6. CASE SendReq(NewBuf, NwkUpdateChannelReq("null"))
  <2>. DEFINE q == NwkUpdateChannelReq("null")
  <2>1. q.clid # "ssd" /\ q.count \in Int /\ q.func \in (Funcs \ EdbFns) \cup {"null"}
    BY DEF NwkUpdateChannelReq, Q
  <2>2. SendReq(NewBuf, q)
    BY <1>6
  <2>. HIDE DEF q
  <2>. QED BY <1>2, <1>3, <1>4, <2>1, <2>2, SendReqStep
<1>7. CASE UNCHANGED <<client, buf>>
  BY <1>3, <1>4, <1>7, QuietSame
<1>. QED BY <1>5, <1>6, <1>7 DEF ReceiveNotify

LEMMA TimersStep ==
  ASSUME ZdoInv, PermitTimeout \/ NewChannelCb \/ ChannelCheckTimerCb \/ LongTimerCb \/ TxFails
  PROVE  ZdoInv'
<1>1. Typed /\ wait \in [Waiters -> Nat]
  BY DEF ZdoInv, Typed
<1>2. edb' = edb /\ UNCHANGED client /\ pend' = pend /\ buf' = buf
  BY DEF PermitTimeout, NewChannelCb, ChannelCheckTimerCb, LongTimerCb, TxFails
<1>3. CASE PermitTimeout \/ NewChannelCb \/ ChannelCheckTimerCb \/ LongTimerCb
  <2>1. ctx' = ctx /\ wait' = wait
    BY <1>3 DEF PermitTimeout, NewChannelCb, ChannelCheckTimerCb, LongTimerCb, scanning
  <2>. QED BY <1>1, <1>2, <2>1, SamePend, SameCtx, SameWait, QuietSame
<1>4. CASE TxFails
  <2>1. CtxTyped'
    BY <1>4 DEF TxFails, CtxTyped, ScanCtx
  <2>2. "ed_scan" \in Waiters \ {"check_bind"} /\ wait["ed_scan"] + 1 \in Nat
    BY <1>1 DEF Waiters
  <2>3. wait' = [wait EXCEPT !["ed_scan"] = wait["ed_scan"] + 1]
    BY <1>4 DEF TxFails, Waits
  <2>4. wait' \in [Waiters -> Nat] /\ wait'["check_bind"] = wait["check_bind"]
    BY <1>1, <2>2, <2>3, WaitStep
  <2>. QED BY <1>1, <1>2, <2>1, <2>4, SamePend, QuietSame
<1>. QED BY <1>3, <1>4

-----------------------------------------------------------------------------
\* The application, and data sent by binding.

LEMMA PlainReqsFacts ==
  ASSUME NEW q \in PlainReqs
  PROVE  q.clid # "ssd" /\ q.count \in Int /\ q.func = "app"
<1>1. CASE \E c \in ScanCounts : q = NwkUpdateScanReq(c)
  BY <1>1, Constants DEF NwkUpdateScanReq, Q
<1>2. CASE q \in {IeeeAddrReq, NodeDescReq, PowerDescReq, SimpleDescReq, ActiveEpReq, LqiReq, LeaveReq, PermitJoiningReq, EndDeviceBindReq}
  BY <1>2 DEF IeeeAddrReq, NodeDescReq, PowerDescReq, SimpleDescReq, ActiveEpReq, LqiReq, LeaveReq, PermitJoiningReq, EndDeviceBindReq, Q
<1>3. CASE q \in {MatchDescReq(FALSE), MatchDescReq(TRUE), BindUnbindReq(TRUE, "app"), BindUnbindReq(FALSE, "app")}
  BY <1>3 DEF MatchDescReq, BindUnbindReq, Q
<1>4. CASE q = NwkAddrReq("app", "none")
  BY <1>4 DEF NwkAddrReq, Q
<1>5. CASE q = NwkUpdateMaskReq
  BY <1>5 DEF NwkUpdateMaskReq, Q
<1>. QED BY <1>1, <1>2, <1>3, <1>4, <1>5 DEF PlainReqs

LEMMA RequestedStep ==
  ASSUME ZdoInv,
         \/ \E q \in PlainReqs : AppRequest(q)
         \/ AppServerDiscovery \/ AppChannelRequest
         \/ \E g \in {1, 2}, ep \in {1, 2} : AppAddGroup(g, ep)
  PROVE  ZdoInv'
<1>1. Typed /\ NumInv
  BY DEF ZdoInv
<1>2. ASSUME NEW q, SendReq(NewBuf, q), FreeBufs # {}, q.clid # "ssd", q.count \in Int, q.func = "app",
             edb' = edb, pend' = pend, ctx' = ctx, wait' = wait
      PROVE  ZdoInv'
  <2>1. NewBuf \in Bufs /\ buf[NewBuf].do = "free"
    BY <1>2, NewBufFacts
  <2>2. q.func \in (Funcs \ EdbFns) \cup {"null"}
    BY <1>2 DEF Funcs, EdbFns
  <2>. QED BY <1>1, <1>2, <2>1, <2>2, SamePend, SameCtx, SameWait, SendReqStep
<1>3. ASSUME NEW q \in PlainReqs, AppRequest(q) PROVE ZdoInv'
  <2>1. SendReq(NewBuf, q) /\ FreeBufs # {} /\ edb' = edb /\ pend' = pend /\ ctx' = ctx /\ wait' = wait
    BY <1>3 DEF AppRequest, scanning
  <2>. QED BY <1>2, <2>1, PlainReqsFacts
<1>4. CASE AppChannelRequest
  <2>. DEFINE q == NwkUpdateChannelReq("app")
  <2>1. SendReq(NewBuf, q) /\ FreeBufs # {} /\ edb' = edb /\ pend' = pend /\ ctx' = ctx /\ wait' = wait
    BY <1>4 DEF AppChannelRequest
  <2>2. q.clid # "ssd" /\ q.count \in Int /\ q.func = "app"
    BY DEF NwkUpdateChannelReq, Q
  <2>. HIDE DEF q
  <2>. QED BY <1>2, <2>1, <2>2
<1>5. CASE AppServerDiscovery
  <2>. DEFINE j == TxReq(SystemServerDiscoveryReq, NextTsn, reqs + 1)
  <2>1. NewBuf \in Bufs /\ buf[NewBuf].do = "free"
    BY <1>5, NewBufFacts DEF AppServerDiscovery
  <2>2. /\ edb' = edb /\ pend' = pend /\ ctx' = ctx /\ wait' = wait
        /\ tsn' = NextTsn /\ reqs' = reqs + 1 /\ cbs' = Register(cbs, NextTsn, "null", 1, reqs + 1)
        /\ ssd' = [tsn |-> NextTsn, func |-> "app", req |-> reqs + 1]
        /\ owed' = owed \cup Owe(SystemServerDiscoveryReq)
        /\ buf' = Put(NewBuf, j)
    BY <1>5 DEF AppServerDiscovery, scanning
  <2>3. NextTsn \in Int
    BY <1>1, NextNumber
  <2>4. Plain(j)
    BY <2>3 DEF Plain, JobTyped, TxReq
  <2>. HIDE DEF j
  <2>5. /\ BufFcn /\ buf'[NewBuf] = j
        /\ \A x \in Bufs : x # NewBuf => buf'[x] = buf[x]
    BY <1>1, <2>1, <2>2, PutFacts DEF Typed, BufFcn
  <2>6. \A x \in Bufs : buf'[x] = buf[x] \/ Changes(x)
    BY <2>1, <2>4, <2>5 DEF Changes
  <2>7. \A o \in Owe(SystemServerDiscoveryReq) : o.req = reqs + 1 /\ o.tsn = NextTsn /\ OwedShape(o)
    BY DEF Owe, OwedShape
  <2>8. PendKept /\ CtxTyped' /\ wait' \in [Waiters -> Nat] /\ wait'["check_bind"] = wait["check_bind"]
    BY <1>1, <2>2, SamePend, SameCtx, SameWait
  <2>9. \E c \in Int : ("null" \in EdbFns => c = 1) /\ cbs' = Register(cbs, NextTsn, "null", c, reqs + 1)
    BY <2>2
  <2>10. Sends("null")
    BY <2>2, <2>5, <2>6, <2>7, <2>8, <2>9 DEF Sends, PendKept
  <2>11. "null" \in (Funcs \ EdbFns) \cup {"null"}
    OBVIOUS
  <2>. QED BY <2>2, <2>8, <2>10, <2>11, SendsStep
<1>6. ASSUME NEW g, NEW ep, AppAddGroup(g, ep) PROVE ZdoInv'
  <2>1. buf' = buf /\ edb' = edb /\ UNCHANGED client /\ wait' = wait /\ ctx' = ctx /\ pend' = pend
    BY <1>6 DEF AppAddGroup, scanning
  <2>. QED BY <1>1, <2>1, SamePend, SameCtx, SameWait, QuietSame
<1>. QED BY <1>3, <1>4, <1>5, <1>6

LEMMA DataStep ==
  ASSUME ZdoInv, NEW b \in Bufs, buf[b].do # "edbind", DataByBinding(b), edb' = edb, UNCHANGED client, pend' = pend
  PROVE  ZdoInv'
<1>1. Typed /\ wait \in [Waiters -> Nat]
  BY DEF ZdoInv, Typed
<1>2. Plain([TxResp(1) EXCEPT !.kind = "data"])
  <2>. PICK j : j = [TxResp(1) EXCEPT !.kind = "data"]
    OBVIOUS
  <2>1. j.do = "tx" /\ j.tsn = 1
    BY DEF TxResp
  <2>. QED BY <2>1 DEF Plain, JobTyped
<1>3. CASE ctx' = ctx /\ wait' = wait
  <2>1. buf' = Put(b, Free) \/ buf' = Put(b, [TxResp(1) EXCEPT !.kind = "data"]) \/ buf' = Put(b, J("parked"))
    BY DEF DataByBinding
  <2>. QED BY <1>1, <1>2, <1>3, <2>1, PlainConsts, SameCtx, QuietBuf
<1>4. CASE \E dst : ctx' = AddrCtx(dst, b) /\ Waits("get_addr") /\ buf' = Put(b, J("parked"))
  <2>1. CtxTyped'
    BY <1>4 DEF CtxTyped, AddrCtx
  <2>2. "get_addr" \in Waiters \ {"check_bind"} /\ wait["get_addr"] + 1 \in Nat
    BY <1>1 DEF Waiters
  <2>3. wait' = [wait EXCEPT !["get_addr"] = wait["get_addr"] + 1]
    BY <1>4 DEF Waits
  <2>4. wait' \in [Waiters -> Nat] /\ wait'["check_bind"] = wait["check_bind"]
    BY <1>1, <2>2, <2>3, WaitStep
  <2>. QED BY <1>1, <1>4, <2>1, <2>4, PlainConsts, SamePend, QuietPut
<1>. QED BY <1>3, <1>4 DEF DataByBinding

LEMMA DataActions ==
  ASSUME ZdoInv, AppSendByBinding \/ \E b \in Bufs : ResumeData(b)
  PROVE  ZdoInv'
<1>1. CASE AppSendByBinding
  <2>1. NewBuf \in Bufs /\ buf[NewBuf].do = "free"
    BY <1>1, NewBufFacts DEF AppSendByBinding
  <2>2. DataByBinding(NewBuf) /\ edb' = edb /\ UNCHANGED client /\ pend' = pend
    BY <1>1 DEF AppSendByBinding
  <2>. QED BY <2>1, <2>2, DataStep
<1>2. ASSUME NEW b \in Bufs, ResumeData(b) PROVE ZdoInv'
  <2>1. buf[b].do = "data" /\ DataByBinding(b) /\ edb' = edb /\ UNCHANGED client /\ pend' = pend
    BY <1>2 DEF ResumeData, In
  <2>. QED BY <2>1, DataStep
<1>. QED BY <1>1, <1>2

LEMMA PeerStep ==
  ASSUME ZdoInv, NEW b \in Bufs, NEW jump, PeerShortAddrCb(b, jump)
  PROVE  ZdoInv'
<1>1. Typed
  BY DEF ZdoInv
<1>2. buf[b].do = "call" /\ edb' = edb /\ UNCHANGED client /\ wait' = wait /\ ctx' = ctx /\ pend' = pend
  BY DEF PeerShortAddrCb, In, scanning
<1>3. CASE buf' = Put(b, Free)
  BY <1>1, <1>2, <1>3, PlainConsts, SameCtx, QuietBuf
<1>4. CASE buf[ctx.param].do = "parked" /\ buf' = [buf EXCEPT ![b] = Free, ![ctx.param] = J("data")]
  <2>1. buf = [x \in Bufs |-> buf[x]]
    BY <1>1 DEF Typed
  <2>2. DOMAIN buf = Bufs
    <3>1. DOMAIN [x \in Bufs |-> buf[x]] = Bufs
      OBVIOUS
    <3>. QED BY <2>1, <3>1
  <2>3. buf' = [x \in Bufs |-> IF x = ctx.param THEN J("data") ELSE IF x = b THEN Free ELSE buf[x]]
    BY <1>4, <2>2
  <2>4. \A x \in Bufs : buf'[x] = buf[x] \/ Changes(x)
    <3>1. ASSUME NEW x \in Bufs PROVE buf'[x] = buf[x] \/ Changes(x)
      <4>1. CASE x = ctx.param
        <5>1. buf[x].do # "edbind" /\ buf'[x] = J("data")
          BY <1>4, <2>3, <4>1
        <5>. QED BY <5>1, PlainConsts DEF Changes
      <4>2. CASE x # ctx.param /\ x = b
        BY <1>2, <2>3, <4>2, PlainConsts DEF Changes
      <4>3. CASE x # ctx.param /\ x # b
        BY <2>3, <4>3
      <4>. QED BY <4>1, <4>2, <4>3
    <3>. QED BY <3>1
  <2>5. BufFcn
    BY <2>3 DEF BufFcn
  <2>6. Quiet
    BY <1>1, <1>2, <2>4, <2>5, SamePend, SameCtx, SameWait DEF Quiet, Frame
  <2>. QED BY <2>6, QuietStep
<1>. QED BY <1>3, <1>4 DEF PeerShortAddrCb

-----------------------------------------------------------------------------
\* A buffer has become free; an answer has come.

LEMMA ServedWait ==
  ASSUME Typed, NEW w \in Waiters, Serve(w)
  PROVE  /\ NewBuf \in Bufs /\ buf[NewBuf].do = "free" /\ wait[w] > 0
         /\ wait' \in [Waiters -> Nat] /\ wait'[w] = wait[w] - 1
         /\ w # "check_bind" => wait'["check_bind"] = wait["check_bind"]
<1>1. wait \in [Waiters -> Nat] /\ "check_bind" \in Waiters
  BY DEF Typed, Waiters
<1>2. wait' = [wait EXCEPT ![w] = wait[w] - 1] /\ wait[w] - 1 \in Nat /\ wait[w] > 0 /\ FreeBufs # {}
  BY <1>1 DEF Serve
<1>. QED BY <1>1, <1>2, NewBufFacts

LEMMA ServedStep ==
  ASSUME ZdoInv, GetPeerShortAddr \/ \E c \in 0 .. Wrap - 1 : StartEdScanLater(c)
  PROVE  ZdoInv'
<1>1. Typed /\ CtxTyped
  BY DEF ZdoInv, Typed
<1>2. CASE GetPeerShortAddr
  <2>1. "get_addr" \in Waiters /\ "get_addr" # "check_bind" /\ Serve("get_addr")
    BY <1>2 DEF Waiters, GetPeerShortAddr
  <2>2. NewBuf \in Bufs /\ buf[NewBuf].do = "free" /\ wait' \in [Waiters -> Nat] /\ wait'["check_bind"] = wait["check_bind"]
    BY <1>1, <2>1, ServedWait
  <2>3. PICK dev : SendReq(NewBuf, NwkAddrReq("peer", dev))
    BY <1>2 DEF GetPeerShortAddr
  <2>4. edb' = edb /\ pend' = pend /\ ctx' = ctx
    BY <1>2 DEF GetPeerShortAddr, scanning
  <2>5. LET q == NwkAddrReq("peer", dev) IN q.clid # "ssd" /\ q.count \in Int /\ q.func \in (Funcs \ EdbFns) \cup {"null"}
    BY DEF NwkAddrReq, Q, Funcs, EdbFns
  <2>. QED BY <1>1, <2>2, <2>3, <2>4, <2>5, SamePend, SameCtx, SendReqStep
<1>3. ASSUME NEW c \in 0 .. Wrap - 1, StartEdScanLater(c) PROVE ZdoInv'
  <2>1. "ed_scan" \in Waiters /\ "ed_scan" # "check_bind" /\ Serve("ed_scan")
    BY <1>3 DEF Waiters, StartEdScanLater
  <2>2. NewBuf \in Bufs /\ buf[NewBuf].do = "free" /\ wait' \in [Waiters -> Nat] /\ wait'["check_bind"] = wait["check_bind"]
    BY <1>1, <2>1, ServedWait
  <2>3. buf' = Put(NewBuf, EdScanJob) /\ edb' = edb /\ UNCHANGED client /\ pend' = pend /\ ctx' = StartEdScanIn(c)
    BY <1>3 DEF StartEdScanLater
  <2>4. CtxTyped'
    <3>1. CASE ctx.k = "scan"
      <4>. PICK m : m = (c - 1 + Wrap) % Wrap
        OBVIOUS
      <4>1. ctx' = [ctx EXCEPT !.count = m]
        BY <2>3, <3>1 DEF StartEdScanIn, StartEdScan
      <4>2. ctx = [k |-> "scan", count |-> ctx.count, dst |-> ctx.dst, tsn |-> ctx.tsn] /\ ctx.tsn \in Int
        BY <1>1, <3>1 DEF CtxTyped
      <4>3. ctx' = [k |-> "scan", count |-> m, dst |-> ctx.dst, tsn |-> ctx.tsn]
        <5>. PICK v, d, t : v = ctx.count /\ d = ctx.dst /\ t = ctx.tsn
          OBVIOUS
        <5>1. ctx = [k |-> "scan", count |-> v, dst |-> d, tsn |-> t]
          BY <4>2, Zenon
        <5>2. ctx' = [k |-> "scan", count |-> m, dst |-> d, tsn |-> t]
          BY <4>1, <5>1
        <5>. QED BY <5>2, Zenon
      <4>. QED BY <4>2, <4>3 DEF CtxTyped
    <3>2. CASE ctx.k # "scan"
      BY <2>3, <3>2 DEF StartEdScanIn, ScanCtx, CtxTyped
    <3>. QED BY <3>1, <3>2
  <2>. QED BY <1>1, <2>2, <2>3, <2>4, PlainConsts, SamePend, QuietPut
<1>. QED BY <1>2, <1>3

\* The answer to a server discovery.
LEMMA DiscoveredStep ==
  ASSUME ZdoInv, NEW b \in Bufs, buf[b].do # "edbind", NEW j, JobTyped(j), j.do # "edbind", ~EdbCall(j),
         reqs < TsnMod => (j.do = "call" /\ j.about # 0 => j.req = j.about),
         buf' = Put(b, j), OwedKept, UNCHANGED <<tsn, reqs, ssd, cbs, edb, wait, ctx, pend>>
  PROVE  ZdoInv'
<1>1. Typed /\ NumInv /\ EdbShape /\ OneChain /\ Carried /\ EdBindComplete
  BY DEF ZdoInv, EdbInv
<1>2. /\ BufFcn /\ buf'[b] = j
      /\ \A x \in Bufs : x # b => buf'[x] = buf[x]
  BY <1>1, PutFacts DEF Typed, BufFcn
<1>3. Typed'
  <2>1. \A x \in Bufs : JobTyped(buf'[x])
    BY <1>1, <1>2 DEF Typed
  <2>2. \A o \in owed' : o.tsn \in Int /\ o = [req |-> o.req, tsn |-> o.tsn, clid |-> o.clid, x |-> o.x, left |-> o.left]
    BY <1>1 DEF Typed, OwedKept, OwedShape
  <2>. QED BY <1>1, <1>2, <2>1, <2>2 DEF Typed, CtxTyped, PendTyped, BufFcn
<1>4. Running' \subseteq Running /\ (\A x \in Running' : buf'[x] = buf[x]) /\ InTable' = InTable
  BY <1>2 DEF Running, EdbCall, InTable
<1>5. EdbShape'
  BY <1>1, <1>2 DEF EdbShape
<1>6. OneChain' /\ Carried'
  BY <1>1, <1>4 DEF OneChain, Carried, AtFn, Underway, Asked
<1>7. NumInv'
  <2>1. reqs < TsnMod => RightCallback'
    BY <1>1, <1>2 DEF NumInv, RightCallback
  <2>2. \A o \in owed' : \E p \in owed : o.req = p.req /\ o.tsn = p.tsn
    BY DEF OwedKept
  <2>. QED BY <1>1, <2>1, <2>2 DEF NumInv
<1>. QED BY <1>1, <1>3, <1>5, <1>6, <1>7 DEF ZdoInv, EdbInv, EdBindComplete

LEMMA AnswerStep ==
  ASSUME ZdoInv, NEW o \in owed, NEW st, Answer(o, st)
  PROVE  ZdoInv'
<1>1. Typed /\ NumInv
  BY DEF ZdoInv
<1>2. NewBuf \in Bufs /\ buf[NewBuf].do = "free"
  BY NewBufFacts DEF Answer
<1>3. tsn' = tsn /\ reqs' = reqs /\ ssd' = ssd /\ edb' = edb /\ wait' = wait /\ ctx' = ctx /\ pend' = pend
  BY DEF Answer, scanning
<1>4. OwedKept
  <2>1. ASSUME NEW q \in owed' PROVE OwedShape(q) /\ \E p \in owed : q.req = p.req /\ q.tsn = p.tsn
    <3>1. q \in owed \/ q = [o EXCEPT !.left = o.left - 1]
      BY DEF Answer
    <3>2. CASE q \in owed
      BY <1>1, <3>2 DEF Typed, OwedShape
    <3>3. CASE q = [o EXCEPT !.left = o.left - 1]
      <4>1. o = [req |-> o.req, tsn |-> o.tsn, clid |-> o.clid, x |-> o.x, left |-> o.left]
        BY <1>1 DEF Typed
      <4>2. PICK r, t, c, x, l : r = o.req /\ t = o.tsn /\ c = o.clid /\ x = o.x /\ l = o.left
        OBVIOUS
      <4>3. o = [req |-> r, tsn |-> t, clid |-> c, x |-> x, left |-> l]
        BY <4>1, <4>2, Zenon
      <4>4. PICK m : m = o.left - 1
        OBVIOUS
      <4>5. q = [req |-> r, tsn |-> t, clid |-> c, x |-> x, left |-> m]
        BY <3>3, <4>3, <4>4
      <4>6. q.req = o.req /\ q.tsn = o.tsn /\ OwedShape(q)
        BY <4>2, <4>5 DEF OwedShape
      <4>. QED BY <4>6
    <3>. QED BY <3>1, <3>2, <3>3
  <2>. QED BY <2>1 DEF OwedKept
<1>5. o.tsn \in Int /\ o.req \in 0 .. reqs /\ (reqs < TsnMod => o.req = o.tsn)
  BY <1>1 DEF Typed, NumInv
<1>6. CASE o.clid = "ssd"
  <2>. DEFINE j == IF o.tsn = ssd.tsn THEN CallOf(ssd, o.req, st, "none") ELSE Free
  <2>1. buf' = Put(NewBuf, j) /\ cbs' = cbs
    BY <1>6 DEF Answer
  <2>2. CASE o.tsn = ssd.tsn
    <3>1. j.do = "call" /\ j.func = ssd.func /\ j.req = ssd.req /\ j.about = o.req
      BY <2>2 DEF CallOf
    <3>. HIDE DEF j
    <3>2. ssd.func \in Funcs \ EdbFns
      BY <1>1 DEF Typed, Funcs, EdbFns
    <3>3. JobTyped(j) /\ j.do # "edbind" /\ ~EdbCall(j)
      BY <3>1, <3>2 DEF JobTyped, EdbCall
    <3>4. reqs < TsnMod => j.req = j.about
      BY <1>1, <1>5, <2>2, <3>1 DEF NumInv
    <3>. QED BY <1>2, <1>3, <1>4, <2>1, <3>3, <3>4, DiscoveredStep
  <2>3. CASE o.tsn # ssd.tsn
    <3>1. j = Free
      BY <2>3
    <3>. HIDE DEF j
    <3>2. JobTyped(j) /\ j.do # "edbind" /\ ~EdbCall(j) /\ j.do # "call"
      BY <3>1 DEF JobTyped, EdbCall, Free, J
    <3>. QED BY <1>2, <1>3, <1>4, <2>1, <3>2, DiscoveredStep
  <2>. QED BY <2>2, <2>3
<1>7. CASE o.clid # "ssd"
  <2>1. AfResp(NewBuf, o.tsn, o.req, st, o.x, Free)
    BY <1>7 DEF Answer
  <2>2. BufFcn
    <3>1. \E j : buf' = Put(NewBuf, j)
      BY <2>1 DEF AfResp
    <3>. QED BY <1>1, <1>2, <3>1, PutFacts DEF BufFcn, Typed
  <2>3. \E c \in Bufs, k \in Int : \E a, x, y, otherwise :
             /\ buf[c].do # "edbind" /\ Plain(otherwise)
             /\ a \in 0 .. reqs /\ (reqs < TsnMod => a = 0 \/ a = k)
             /\ AfResp(c, k, a, x, y, otherwise)
    BY <1>2, <1>5, <2>1, PlainConsts
  <2>4. PendKept /\ CtxTyped' /\ wait' \in [Waiters -> Nat] /\ wait'["check_bind"] = wait["check_bind"]
    BY <1>1, <1>3, SamePend, SameCtx, SameWait
  <2>5. Answers
    BY <1>3, <1>4, <2>2, <2>3, <2>4 DEF Answers, Frame
  <2>. QED BY <2>5, AnswersStep
<1>. QED BY <1>6, <1>7

-----------------------------------------------------------------------------
\* The steps of an end device bind, as actions.

LEMMA ReceiveEdBindStep ==
  ASSUME ZdoInv, NEW q \in EdBindReqs, NEW t \in PeerTsn, ReceiveEdBind(q, t)
  PROVE  ZdoInv'
<1>1. Typed /\ t \in Int
  BY Constants DEF ZdoInv
<1>2. NewBuf \in Bufs /\ NewBuf # Undef /\ buf[NewBuf].do = "free"
  BY NewBufFacts DEF ReceiveEdBind
<1>3. UNCHANGED client /\ ctx' = ctx /\ pend' = pend
  BY DEF ReceiveEdBind, scanning
<1>4. CASE buf' = Put(NewBuf, TxResp(t)) /\ UNCHANGED <<edb, wait, wild>>
  <2>1. Plain(TxResp(t))
    BY <1>1, PlainJobs
  <2>. QED BY <1>1, <1>2, <1>3, <1>4, <2>1, SameCtx, QuietBuf
<1>5. CASE edb.p1 = Undef /\ EdbFirst(NewBuf, q, t)
  BY <1>1, <1>2, <1>3, <1>5, FirstStep
<1>6. CASE edb.p1 # Undef /\ edb.p2 = Undef /\ EdbSecond(NewBuf, q, t)
  BY <1>1, <1>2, <1>3, <1>6, SecondStep
<1>. QED BY <1>4, <1>5, <1>6 DEF ReceiveEdBind

LEMMA SendCheckBindUnbindStep ==
  ASSUME ZdoInv, SendCheckBindUnbind
  PROVE  ZdoInv'
<1>1. Typed /\ NumInv
  BY DEF ZdoInv
<1>2. "check_bind" \in Waiters /\ Serve("check_bind")
  BY DEF Waiters, SendCheckBindUnbind
<1>3. /\ NewBuf \in Bufs /\ buf[NewBuf].do = "free" /\ wait["check_bind"] > 0
      /\ wait' \in [Waiters -> Nat] /\ wait'["check_bind"] = wait["check_bind"] - 1
  BY <1>1, <1>2, ServedWait
<1>. DEFINE q == BindUnbindReq(FALSE, "check")
<1>4. SendReq(NewBuf, q) /\ pend' = pend /\ ctx' = ctx /\ edb' = [edb EXCEPT !.cur = IF edb.num[1] > 0 THEN 1 ELSE 2]
  BY DEF SendCheckBindUnbind, scanning
<1>5. q.clid # "ssd" /\ q.count = 1 /\ q.func = "check"
  BY DEF BindUnbindReq, Q
<1>. HIDE DEF q
<1>6. Sends("check")
  <2>1. PendKept /\ CtxTyped'
    BY <1>1, <1>4, SamePend, SameCtx
  <2>2. buf[NewBuf].do # "edbind" /\ q.count \in Int /\ (q.func \in EdbFns => q.count = 1)
    BY <1>3, <1>5
  <2>3. Sends(q.func)
    BY <1>1, <1>3, <1>4, <1>5, <2>1, <2>2, SendReqSends
  <2>. QED BY <1>5, <2>3
<1>. QED BY <1>3, <1>4, <1>6, CheckStep

LEMMA EdbCallbackStep ==
  ASSUME ZdoInv, NEW b \in Bufs, EdbCallback(b)
  PROVE  ZdoInv'
<1>1. Typed /\ NumInv
  BY DEF ZdoInv
<1>2. buf[b].do = "call" /\ buf[b].func \in EdbFns /\ EdbCall(buf[b])
  BY DEF EdbCallback, In, EdbCall, EdbFns
<1>3. wait' = wait /\ pend' = pend /\ ctx' = ctx
  BY DEF EdbCallback, scanning
<1>. DEFINE bind == IF buf[b].func = "check" THEN buf[b].st = "no_entry" ELSE buf[b].func = "ebind"
            f == IF bind THEN "ebind" ELSE "eunbind"
<1>4. SendBindUnbindWithCheck(b, bind, f)
  BY DEF EdbCallback
<1>5. bind \in BOOLEAN /\ (buf[b].func = "check" \/ bind = (buf[b].func = "ebind"))
  BY <1>2 DEF EdbFns
<1>. HIDE DEF bind
<1>6. edb.cur \in {1, 2}
  BY <1>2, CallbackFacts
<1>7. CASE edb.num[edb.cur] > 0
  <2>. DEFINE q == BindUnbindReq(bind, f)
  <2>1. /\ edb' = [edb EXCEPT !.num[edb.cur] = @ - 1,
                              !.asked = @ \cup {[dev |-> edb.cur, i |-> edb.num[edb.cur], bind |-> bind]}]
        /\ SendReq(b, q)
    BY <1>4, <1>7 DEF SendBindUnbindWithCheck
  <2>2. q.clid # "ssd" /\ q.count = 1 /\ q.func = f
    BY DEF BindUnbindReq, Q
  <2>. HIDE DEF q, f
  <2>3. PendKept /\ CtxTyped' /\ wait' \in [Waiters -> Nat]
    BY <1>1, <1>3, SamePend, SameCtx, SameWait
  <2>4. buf[b].do # "edbind" /\ q.count \in Int /\ (q.func \in EdbFns => q.count = 1)
    BY <1>2, <2>2
  <2>5. Sends(f)
    <3>1. Sends(q.func)
      BY <1>1, <2>1, <2>2, <2>3, <2>4, SendReqSends
    <3>. QED BY <2>2, <3>1
  <2>6. buf'[b].do = "tx"
    <3>1. buf' = Put(b, TxReq(q, NextTsn, reqs + 1))
      BY <2>1 DEF SendReq
    <3>2. buf'[b] = TxReq(q, NextTsn, reqs + 1)
      BY <1>1, <3>1, PutFacts DEF Typed
    <3>. QED BY <3>2 DEF TxReq
  <2>7. Sends(IF bind THEN "ebind" ELSE "eunbind")
    BY <2>5 DEF f
  <2>. QED BY <1>2, <1>3, <1>5, <1>7, <2>1, <2>6, <2>7, AskStep
<1>8. CASE ~(edb.num[edb.cur] > 0) /\ edb.cur = 1
  <2>1. UNCHANGED client /\ edb' = [edb EXCEPT !.cur = 2] /\ buf' = Put(b, CallOf([func |-> f, req |-> 0], 0, "ok", "none"))
    BY <1>4, <1>8 DEF SendBindUnbindWithCheck
  <2>. QED BY <1>2, <1>3, <1>5, <1>8, <2>1, TurnStep
<1>9. CASE ~(edb.num[edb.cur] > 0) /\ edb.cur # 1
  <2>1. UNCHANGED client /\ edb' = [EdbEnded(edb) EXCEPT !.cur = 3, !.done = TRUE] /\ buf' = Put(b, Free)
    BY <1>4, <1>9 DEF SendBindUnbindWithCheck
  <2>. QED BY <1>2, <1>3, <1>5, <1>9, <2>1, EndStep
<1>. QED BY <1>7, <1>8, <1>9

-----------------------------------------------------------------------------
\* The whole.

LEMMA InitHolds ==
  ASSUME Init
  PROVE  ZdoInv
<1>1. Typed
  <2>1. \A b \in Bufs : JobTyped(buf[b])
    BY DEF Init, JobTyped, Free, J
  <2>2. cbs \in [Slots -> Cbs]
    BY DEF Init, Slots, Cbs, Funcs, NoCb
  <2>3. PendTyped
    <3>1. pend.tab = [i \in Pends |-> NoLeave] /\ pend.size = 0 /\ pend.after = FALSE /\ pend.rejoin = FALSE
      BY DEF Init, Pends
    <3>2. pend = [tab |-> pend.tab, size |-> pend.size, after |-> pend.after, rejoin |-> pend.rejoin]
      BY DEF Init
    <3>3. NoLeave \in [used : BOOLEAN, tsn : Int, src : {Own, "peer", "none"}, buf : Bufs \cup {Undef}, req : Nat]
      BY DEF NoLeave, Undef
    <3>4. pend.tab \in [Pends -> [used : BOOLEAN, tsn : Int, src : {Own, "peer", "none"}, buf : Bufs \cup {Undef}, req : Nat]]
      <4>. HIDE DEF NoLeave
      <4>. QED BY <3>1, <3>3
    <3>5. pend.size \in 0 .. PendSize
      BY <3>1, Constants
    <3>. QED BY <3>2, <3>4, <3>5 DEF PendTyped, PendOk, IsPend
  <2>4. CtxTyped
    BY DEF Init, CtxTyped, ZeroCtx
  <2>5. wait \in [Waiters -> Nat]
    BY DEF Init, Waiters
  <2>. QED BY <2>1, <2>2, <2>3, <2>4, <2>5 DEF Typed, Init
<1>2. InTable = {} /\ Running = {} /\ wait["check_bind"] = 0
  BY DEF Init, InTable, Running, EdbCall, Slots, NoCb, EdbFns, Free, J
<1>3. EdbShape
  BY DEF Init, NoEdb, EdbShape, Undef
<1>4. EdbInv
  BY <1>2, <1>3 DEF EdbInv, OneChain, Carried, EdBindComplete, Init, NoEdb
<1>5. NumInv
  <2>1. \A i \in Slots : cbs[i].func = "none"
    BY DEF Init, Slots, NoCb
  <2>2. \A i \in Pends : pend.tab[i].req = 0
    BY DEF Init, Pends, NoLeave
  <2>3. RightCallback
    BY DEF Init, RightCallback, Free, J
  <2>4. reqs = 0 /\ tsn = 0 /\ ssd.req = 0 /\ ssd.tsn = 0 /\ owed = {}
    BY DEF Init
  <2>. QED BY <2>1, <2>2, <2>3, <2>4 DEF NumInv
<1>. QED BY <1>1, <1>4, <1>5 DEF ZdoInv

LEMMA NextHolds ==
  ASSUME ZdoInv, [Next]_vars
  PROVE  ZdoInv'
<1>1. CASE Requested
  <2>1. CASE \E d \in {Own, "child", "nobody"}, r \in BOOLEAN : AppLeaveLocal(d, r)
    BY <2>1, AppLeaveLocalStep
  <2>2. CASE AppSendByBinding
    BY <2>2, DataActions
  <2>. QED BY <1>1, <2>1, <2>2, RequestedStep DEF Requested
<1>2. CASE Received
  <2>1. PICK t \in PeerTsn :
          \/ \E q \in DiscReqs, g \in Garbage : ReceiveDiscovery(q, t, g)
          \/ \E bind \in BOOLEAN, r \in BindReqs : ReceiveBindUnbind(bind, r, t)
          \/ \E d \in {Own, "child", "nobody"}, r \in BOOLEAN : ReceiveLeave(t, "peer", d, r)
          \/ \E c \in ScanCounts : ReceiveUpdateScan(c, t, "peer")
          \/ \E w \in {"channel", "mask", "bad_duration"} : ReceiveUpdateOther(w, t, "peer")
          \/ \E busy \in BOOLEAN : ReceiveNotify(t, busy)
          \/ \E q \in EdBindReqs : ReceiveEdBind(q, t)
    BY <1>2 DEF Received
  <2>2. CASE \E d \in {Own, "child", "nobody"}, r \in BOOLEAN : ReceiveLeave(t, "peer", d, r)
    BY <2>2, ReceiveLeaveStep
  <2>3. CASE \E busy \in BOOLEAN : ReceiveNotify(t, busy)
    BY <2>3, ReceiveNotifyStep
  <2>4. CASE \E q \in EdBindReqs : ReceiveEdBind(q, t)
    BY <2>4, ReceiveEdBindStep
  <2>. QED BY <2>1, <2>2, <2>3, <2>4, ReceivedStep
<1>3. CASE ReceivedOther
  BY <1>3, ReceivedOtherStep
<1>4. CASE Works
  <2>1. PICK b \in Bufs :
          \/ \E st \in {"ok", "no_ack", "error"} : DataConfirm(b, st)
          \/ NlmeLeaveRequest(b) \/ NlmeLeaveConfirm(b) \/ Rejoined(b)
          \/ NlmePermitJoiningRequest(b) \/ NlmePermitJoiningConfirm(b)
          \/ \E st \in {"ok", "error"} : EdScanConfirm(b, st)
          \/ \E c \in 0 .. Wrap - 1 : NwkUpdNotify(b, c)
          \/ \E busy \in BOOLEAN : ChannelCheckScanResult(b, busy)
          \/ EdbCallback(b) \/ ResumeData(b) \/ FinishCallback(b) \/ AppCallback(b)
          \/ \E jump \in BOOLEAN : PeerShortAddrCb(b, jump)
    BY <1>4 DEF Works
  <2>2. CASE \E st \in {"ok", "no_ack", "error"} : DataConfirm(b, st)
    BY <2>2, DataConfirmStep
  <2>3. CASE NlmeLeaveRequest(b) \/ NlmeLeaveConfirm(b)
    BY <2>3, NlmeLeaveRequestStep, NlmeLeaveConfirmStep
  <2>4. CASE EdbCallback(b)
    BY <2>4, EdbCallbackStep
  <2>5. CASE ResumeData(b)
    BY <2>5, DataActions
  <2>6. CASE \E jump \in BOOLEAN : PeerShortAddrCb(b, jump)
    BY <2>6, PeerStep
  <2>7. CASE \/ \E c \in 0 .. Wrap - 1 : NwkUpdNotify(b, c)
             \/ \E busy \in BOOLEAN : ChannelCheckScanResult(b, busy)
    BY <2>7, ScanStep
  <2>. QED BY <2>1, <2>2, <2>3, <2>4, <2>5, <2>6, <2>7, HandedOnStep
<1>5. CASE Served
  <2>1. CASE SendCheckBindUnbind
    BY <2>1, SendCheckBindUnbindStep
  <2>2. CASE NwkDoLeaveLocal
    BY <2>2, NwkDoLeaveLocalStep
  <2>3. CASE \E o \in owed, st \in {"ok", "no_entry"} : Answer(o, st)
    BY <2>3, AnswerStep
  <2>. QED BY <1>5, <2>1, <2>2, <2>3, ServedStep DEF Served
<1>6. CASE Timers
  BY <1>6, TimersStep, TimerStep DEF Timers
<1>7. CASE UNCHANGED vars
  <2>1. Typed
    BY DEF ZdoInv
  <2>2. buf' = buf /\ edb' = edb /\ UNCHANGED client /\ wait' = wait /\ ctx' = ctx /\ pend' = pend
    BY <1>7 DEF vars, client
  <2>. QED BY <2>1, <2>2, SameCtx, SamePend, SameWait, QuietSame
<1>. QED BY <1>1, <1>2, <1>3, <1>4, <1>5, <1>6, <1>7 DEF Next

(***************************************************************************)
(* For every size of the tables and every set of requests that may arrive: *)
(* the types, the single thread of an end device bind, and the numbers of  *)
(* requests are preserved by everything the device profile does.           *)
(***************************************************************************)
THEOREM ZdoInductive == Spec => []ZdoInv
<1>1. Init => ZdoInv
  BY InitHolds
<1>2. ZdoInv /\ [Next]_vars => ZdoInv'
  BY NextHolds
<1>. QED BY <1>1, <1>2, PTL DEF Spec

(***************************************************************************)
(* An end device bind that has come to its end asked both devices for      *)
(* exactly the matched clusters, and for one thing, bind or unbind:        *)
(* send_bind_unbind_with_check, whatever the size of the lists and of the  *)
(* table of callbacks, and whichever answers are lost or come late.        *)
(***************************************************************************)
THEOREM EdBindEnds == Spec => []EdBindComplete
<1>1. ZdoInv => EdBindComplete
  BY DEF ZdoInv, EdbInv
<1>. QED BY <1>1, ZdoInductive, PTL

(***************************************************************************)
(* Until the sequence numbers have wrapped, a callback called for an       *)
(* answer is the one registered with the request that was answered:        *)
(* zdo_af_resp, register_zdo_cb.  Afterwards two requests may wait under   *)
(* one number, and nothing in the table tells them apart.                  *)
(***************************************************************************)
THEOREM AnswersToTheirCallback == Spec => [](reqs < TsnMod => RightCallback)
<1>1. ZdoInv => (reqs < TsnMod => RightCallback)
  BY DEF ZdoInv, NumInv
<1>. QED BY <1>1, ZdoInductive, PTL

-----------------------------------------------------------------------------
\* Permit joining.

PermitShape ==
  permit = [join |-> permit.join, assoc |-> permit.assoc, beacon |-> permit.beacon, alarms |-> permit.alarms, last |-> permit.last]
PermitInv == PermitShape /\ permit.join \in BOOLEAN /\ PermitTimed

LEMMA PermitStep ==
  ASSUME Typed, PermitInv, [Next]_vars
  PROVE  PermitInv'
<1>1. CASE permit' = permit
  BY <1>1 DEF PermitInv, PermitShape, PermitTimed
<1>2. ASSUME NEW b \in Bufs, NlmePermitJoiningRequest(b) PROVE PermitInv'
  <2>. DEFINE d == buf[b].duration
              a == (permit.alarms - (IF permit.join THEN 1 ELSE 0)) + (IF d > 0 THEN 1 ELSE 0)
  <2>1. d \in Nat \cup {-1}
    BY <1>2, Constants DEF NlmePermitJoiningRequest, In, Typed, JobTyped
  <2>2. permit' = [join |-> d > 0, assoc |-> d # 0, beacon |-> d # 0, alarms |-> a, last |-> d]
    BY <1>2 DEF NlmePermitJoiningRequest
  <2>3. a = IF d > 0 THEN 1 ELSE 0
    BY DEF PermitInv, PermitTimed
  <2>. HIDE DEF d, a
  <2>4. permit'.join = (d > 0) /\ permit'.assoc = (d # 0) /\ permit'.alarms = a /\ permit'.last = d /\ PermitShape'
    BY <2>2 DEF PermitShape
  <2>5. CASE d > 0
    <3>1. permit'.join = TRUE /\ permit'.alarms = 1
      BY <2>3, <2>4, <2>5
    <3>. QED BY <2>4, <3>1 DEF PermitInv, PermitTimed
  <2>6. CASE ~(d > 0)
    <3>1. permit'.join = FALSE /\ permit'.alarms = 0
      <4>1. (d > 0) = FALSE
        BY <2>1, <2>6
      <4>. QED BY <2>3, <2>4, <2>6, <4>1
    <3>2. d \in {0, -1}
      BY <2>1, <2>6
    <3>3. permit'.assoc => permit'.last = -1
      <4>1. CASE d = 0
        <5>1. (d # 0) = FALSE
          BY <4>1
        <5>. QED BY <2>4, <5>1
      <4>2. CASE d = -1
        BY <2>4, <4>2
      <4>. QED BY <3>2, <4>1, <4>2
    <3>. QED BY <2>4, <3>1, <3>3 DEF PermitInv, PermitTimed
  <2>. QED BY <2>5, <2>6
<1>3. CASE PermitTimeout
  <2>1. permit' = [permit EXCEPT !.join = FALSE, !.assoc = FALSE, !.alarms = @ - 1] /\ permit.alarms > 0
    BY <1>3 DEF PermitTimeout
  <2>2. PICK j, s, e, m, l : j = permit.join /\ s = permit.assoc /\ e = permit.beacon /\ m = permit.alarms /\ l = permit.last
    OBVIOUS
  <2>3. permit = [join |-> j, assoc |-> s, beacon |-> e, alarms |-> m, last |-> l]
    BY <2>2, Zenon DEF PermitInv, PermitShape
  <2>4. permit.alarms - 1 = 0
    BY <2>1 DEF PermitInv, PermitTimed
  <2>5. permit' = [join |-> FALSE, assoc |-> FALSE, beacon |-> e, alarms |-> 0, last |-> l]
    BY <2>1, <2>3, <2>4
  <2>6. permit'.join = FALSE /\ permit'.assoc = FALSE /\ permit'.alarms = 0 /\ PermitShape'
    BY <2>5 DEF PermitShape
  <2>. QED BY <2>6 DEF PermitInv, PermitTimed
<1>4. CASE Requested
  <2>1. permit' = permit
    BY <1>4 DEF Requested, AppRequest, AppServerDiscovery, AppChannelRequest, AppSendByBinding, AppLeaveLocal, AppAddGroup
  <2>. QED BY <1>1, <2>1
<1>5. CASE Received
  <2>1. permit' = permit
    BY <1>5 DEF Received, ReceiveDiscovery, ReceiveBindUnbind, ReceiveLeave, ReceiveUpdateScan, ReceiveUpdateOther, ReceiveNotify, ReceiveEdBind
  <2>. QED BY <1>1, <2>1
<1>6. CASE ReceivedOther
  <2>1. permit' = permit
    BY <1>6 DEF ReceivedOther, ReceiveAnnce, ReceivePermit
  <2>. QED BY <1>1, <2>1
<1>7. CASE Works
  <2>1. permit' = permit \/ \E b \in Bufs : NlmePermitJoiningRequest(b)
    BY <1>7 DEF Works, DataConfirm, NlmeLeaveRequest, NlmeLeaveConfirm, Rejoined, NlmePermitJoiningConfirm, EdScanConfirm, NwkUpdNotify,
                ChannelCheckScanResult, EdbCallback, ResumeData, FinishCallback, AppCallback, PeerShortAddrCb
  <2>. QED BY <1>1, <1>2, <2>1
<1>8. CASE Served
  <2>1. permit' = permit
    BY <1>8 DEF Served, GetPeerShortAddr, SendCheckBindUnbind, NwkDoLeaveLocal, StartEdScanLater, Answer
  <2>. QED BY <1>1, <2>1
<1>9. CASE Timers
  <2>1. permit' = permit \/ PermitTimeout
    BY <1>9 DEF Timers, NewChannelCb, ChannelCheckTimerCb, LongTimerCb, EndDeviceBindTimer, TxFails
  <2>. QED BY <1>1, <1>3, <2>1
<1>10. CASE UNCHANGED vars
  BY <1>1, <1>10 DEF vars
<1>. QED BY <1>4, <1>5, <1>6, <1>7, <1>8, <1>9, <1>10 DEF Next

(***************************************************************************)
(* For every set of durations: one timeout at most is pending, exactly     *)
(* while the handle says so, and permission given for a limited time has   *)
(* one: zb_nlme_permit_joining_request, nwk_permit_timeout.                *)
(***************************************************************************)
THEOREM PermitHasTimeout == Spec => []PermitTimed
<1>1. Init => PermitInv
  <2>1. ASSUME Init PROVE PermitInv
    <3>1. permit = [join |-> FALSE, assoc |-> TRUE, beacon |-> TRUE, alarms |-> 0, last |-> -1]
      BY <2>1 DEF Init
    <3>. QED BY <3>1 DEF PermitInv, PermitShape, PermitTimed
  <2>. QED BY <2>1
<1>2. ZdoInv /\ PermitInv /\ [Next]_vars => PermitInv'
  BY PermitStep DEF ZdoInv
<1>3. PermitInv => PermitTimed
  BY DEF PermitInv
<1>. QED BY <1>1, <1>2, <1>3, ZdoInductive, PTL DEF Spec

-----------------------------------------------------------------------------
\* The binding table.

LEMMA MaxOfPair ==
  ASSUME NEW a \in Int, NEW b \in Int
  PROVE  Max({a, b}) = IF a >= b THEN a ELSE b
<1>. DEFINE m == IF a >= b THEN a ELSE b
<1>1. m \in {a, b} /\ \A y \in {a, b} : m >= y
  OBVIOUS
<1>2. \A x \in {a, b} : (\A y \in {a, b} : x >= y) => x = m
  OBVIOUS
<1>. HIDE DEF m
<1>3. Max({a, b}) = m
  BY <1>1, <1>2 DEF Max
<1>. QED BY <1>3 DEF m

LEMMA LooksAtFacts ==
  ASSUME NEW m \in Nat
  PROVE  LooksAt(m) = IF m = 0 THEN {0} ELSE 0 .. m - 1
<1>1. Max({m, 1}) = IF m >= 1 THEN m ELSE 1
  BY MaxOfPair
<1>2. LooksAt(m) = 0 .. (IF m >= 1 THEN m ELSE 1) - 1
  BY <1>1 DEF LooksAt
<1>3. CASE m = 0
  <2>1. LooksAt(m) = 0 .. 0
    BY <1>2, <1>3
  <2>. QED BY <1>3, <2>1
<1>4. CASE m # 0
  BY <1>2, <1>4
<1>. QED BY <1>3, <1>4

LEMMA AtLeastFacts ==
  ASSUME NEW S \in SUBSET Nat
  PROVE  \/ S = {} /\ AtLeast(S, -1) = -1
         \/ S # {} /\ AtLeast(S, -1) \in S
BY MinIn DEF AtLeast

\* What is left of m entries when those of gone are taken out, and the new
\* place of each.
Keep(m, gone) == (0 .. m - 1) \ gone
Place(m, gone, i) == Cardinality({j \in Keep(m, gone) : j < i})

LEMMA KeepFinite ==
  ASSUME NEW m \in Nat, NEW gone, NEW S, S \subseteq Keep(m, gone)
  PROVE  IsFiniteSet(S) /\ Cardinality(S) \in Nat /\ Cardinality(S) <= Cardinality(Keep(m, gone)) /\ Cardinality(S) <= m
<1>1. IsFiniteSet(0 .. m - 1) /\ Cardinality(0 .. m - 1) = m
  BY FS_Interval
<1>2. Keep(m, gone) \subseteq 0 .. m - 1
  BY DEF Keep
<1>3. IsFiniteSet(Keep(m, gone)) /\ Cardinality(Keep(m, gone)) <= m /\ Cardinality(Keep(m, gone)) \in Nat
  BY <1>1, <1>2, FS_Subset, FS_CardinalityType
<1>4. IsFiniteSet(S) /\ Cardinality(S) <= Cardinality(Keep(m, gone)) /\ Cardinality(S) \in Nat
  BY <1>3, FS_Subset, FS_CardinalityType
<1>. QED BY <1>3, <1>4

LEMMA PlaceBelow ==
  ASSUME NEW m \in Nat, NEW gone, NEW i \in Keep(m, gone)
  PROVE  /\ Place(m, gone, i) \in 0 .. Cardinality(Keep(m, gone)) - 1
         /\ \A k \in Keep(m, gone) : i < k => Place(m, gone, i) < Place(m, gone, k)
<1>. DEFINE B(k) == {j \in Keep(m, gone) : j < k}
<1>1. \A S : S \subseteq Keep(m, gone) => IsFiniteSet(S) /\ Cardinality(S) \in Nat
  BY KeepFinite
<1>2. Keep(m, gone) \subseteq Int
  BY DEF Keep
<1>3. ASSUME NEW S, S \subseteq Keep(m, gone), B(i) \subseteq S, i \in S
      PROVE  Cardinality(B(i)) < Cardinality(S)
  <2>1. IsFiniteSet(S) /\ Cardinality(S) \in Nat
    BY <1>1, <1>3
  <2>2. i \notin B(i)
    BY <1>2
  <2>3. Cardinality(B(i)) # Cardinality(S) /\ Cardinality(B(i)) <= Cardinality(S)
    <3>. HIDE DEF B
    <3>. QED BY <1>3, <2>1, <2>2, FS_Subset
  <2>4. Cardinality(B(i)) \in Nat
    <3>1. B(i) \subseteq Keep(m, gone)
      OBVIOUS
    <3>. HIDE DEF B
    <3>. QED BY <1>1, <3>1
  <2>. HIDE DEF B
  <2>. QED BY <2>1, <2>3, <2>4
<1>4. Place(m, gone, i) = Cardinality(B(i)) /\ Cardinality(B(i)) \in Nat
  BY <1>1 DEF Place
<1>5. Cardinality(B(i)) < Cardinality(Keep(m, gone)) /\ Cardinality(Keep(m, gone)) \in Nat
  <2>1. B(i) \subseteq Keep(m, gone)
    OBVIOUS
  <2>. HIDE DEF B
  <2>. QED BY <1>1, <1>3, <2>1
<1>6. ASSUME NEW k \in Keep(m, gone), i < k PROVE Place(m, gone, i) < Place(m, gone, k)
  <2>1. B(k) \subseteq Keep(m, gone) /\ B(i) \subseteq B(k) /\ i \in B(k)
    BY <1>2, <1>6
  <2>2. Place(m, gone, k) = Cardinality(B(k))
    BY DEF Place
  <2>. HIDE DEF B
  <2>. QED BY <1>3, <1>4, <2>1, <2>2
<1>. HIDE DEF B
<1>. QED BY <1>4, <1>5, <1>6

LEMMA PlaceTaken ==
  ASSUME NEW m \in Nat, NEW gone, NEW k \in 0 .. Cardinality(Keep(m, gone)) - 1
  PROVE  \E i \in Keep(m, gone) : Place(m, gone, i) = k
<1>. DEFINE K == Keep(m, gone)
            c == Cardinality(K)
            p == [i \in K |-> Place(m, gone, i)]
<1>1. IsFiniteSet(K) /\ c \in Nat
  BY KeepFinite
<1>2. p \in [K -> 0 .. c - 1]
  BY PlaceBelow
<1>3. \A i, j \in K : p[i] = p[j] => i = j
  <2>1. ASSUME NEW i \in K, NEW j \in K, p[i] = p[j] PROVE i = j
    <3>1. i \in Int /\ j \in Int
      BY DEF Keep
    <3>2. p[i] \in Int /\ p[j] \in Int
      BY <1>2
    <3>3. ~(i < j) /\ ~(j < i)
      BY <2>1, <3>2, PlaceBelow
    <3>. QED BY <3>1, <3>3
  <2>. QED BY <2>1
<1>. DEFINE R == {p[i] : i \in K}
<1>4. Cardinality(R) = c
  <2>. HIDE DEF K, p
  <2>1. p \in Bijection(K, R)
    <3>1. p \in [K -> R] /\ \A y \in R : \E i \in K : p[i] = y
      BY <1>2
    <3>. QED BY <1>3, <3>1 DEF Bijection, Injection, Surjection, IsInjective
  <2>. QED BY <1>1, <2>1, FS_Bijection DEF ExistsBijection
<1>5. IsFiniteSet(0 .. c - 1) /\ Cardinality(0 .. c - 1) = c
  BY <1>1, FS_Interval
<1>6. R \subseteq 0 .. c - 1
  BY <1>2
<1>7. R = 0 .. c - 1
  <2>. HIDE DEF R, c
  <2>. QED BY <1>4, <1>5, <1>6, FS_Subset
<1>. QED BY <1>7

IsArray(P, size) == P = [k \in 0 .. size - 1 |-> P[k]]

LEMMA PackedFacts ==
  ASSUME NEW f, NEW m \in Nat, NEW size \in Nat, m <= size, NEW gone
  PROVE  /\ IsArray(Packed(f, m, size, gone), size)
         /\ \A k \in 0 .. size - 1 : \E i \in 0 .. size - 1 : Packed(f, m, size, gone)[k] = f[i]
         /\ \A k \in 0 .. Cardinality(Keep(m, gone)) - 1 :
              \E i \in Keep(m, gone) : Place(m, gone, i) = k /\ Packed(f, m, size, gone)[k] = f[i]
         /\ \A i \in Keep(m, gone) : Packed(f, m, size, gone)[Place(m, gone, i)] = f[i]
<1>. DEFINE K == Keep(m, gone)
            c == Cardinality(K)
            at(k) == CHOOSE i \in K : Place(m, gone, i) = k
            P == [k \in 0 .. size - 1 |-> IF k < c THEN f[at(k)] ELSE IF k < m THEN f[m - 1] ELSE f[k]]
<1>1. Packed(f, m, size, gone) = P
  BY DEF Packed, Keep, Place
<1>2. c \in Nat /\ c <= m
  BY KeepFinite
<1>3. K \subseteq 0 .. m - 1
  BY DEF Keep
<1>4. \A k \in 0 .. c - 1 : at(k) \in K /\ Place(m, gone, at(k)) = k
  BY PlaceTaken
<1>5. \A i \in K : Place(m, gone, i) \in 0 .. c - 1 /\ at(Place(m, gone, i)) = i
  <2>1. ASSUME NEW i \in K, NEW j \in K, Place(m, gone, j) = Place(m, gone, i) PROVE j = i
    <3>1. i \in Int /\ j \in Int
      BY <1>3
    <3>2. Place(m, gone, i) \in Int
      BY PlaceBelow
    <3>3. ~(i < j) /\ ~(j < i)
      BY <2>1, <3>2, PlaceBelow
    <3>. QED BY <3>1, <3>3
  <2>2. ASSUME NEW i \in K PROVE Place(m, gone, i) \in 0 .. c - 1 /\ at(Place(m, gone, i)) = i
    <3>1. Place(m, gone, i) \in 0 .. c - 1
      BY PlaceBelow
    <3>2. at(Place(m, gone, i)) \in K /\ Place(m, gone, at(Place(m, gone, i))) = Place(m, gone, i)
      BY <1>4, <3>1
    <3>. QED BY <2>1, <3>1, <3>2
  <2>. QED BY <2>2
<1>. HIDE DEF c, at, K
<1>6. IsArray(P, size)
  BY DEF IsArray
<1>7. \A k \in 0 .. size - 1 : \E i \in 0 .. size - 1 : P[k] = f[i]
  <2>1. ASSUME NEW k \in 0 .. size - 1 PROVE \E i \in 0 .. size - 1 : P[k] = f[i]
    <3>1. CASE k < c
      <4>1. k \in 0 .. c - 1 /\ P[k] = f[at(k)]
        BY <1>2, <3>1
      <4>2. PICK i : i = at(k)
        OBVIOUS
      <4>3. i \in K
        BY <1>4, <4>1, <4>2, Zenon
      <4>4. i \in 0 .. size - 1
        BY <1>3, <4>3
      <4>. QED BY <4>1, <4>2, <4>4, Zenon
    <3>2. CASE ~(k < c) /\ k < m
      BY <3>2
    <3>3. CASE ~(k < c) /\ ~(k < m)
      BY <3>3
    <3>. QED BY <3>1, <3>2, <3>3
  <2>. QED BY <2>1
<1>8. \A k \in 0 .. c - 1 : \E i \in K : Place(m, gone, i) = k /\ P[k] = f[i]
  BY <1>2, <1>4
<1>9. \A i \in K : P[Place(m, gone, i)] = f[i]
  <2>1. ASSUME NEW i \in K PROVE P[Place(m, gone, i)] = f[i]
    <3>. DEFINE k == Place(m, gone, i)
    <3>1. k \in 0 .. c - 1 /\ at(k) = i
      BY <1>5
    <3>. HIDE DEF k
    <3>2. P[k] = f[at(k)]
      BY <1>2, <3>1
    <3>. QED BY <3>1, <3>2 DEF k
  <2>. QED BY <2>1
<1>. HIDE DEF P
<1>. QED BY <1>1, <1>6, <1>7, <1>8, <1>9 DEF c, K

\* A table as the requests leave it: every destination names a source, every
\* source has a destination, and no source is there twice.
Table(S, D, a, c, k) == [src |-> S, dst |-> D, srcN |-> a, dstN |-> c, known |-> k]
Dst(d) == d = [mode |-> d.mode, addr |-> d.addr, ep |-> d.ep, src |-> d.src]
Closed(S, D, a, c) ==
  /\ a \in 0 .. SrcSize /\ c \in 0 .. DstSize
  /\ S = [i \in 0 .. SrcSize - 1 |-> S[i]]
  /\ D = [i \in 0 .. DstSize - 1 |-> D[i]] /\ \A i \in 0 .. DstSize - 1 : Dst(D[i])
  /\ {D[d].src : d \in 0 .. c - 1} = 0 .. a - 1
  /\ \A i, j \in 0 .. a - 1 : S[i] = S[j] => i = j
TableOk(T) ==
  /\ T = Table(T.src, T.dst, T.srcN, T.dstN, T.known)
  /\ Closed(T.src, T.dst, T.srcN, T.dstN)

LEMMA TableIsOk ==
  ASSUME NEW S, NEW D, NEW a, NEW c, NEW k, Closed(S, D, a, c)
  PROVE  TableOk(Table(S, D, a, c, k))
<1>1. PICK T : T = Table(S, D, a, c, k)
  OBVIOUS
<1>2. T.src = S /\ T.dst = D /\ T.srcN = a /\ T.dstN = c /\ T.known = k
  BY <1>1 DEF Table
<1>. QED BY <1>1, <1>2 DEF TableOk

LEMMA TableSizes == SrcSize \in Nat \ {0} /\ DstSize \in Nat \ {0}
BY BindingAssumption

LEMMA FindSrcFacts ==
  ASSUME NEW T, TableOk(T), NEW s
  PROVE  \/ /\ FindSrcRef(T, s) = -1
            /\ \A i \in 0 .. T.srcN - 1 : T.src[i] # s
         \/ /\ FindSrcRef(T, s) \in LooksAt(T.srcN) /\ FindSrcRef(T, s) < SrcSize
            /\ FindSrcRef(T, s) \in Nat /\ T.src[FindSrcRef(T, s)] = s
<1>. DEFINE L == {l \in LooksAt(T.srcN) : l < SrcSize /\ T.src[l] = s}
<1>1. T.srcN \in 0 .. SrcSize /\ T.srcN \in Nat
  BY TableSizes DEF TableOk, Closed
<1>2. LooksAt(T.srcN) \subseteq Nat /\ 0 .. T.srcN - 1 \subseteq LooksAt(T.srcN)
  BY <1>1, LooksAtFacts
<1>3. FindSrcRef(T, s) = AtLeast(L, -1)
  BY DEF FindSrcRef
<1>4. CASE L = {}
  <2>1. FindSrcRef(T, s) = -1
    BY <1>3, <1>4, AtLeastFacts
  <2>2. ASSUME NEW i \in 0 .. T.srcN - 1 PROVE T.src[i] # s
    <3>1. i \in LooksAt(T.srcN) /\ i < SrcSize
      BY <1>1, <1>2, TableSizes
    <3>. QED BY <1>4, <3>1
  <2>. QED BY <2>1, <2>2
<1>5. CASE L # {}
  <2>1. L \in SUBSET Nat
    BY <1>2
  <2>2. FindSrcRef(T, s) \in L
    <3>. HIDE DEF L
    <3>. QED BY <1>3, <1>5, <2>1, AtLeastFacts
  <2>. QED BY <2>1, <2>2
<1>. QED BY <1>4, <1>5

\* zb_apsme_bind_request
LEMMA BindRequestOk ==
  ASSUME NEW T, TableOk(T), NEW r
  PROVE  TableOk(BindRequest(T, r).t)
<1>. DEFINE s0 == FindSrcRef(T, SrcOf(r))
            s == IF s0 = -1 THEN T.srcN ELSE s0
<1>1. PICK S, D, a, c, k : S = T.src /\ D = T.dst /\ a = T.srcN /\ c = T.dstN /\ k = T.known
  OBVIOUS
<1>2. T = Table(S, D, a, c, k) /\ Closed(S, D, a, c)
  BY <1>1 DEF TableOk
<1>3. \A x : TableOk([T EXCEPT !.known = x])
  <2>1. ASSUME NEW x PROVE TableOk([T EXCEPT !.known = x])
    <3>1. [T EXCEPT !.known = x] = Table(S, D, a, c, x)
      BY <1>2 DEF Table
    <3>. QED BY <1>2, <3>1, TableIsOk
  <2>. QED BY <2>1
<1>4. a \in 0 .. SrcSize /\ c \in 0 .. DstSize
  BY <1>2 DEF Closed
<1>5. \/ s = a /\ (a = 0 \/ \A i \in 0 .. a - 1 : S[i] # SrcOf(r))
      \/ s \in 0 .. a - 1
  <2>1. CASE s0 = -1
    BY <1>1, <1>4, <2>1, FindSrcFacts
  <2>2. CASE s0 # -1
    <3>1. s0 \in LooksAt(a) /\ s0 \in Nat
      BY <1>1, <2>2, FindSrcFacts
    <3>2. a \in Nat
      BY <1>4
    <3>. HIDE DEF s0
    <3>. QED BY <2>2, <3>1, <3>2, LooksAtFacts
  <2>. QED BY <2>1, <2>2
<1>. DEFINE full == s >= SrcSize \/ T.dstN >= DstSize
            new == SrcOf(r)
            t1 == [T EXCEPT !.known = @ \cup {r.src} \cup (IF r.mode = "long" THEN {r.dst} ELSE {})]
            e == [mode |-> r.mode, addr |-> r.dst, ep |-> IF r.mode = "long" THEN r.dstEp ELSE 0, src |-> s]
            u == [t1 EXCEPT !.src[s] = IF s = T.srcN THEN new ELSE @, !.srcN = IF s = T.srcN THEN @ + 1 ELSE @,
                            !.dst[T.dstN] = e, !.dstN = @ + 1]
<1>6. BindRequest(T, r).t = IF full \/ r.mode \notin BindModes THEN [T EXCEPT !.known = @ \cup {r.src}] ELSE u
  <2>1. BindRequest(T, r) = IF full THEN [t |-> [T EXCEPT !.known = @ \cup {r.src}], status |-> "table_full"]
                            ELSE IF r.mode \notin BindModes THEN [t |-> [T EXCEPT !.known = @ \cup {r.src}], status |-> "no_entry"]
                            ELSE [t |-> u, status |-> "ok"]
    BY DEF BindRequest
  <2>. HIDE DEF u, full
  <2>. QED BY <2>1
<1>7. ASSUME ~full PROVE TableOk(u)
  <2>. DEFINE S1 == [S EXCEPT ![s] = IF s = a THEN new ELSE @]
              D1 == [D EXCEPT ![c] = e]
              a1 == IF s = a THEN a + 1 ELSE a
              k1 == k \cup {r.src} \cup (IF r.mode = "long" THEN {r.dst} ELSE {})
  <2>0. PICK w : w = s
    OBVIOUS
  <2>1. u = Table(S1, D1, a1, c + 1, k1)
    <3>. HIDE DEF s, new, e
    <3>1. t1 = Table(S, D, a, c, k1)
      BY <1>2 DEF Table
    <3>2. PICK q : q = t1
      OBVIOUS
    <3>. HIDE DEF k1, t1
    <3>3. u = [q EXCEPT !.src[s] = IF s = a THEN new ELSE @, !.srcN = IF s = a THEN @ + 1 ELSE @, !.dst[c] = e, !.dstN = @ + 1]
      BY <1>1, <3>2, Zenon
    <3>4. q = [src |-> S, dst |-> D, srcN |-> a, dstN |-> c, known |-> k1]
      BY <3>1, <3>2 DEF Table
    <3>. HIDE DEF u
    <3>. QED BY <3>3, <3>4 DEF Table
  <2>2. s < SrcSize /\ c < DstSize /\ s \in 0 .. a
    <3>. HIDE DEF s
    <3>. QED BY <1>1, <1>4, <1>5, <1>7, TableSizes
  <2>. HIDE DEF u
  <2>3. /\ S = [i \in 0 .. SrcSize - 1 |-> S[i]] /\ D = [i \in 0 .. DstSize - 1 |-> D[i]]
        /\ \A i \in 0 .. DstSize - 1 : Dst(D[i])
        /\ {D[d].src : d \in 0 .. c - 1} = 0 .. a - 1
        /\ \A i, j \in 0 .. a - 1 : S[i] = S[j] => i = j
    BY <1>2 DEF Closed
  <2>4. Dst(e) /\ e.src = w
    BY <2>0 DEF Dst
  <2>. HIDE DEF e, s, new
  <2>5. D1 = [i \in 0 .. DstSize - 1 |-> IF i = c THEN e ELSE D[i]]
    BY <2>3
  <2>6. S1 = [i \in 0 .. SrcSize - 1 |-> IF i = w /\ w = a THEN new ELSE S[i]]
    BY <2>0, <2>3
  <2>. HIDE DEF D1, S1
  <2>7. D1 = [i \in 0 .. DstSize - 1 |-> D1[i]] /\ S1 = [i \in 0 .. SrcSize - 1 |-> S1[i]]
    BY <2>5, <2>6
  <2>8. \A i \in 0 .. DstSize - 1 : Dst(D1[i])
    BY <2>3, <2>4, <2>5
  <2>9. {D1[d].src : d \in 0 .. c} = (0 .. a - 1) \cup {w}
    <3>1. D1[c].src = w /\ \A d \in 0 .. c - 1 : D1[d].src = D[d].src
      BY <1>4, <2>2, <2>4, <2>5, TableSizes
    <3>2. {D1[d].src : d \in 0 .. c} = {D1[d].src : d \in 0 .. c - 1} \cup {D1[c].src}
      BY <1>4
    <3>3. {D1[d].src : d \in 0 .. c - 1} = {D[d].src : d \in 0 .. c - 1}
      BY <3>1
    <3>. QED BY <2>3, <3>1, <3>2, <3>3
  <2>10. (0 .. a - 1) \cup {w} = 0 .. a1 - 1 /\ a1 \in 0 .. SrcSize
    BY <1>4, <1>5, <2>0, <2>2, TableSizes
  <2>11. \A i, j \in 0 .. a1 - 1 : S1[i] = S1[j] => i = j
    <3>1. CASE w = a
      <4>1. S1[a] = new /\ \A i \in 0 .. a - 1 : S1[i] = S[i] /\ S[i] # new
        <5>1. \A i \in 0 .. a - 1 : S[i] # new
          BY <1>4, <1>5, <2>0, <3>1 DEF new
        <5>. QED BY <1>4, <2>0, <2>2, <2>6, <3>1, <5>1, TableSizes
      <4>2. 0 .. a1 - 1 = (0 .. a - 1) \cup {a}
        BY <2>0, <2>10, <3>1
      <4>. QED BY <2>3, <4>1, <4>2
    <3>2. CASE w # a
      <4>1. a1 = a /\ \A i \in 0 .. a - 1 : S1[i] = S[i]
        BY <1>4, <2>0, <2>6, <3>2, TableSizes
      <4>. QED BY <2>3, <4>1
    <3>. QED BY <3>1, <3>2
  <2>12. Closed(S1, D1, a1, c + 1)
    <3>1. c + 1 \in 0 .. DstSize /\ (c + 1) - 1 = c
      BY <1>4, <2>2, TableSizes
    <3>. HIDE DEF a1
    <3>. QED BY <2>7, <2>8, <2>9, <2>10, <2>11, <3>1 DEF Closed
  <2>. HIDE DEF a1, k1
  <2>. QED BY <2>1, <2>12, TableIsOk
<1>. HIDE DEF full, u
<1>. QED BY <1>3, <1>6, <1>7

LEMMA UpTo ==
  ASSUME NEW m \in Nat
  PROVE  IsFiniteSet(0 .. m - 1) /\ Cardinality(0 .. m - 1) = m
BY FS_Interval

LEMMA PackedOne ==
  ASSUME NEW f, NEW m \in Nat, NEW size \in Nat, m <= size, NEW s \in 0 .. m - 1, NEW i \in 0 .. m - 2
  PROVE  Packed(f, m, size, {s})[i] = f[IF i < s THEN i ELSE i + 1]
<1>. DEFINE k == IF i < s THEN i ELSE i + 1
<1>1. k \in Keep(m, {s}) /\ k \in Nat /\ k <= m
  BY DEF Keep
<1>2. Place(m, {s}, k) = i
  <2>. DEFINE B == {j \in Keep(m, {s}) : j < k}
  <2>1. IsFiniteSet(0 .. k - 1) /\ Cardinality(0 .. k - 1) = k
    <3>. HIDE DEF k
    <3>. QED BY <1>1, UpTo
  <2>2. CASE i < s
    <3>1. B = 0 .. k - 1
      BY <1>1, <2>2 DEF Keep
    <3>. QED BY <2>1, <2>2, <3>1 DEF Place
  <2>3. CASE ~(i < s)
    <3>1. B = (0 .. k - 1) \ {s} /\ s \in 0 .. k - 1
      BY <1>1, <2>3 DEF Keep
    <3>2. Cardinality(B) = k - 1
      <4>. HIDE DEF B, k
      <4>. QED BY <2>1, <3>1, FS_RemoveElement
    <3>. QED BY <2>3, <3>2 DEF Place
  <2>. QED BY <2>2, <2>3
<1>. HIDE DEF k
<1>3. Packed(f, m, size, {s})[Place(m, {s}, k)] = f[k]
  BY <1>1, PackedFacts
<1>. QED BY <1>2, <1>3 DEF k

LEMMA GoneFacts ==
  ASSUME NEW m \in Nat, NEW gone, gone \subseteq LooksAt(m), m - Cardinality(gone) >= 0
  PROVE  gone \subseteq 0 .. m - 1 /\ m - Cardinality(gone) = Cardinality(Keep(m, gone)) /\ Cardinality(Keep(m, gone)) \in 0 .. m
<1>0. LooksAt(m) = IF m = 0 THEN {0} ELSE 0 .. m - 1
  BY LooksAtFacts
<1>1. gone \subseteq 0 .. m - 1
  <2>1. CASE m = 0
    <3>1. gone = {} \/ gone = {0}
      BY <1>0, <2>1
    <3>2. Cardinality({0}) = 1
      BY FS_Singleton
    <3>3. gone # {0}
      BY <2>1, <3>2
    <3>. QED BY <3>1, <3>3
  <2>2. CASE m # 0
    BY <1>0, <2>2
  <2>. QED BY <2>1, <2>2
<1>2. IsFiniteSet(0 .. m - 1) /\ Cardinality(0 .. m - 1) = m
  BY UpTo
<1>3. IsFiniteSet(gone) /\ (0 .. m - 1) \cap gone = gone
  BY <1>1, <1>2, FS_Subset
<1>4. Cardinality(Keep(m, gone)) = Cardinality(0 .. m - 1) - Cardinality((0 .. m - 1) \cap gone)
  BY <1>2, <1>3, FS_Difference DEF Keep
<1>5. Cardinality(Keep(m, gone)) \in Nat /\ Cardinality(Keep(m, gone)) <= m
  BY KeepFinite
<1>6. Cardinality(Keep(m, gone)) = m - Cardinality(gone)
  BY <1>2, <1>3, <1>4
<1>. QED BY <1>1, <1>5, <1>6

Swapped(T, x, y) == [T EXCEPT !.dst = x, !.dstN = y]
Shrunk(T, x, y, z) == [T EXCEPT !.dst = x, !.dstN = y, !.src = z, !.srcN = @ - 1]

LEMMA TableFields ==
  ASSUME NEW S, NEW D, NEW a, NEW c, NEW k, NEW q, q = Table(S, D, a, c, k)
  PROVE  \A x, y, z :
           Swapped(q, x, y) = Table(S, x, a, y, k) /\ Shrunk(q, x, y, z) = Table(z, x, a - 1, y, k)
<1>1. TAKE x, y, z
<1>2. q = [src |-> S, dst |-> D, srcN |-> a, dstN |-> c, known |-> k]
  BY DEF Table
<1>3. PICK q1 : q1 = [q EXCEPT !.dst = x]
  OBVIOUS
<1>4. q1 = [src |-> S, dst |-> x, srcN |-> a, dstN |-> c, known |-> k]
  BY <1>2, <1>3
<1>5. PICK q2 : q2 = [q1 EXCEPT !.dstN = y]
  OBVIOUS
<1>6. q2 = [src |-> S, dst |-> x, srcN |-> a, dstN |-> y, known |-> k]
  BY <1>4, <1>5
<1>7. PICK q3 : q3 = [q2 EXCEPT !.src = z]
  OBVIOUS
<1>8. q3 = [src |-> z, dst |-> x, srcN |-> a, dstN |-> y, known |-> k]
  BY <1>6, <1>7
<1>9. PICK v : v = a - 1
  OBVIOUS
<1>10. [q3 EXCEPT !.srcN = v] = [src |-> z, dst |-> x, srcN |-> v, dstN |-> y, known |-> k]
  BY <1>8
<1>11. q.srcN = a
  BY <1>2
<1>12. Swapped(q, x, y) = Table(S, x, a, y, k)
  BY <1>3, <1>5, <1>6, Zenon DEF Table, Swapped
<1>13. Shrunk(q, x, y, z) = Table(z, x, a - 1, y, k)
  BY <1>3, <1>5, <1>7, <1>9, <1>10, <1>11, Zenon DEF Table, Shrunk
<1>. QED BY <1>12, <1>13, Zenon

\* zb_apsme_unbind_request, from where the source was found
LEMMA UnbindFoundOk ==
  ASSUME NEW T, TableOk(T), NEW r, NEW s \in LooksAt(T.srcN), s < SrcSize
  PROVE  UnbindFound(T, s, r) = Overrun \/ TableOk(UnbindFound(T, s, r))
<1>1. PICK S, D, a, c, k : S = T.src /\ D = T.dst /\ a = T.srcN /\ c = T.dstN /\ k = T.known
  OBVIOUS
<1>2. T = Table(S, D, a, c, k) /\ Closed(S, D, a, c)
  BY <1>1 DEF TableOk
<1>3. a \in 0 .. SrcSize /\ c \in 0 .. DstSize /\ a \in Nat /\ c \in Nat /\ SrcSize \in Nat /\ DstSize \in Nat /\ c <= DstSize /\ a <= SrcSize
  BY <1>2, TableSizes DEF Closed
<1>4. /\ S = [i \in 0 .. SrcSize - 1 |-> S[i]] /\ D = [i \in 0 .. DstSize - 1 |-> D[i]]
      /\ \A i \in 0 .. DstSize - 1 : Dst(D[i])
      /\ {D[d].src : d \in 0 .. c - 1} = 0 .. a - 1
      /\ \A i, j \in 0 .. a - 1 : S[i] = S[j] => i = j
  BY <1>2 DEF Closed
<1>. DEFINE gone == {d \in LooksAt(c) : Matches(D[d], s, r)}
            found == \E d \in LooksAt(c) \ gone : D[d].src = s
            m == c - Cardinality(gone)
            D1 == Packed(D, c, DstSize, gone)
            D2 == [d \in 0 .. DstSize - 1 |-> IF d \in LooksAt(m) /\ D1[d].src > s THEN [D1[d] EXCEPT !.src = @ - 1] ELSE D1[d]]
            S2 == Packed(S, a, SrcSize, {s})
<1>5. UnbindFound(T, s, r) = IF m < 0 \/ (~found /\ a = 0) THEN Overrun
                             ELSE IF found THEN Swapped(T, D1, m) ELSE Shrunk(T, D2, m, S2)
  BY <1>1 DEF UnbindFound, Swapped, Shrunk
<1>6. \A x, y, z : Swapped(T, x, y) = Table(S, x, a, y, k) /\ Shrunk(T, x, y, z) = Table(z, x, a - 1, y, k)
  BY <1>2, TableFields
<1>8. CASE m < 0 \/ (~found /\ a = 0)
  <2>. HIDE DEF m, found, D1, D2, S2
  <2>. QED BY <1>5, <1>8
<1>9. ASSUME ~(m < 0 \/ (~found /\ a = 0))
      PROVE  IF found THEN Closed(S, D1, a, m) ELSE Closed(S2, D2, a - 1, m)
  <2>1. gone \subseteq 0 .. c - 1 /\ m = Cardinality(Keep(c, gone)) /\ m \in 0 .. c
    <3>1. gone \subseteq LooksAt(c)
      OBVIOUS
    <3>2. Cardinality(gone) \in Nat
      <4>1. IsFiniteSet(LooksAt(c))
        <5>1. LooksAt(c) = IF c = 0 THEN {0} ELSE 0 .. c - 1
          BY <1>3, LooksAtFacts
        <5>2. IsFiniteSet({0}) /\ IsFiniteSet(0 .. c - 1)
          BY <1>3, FS_Singleton, UpTo
        <5>. QED BY <5>1, <5>2
      <4>. HIDE DEF gone
      <4>. QED BY <3>1, <4>1, FS_Subset, FS_CardinalityType
    <3>. HIDE DEF gone
    <3>3. m >= 0
      BY <1>3, <1>9, <3>2
    <3>. QED BY <1>3, <3>1, <3>3, GoneFacts
  <2>2. \A d \in gone : D[d].src = s
    BY DEF Matches
  <2>. DEFINE K == Keep(c, gone)
  <2>3. K = (0 .. c - 1) \ gone
    BY DEF Keep
  <2>4. /\ D1 = [j \in 0 .. DstSize - 1 |-> D1[j]]
        /\ \A j \in 0 .. DstSize - 1 : \E i \in 0 .. DstSize - 1 : D1[j] = D[i]
        /\ \A j \in 0 .. m - 1 : \E i \in K : D1[j] = D[i]
        /\ \A i \in K : Place(c, gone, i) \in 0 .. m - 1 /\ D1[Place(c, gone, i)] = D[i]
    <3>1. \A i \in K : Place(c, gone, i) \in 0 .. Cardinality(Keep(c, gone)) - 1
      BY <1>3, PlaceBelow
    <3>2. PICK g, P : g = gone /\ P = D1
      OBVIOUS
    <3>3. P = Packed(D, c, DstSize, g)
      BY <3>2
    <3>4. m = Cardinality(Keep(c, g)) /\ \A i \in Keep(c, g) : Place(c, g, i) \in 0 .. Cardinality(Keep(c, g)) - 1
      BY <2>1, <3>1, <3>2
    <3>. HIDE DEF gone, D1, m
    <3>5. /\ IsArray(P, DstSize)
          /\ \A j \in 0 .. DstSize - 1 : \E i \in 0 .. DstSize - 1 : P[j] = D[i]
          /\ \A j \in 0 .. Cardinality(Keep(c, g)) - 1 : \E i \in Keep(c, g) : Place(c, g, i) = j /\ P[j] = D[i]
          /\ \A i \in Keep(c, g) : P[Place(c, g, i)] = D[i]
      <4>1. c \in Nat /\ DstSize \in Nat /\ c <= DstSize
        BY <1>3
      <4>2. IsArray(P, DstSize)
        BY <3>3, <4>1, PackedFacts
      <4>3. \A j \in 0 .. DstSize - 1 : \E i \in 0 .. DstSize - 1 : P[j] = D[i]
        BY <3>3, <4>1, PackedFacts
      <4>4. \A j \in 0 .. Cardinality(Keep(c, g)) - 1 : \E i \in Keep(c, g) : Place(c, g, i) = j /\ P[j] = D[i]
        BY <3>3, <4>1, PackedFacts
      <4>5. \A i \in Keep(c, g) : P[Place(c, g, i)] = D[i]
        BY <3>3, <4>1, PackedFacts
      <4>. QED BY <4>2, <4>3, <4>4, <4>5
    <3>6. \A j \in 0 .. m - 1 : \E i \in Keep(c, g) : P[j] = D[i]
      BY <3>4, <3>5
    <3>7. P = [j \in 0 .. DstSize - 1 |-> P[j]]
      BY <3>5, Zenon DEF IsArray
    <3>. QED BY <3>2, <3>4, <3>5, <3>6, <3>7
  <2>5. \A j \in 0 .. DstSize - 1 : Dst(D1[j])
    BY <1>4, <2>4, Zenon
  <2>. DEFINE V == {D[i].src : i \in K}
  <2>6. {D1[j].src : j \in 0 .. m - 1} = V
    <3>1. ASSUME NEW j \in 0 .. m - 1 PROVE D1[j].src \in V
      <4>1. PICK i \in K : D1[j] = D[i]
        BY <2>4
      <4>. HIDE DEF K, D1
      <4>. QED BY <4>1
    <3>2. ASSUME NEW i \in K PROVE \E j \in 0 .. m - 1 : D1[j].src = D[i].src
      <4>1. Place(c, gone, i) \in 0 .. m - 1 /\ D1[Place(c, gone, i)] = D[i]
        BY <2>4
      <4>. HIDE DEF K, D1, m, gone
      <4>. QED BY <4>1
    <3>. HIDE DEF K, D1, m, gone
    <3>. QED BY <3>1, <3>2
  <2>7. V \subseteq 0 .. a - 1 /\ (0 .. a - 1) \ {s} \subseteq V
    <3>1. \A i \in K : i \in 0 .. c - 1
      BY <2>3
    <3>2. \A i \in 0 .. c - 1 : D[i].src # s => i \in K
      BY <2>2, <2>3
    <3>. HIDE DEF K, gone
    <3>. QED BY <1>4, <3>1, <3>2
  <2>8. found => c = 0 \/ s \in V
    <3>1. ASSUME NEW d \in LooksAt(c) \ gone, D[d].src = s, c # 0 PROVE s \in V
      <4>1. LooksAt(c) = 0 .. c - 1
        BY <1>3, <3>1, LooksAtFacts
      <4>2. d \in K
        BY <2>3, <3>1, <4>1
      <4>. HIDE DEF K
      <4>. QED BY <3>1, <4>2
    <3>. QED BY <3>1
  <2>9. c = 0 => a = 0 /\ m = 0
    BY <1>3, <1>4, <2>1
  <2>10. ~found => s \notin V
    <3>1. ASSUME NEW i \in K, D[i].src = s PROVE found
      <4>1. i \in LooksAt(c) \ gone
        BY <1>3, <2>3, <3>1, LooksAtFacts
      <4>. QED BY <3>1, <4>1
    <3>. QED BY <3>1
  <2>11. CASE found
    <3>1. V = 0 .. a - 1
      <4>1. CASE c = 0
        BY <1>3, <2>7, <2>9, <4>1
      <4>2. CASE c # 0
        <5>1. s \in V
          BY <2>8, <2>11, <4>2
        <5>. HIDE DEF V
        <5>. QED BY <2>7, <5>1
      <4>. QED BY <4>1, <4>2
    <3>2. m \in 0 .. DstSize
      BY <1>3, <2>1
    <3>. HIDE DEF D1, m, V, found
    <3>. QED BY <1>3, <1>4, <2>4, <2>5, <2>6, <2>11, <3>1, <3>2 DEF Closed
  <2>12. CASE ~found
    <3>1. a # 0 /\ s \in 0 .. a - 1
      <4>1. a # 0
        BY <1>9, <2>12
      <4>. QED BY <1>1, <1>3, <4>1, LooksAtFacts
    <3>2. V = (0 .. a - 1) \ {s}
      BY <2>7, <2>10, <2>12
    <3>3. D2 = [j \in 0 .. DstSize - 1 |-> D2[j]]
      <4>. HIDE DEF D1, m
      <4>. QED OBVIOUS
    <3>4. \A j \in 0 .. DstSize - 1 : Dst(D2[j])
      <4>1. ASSUME NEW j \in 0 .. DstSize - 1 PROVE Dst(D2[j])
        <5>1. PICK q : q = D1[j]
          OBVIOUS
        <5>2. Dst(q)
          BY <2>5, <5>1
        <5>3. PICK v : v = q.src - 1
          OBVIOUS
        <5>4. PICK p : p = [q EXCEPT !.src = v]
          OBVIOUS
        <5>5. p = [mode |-> q.mode, addr |-> q.addr, ep |-> q.ep, src |-> v]
          BY <5>2, <5>4 DEF Dst
        <5>6. Dst(p)
          BY <5>5 DEF Dst
        <5>7. D2[j] = p \/ D2[j] = q
          <6>. HIDE DEF D1, m
          <6>. QED BY <5>1, <5>3, <5>4
        <5>. QED BY <5>2, <5>6, <5>7
      <4>. QED BY <4>1
    <3>5. \A j \in 0 .. m - 1 : D1[j].src \in (0 .. a - 1) \ {s} /\ D2[j].src = IF D1[j].src > s THEN D1[j].src - 1 ELSE D1[j].src
      <4>1. ASSUME NEW j \in 0 .. m - 1
            PROVE  D1[j].src \in (0 .. a - 1) \ {s} /\ D2[j].src = IF D1[j].src > s THEN D1[j].src - 1 ELSE D1[j].src
        <5>1. D1[j].src \in V
          BY <2>6
        <5>2. j \in LooksAt(m) /\ j \in 0 .. DstSize - 1
          <6>1. m \in Nat /\ m # 0 /\ m <= DstSize
            BY <1>3, <2>1
          <6>. HIDE DEF m
          <6>. QED BY <1>3, <6>1, LooksAtFacts
        <5>3. PICK q : q = D1[j]
          OBVIOUS
        <5>4. Dst(q)
          BY <2>5, <5>2, <5>3
        <5>5. D2[j] = IF q.src > s THEN [q EXCEPT !.src = @ - 1] ELSE q
          <6>. HIDE DEF D1, m
          <6>. QED BY <5>2, <5>3
        <5>6. [q EXCEPT !.src = @ - 1].src = q.src - 1
          BY <5>4 DEF Dst
        <5>. HIDE DEF D1, D2, V
        <5>. QED BY <3>2, <5>1, <5>3, <5>5, <5>6
      <4>. QED BY <4>1
    <3>6. {D2[j].src : j \in 0 .. m - 1} = 0 .. (a - 1) - 1
      <4>1. ASSUME NEW v \in 0 .. (a - 1) - 1 PROVE \E j \in 0 .. m - 1 : D2[j].src = v
        <5>1. (IF v < s THEN v ELSE v + 1) \in V
          <6>. HIDE DEF V
          <6>. QED BY <1>3, <3>1, <3>2
        <5>2. PICK j \in 0 .. m - 1 : D1[j].src = IF v < s THEN v ELSE v + 1
          <6>. HIDE DEF D1, V, m
          <6>. QED BY <2>6, <5>1
        <5>3. D2[j].src = IF D1[j].src > s THEN D1[j].src - 1 ELSE D1[j].src
          BY <3>5
        <5>. HIDE DEF D1, D2
        <5>4. ASSUME v < s PROVE D2[j].src = v
          <6>1. D1[j].src = v
            BY <5>2, <5>4
          <6>. QED BY <3>1, <5>3, <5>4, <6>1
        <5>5. ASSUME ~(v < s) PROVE D2[j].src = v
          <6>1. D1[j].src = v + 1
            BY <5>2, <5>5
          <6>. QED BY <3>1, <5>3, <5>5, <6>1
        <5>. QED BY <5>4, <5>5
      <4>2. ASSUME NEW j \in 0 .. m - 1 PROVE D2[j].src \in 0 .. (a - 1) - 1
        <5>. HIDE DEF D1, D2, m
        <5>. QED BY <1>3, <3>1, <3>5
      <4>. HIDE DEF D2, m
      <4>. QED BY <4>1, <4>2
    <3>7. S2 = [j \in 0 .. SrcSize - 1 |-> S2[j]]
      <4>1. PICK P : P = Packed(S, a, SrcSize, {s})
        OBVIOUS
      <4>2. IsArray(P, SrcSize)
        BY <1>3, <4>1, PackedFacts
      <4>3. P = [j \in 0 .. SrcSize - 1 |-> P[j]]
        BY <4>2, Zenon DEF IsArray
      <4>. QED BY <4>1, <4>3
    <3>8. \A i \in 0 .. (a - 1) - 1 : S2[i] = S[IF i < s THEN i ELSE i + 1]
      <4>1. PICK P : P = Packed(S, a, SrcSize, {s})
        OBVIOUS
      <4>2. ASSUME NEW i \in 0 .. (a - 1) - 1 PROVE P[i] = S[IF i < s THEN i ELSE i + 1]
        <5>1. i \in 0 .. a - 2
          BY <1>3
        <5>. QED BY <1>3, <3>1, <4>1, <5>1, PackedOne
      <4>. QED BY <4>1, <4>2
    <3>9. \A i, j \in 0 .. (a - 1) - 1 : S2[i] = S2[j] => i = j
      <4>1. ASSUME NEW i \in 0 .. (a - 1) - 1, NEW j \in 0 .. (a - 1) - 1, S2[i] = S2[j] PROVE i = j
        <5>. DEFINE u(x) == IF x < s THEN x ELSE x + 1
        <5>1. S[u(i)] = S[u(j)]
          BY <3>8, <4>1
        <5>2. u(i) \in 0 .. a - 1 /\ u(j) \in 0 .. a - 1
          BY <1>3
        <5>3. u(i) = u(j)
          <6>. HIDE DEF u
          <6>. QED BY <1>4, <5>1, <5>2
        <5>. QED BY <3>1, <5>3
      <4>. QED BY <4>1
    <3>10. m \in 0 .. DstSize /\ a - 1 \in 0 .. SrcSize
      BY <1>3, <2>1, <3>1
    <3>11. Closed(S2, D2, a - 1, m)
      <4>. HIDE DEF S2, D2, m
      <4>. QED BY <3>3, <3>4, <3>6, <3>7, <3>9, <3>10 DEF Closed
    <3>. HIDE DEF found
    <3>. QED BY <2>12, <3>11
  <2>. QED BY <2>11, <2>12
<1>10. CASE ~(m < 0 \/ (~found /\ a = 0))
  <2>. HIDE DEF m, found, D1, D2, S2
  <2>1. CASE found
    <3>1. UnbindFound(T, s, r) = Table(S, D1, a, m, k)
      BY <1>5, <1>6, <1>10, <2>1
    <3>. QED BY <1>9, <1>10, <2>1, <3>1, TableIsOk
  <2>2. CASE ~found
    <3>1. UnbindFound(T, s, r) = Table(S2, D2, a - 1, m, k)
      BY <1>5, <1>6, <1>10, <2>2
    <3>. QED BY <1>9, <1>10, <2>2, <3>1, TableIsOk
  <2>. QED BY <2>1, <2>2
<1>. QED BY <1>8, <1>10

LEMMA UnbindRequestOk ==
  ASSUME NEW T, TableOk(T), NEW r
  PROVE  UnbindRequest(T, r).t = Overrun \/ TableOk(UnbindRequest(T, r).t)
<1>. DEFINE s == FindSrcRef(T, SrcOf(r))
            t1 == IF r.mode = "long" THEN [T EXCEPT !.known = @ \cup {r.dst}] ELSE T
<1>1. TableOk(t1) /\ t1.srcN = T.srcN
  <2>1. PICK S, D, a, c, k : S = T.src /\ D = T.dst /\ a = T.srcN /\ c = T.dstN /\ k = T.known
    OBVIOUS
  <2>2. T = Table(S, D, a, c, k) /\ Closed(S, D, a, c)
    BY <2>1 DEF TableOk
  <2>3. PICK x : x = k \cup {r.dst}
    OBVIOUS
  <2>4. [T EXCEPT !.known = @ \cup {r.dst}] = Table(S, D, a, c, x)
    BY <2>2, <2>3 DEF Table
  <2>5. TableOk(Table(S, D, a, c, x)) /\ Table(S, D, a, c, x).srcN = a
    BY <2>2, TableIsOk DEF Table
  <2>. QED BY <2>1, <2>4, <2>5
<1>2. UnbindRequest(T, r).t = IF r.src \notin T.known \/ s = -1 \/ r.mode \notin BindModes THEN T ELSE UnbindFound(t1, s, r)
  <2>1. UnbindRequest(T, r) = IF r.src \notin T.known THEN [t |-> T, status |-> "illegal"]
                              ELSE IF s = -1 \/ r.mode \notin BindModes THEN [t |-> T, status |-> "no_entry"]
                              ELSE [t |-> UnbindFound(t1, s, r), status |-> "ok"]
    BY DEF UnbindRequest
  <2>. HIDE DEF s, t1
  <2>. QED BY <2>1
<1>3. s # -1 => s \in LooksAt(T.srcN) /\ s < SrcSize
  BY FindSrcFacts
<1>. HIDE DEF s, t1
<1>4. s # -1 => UnbindFound(t1, s, r) = Overrun \/ TableOk(UnbindFound(t1, s, r))
  BY <1>1, <1>3, UnbindFoundOk
<1>. QED BY <1>2, <1>4

\* Only bind and unbind requests change the table.
LEMMA TableStep ==
  ASSUME TableOk(bt), [Next]_vars
  PROVE  TableOk(bt')
<1>1. CASE bt' = bt
  BY <1>1
<1>2. ASSUME NEW bind \in BOOLEAN, NEW r \in BindReqs, NEW t, ReceiveBindUnbind(bind, r, t) PROVE TableOk(bt')
  <2>1. PICK res : /\ res = IF bind THEN BindRequest(bt, r) ELSE UnbindRequest(bt, r)
                   /\ IF res.t = Overrun THEN bt' = bt ELSE bt' = res.t
    BY <1>2 DEF ReceiveBindUnbind
  <2>2. TableOk(BindRequest(bt, r).t)
    BY BindRequestOk
  <2>3. UnbindRequest(bt, r).t = Overrun \/ TableOk(UnbindRequest(bt, r).t)
    BY UnbindRequestOk
  <2>. QED BY <1>1, <2>1, <2>2, <2>3
<1>3. CASE Requested
  <2>1. bt' = bt
    BY <1>3 DEF Requested, AppRequest, AppServerDiscovery, AppChannelRequest, AppSendByBinding, AppLeaveLocal, AppAddGroup, tables
  <2>. QED BY <1>1, <2>1
<1>4. CASE Received
  <2>1. bt' = bt \/ \E t \in PeerTsn, bind \in BOOLEAN, r \in BindReqs : ReceiveBindUnbind(bind, r, t)
    BY <1>4 DEF Received, ReceiveDiscovery, ReceiveLeave, ReceiveUpdateScan, ReceiveUpdateOther, ReceiveNotify, ReceiveEdBind, tables
  <2>. QED BY <1>1, <1>2, <2>1
<1>5. CASE ReceivedOther
  <2>1. bt' = bt
    BY <1>5 DEF ReceivedOther, ReceiveAnnce, ReceivePermit, tables
  <2>. QED BY <1>1, <2>1
<1>6. CASE Works
  <2>1. bt' = bt
    BY <1>6 DEF Works, DataConfirm, NlmeLeaveRequest, NlmeLeaveConfirm, Rejoined, NlmePermitJoiningRequest, NlmePermitJoiningConfirm,
                EdScanConfirm, NwkUpdNotify, ChannelCheckScanResult, EdbCallback, ResumeData, FinishCallback, AppCallback, PeerShortAddrCb, tables
  <2>. QED BY <1>1, <2>1
<1>7. CASE Served
  <2>1. bt' = bt
    BY <1>7 DEF Served, GetPeerShortAddr, SendCheckBindUnbind, NwkDoLeaveLocal, StartEdScanLater, Answer, tables
  <2>. QED BY <1>1, <2>1
<1>8. CASE Timers
  <2>1. bt' = bt
    BY <1>8 DEF Timers, PermitTimeout, NewChannelCb, ChannelCheckTimerCb, LongTimerCb, EndDeviceBindTimer, TxFails, tables
  <2>. QED BY <1>1, <2>1
<1>9. CASE UNCHANGED vars
  BY <1>1, <1>9 DEF vars
<1>. QED BY <1>3, <1>4, <1>5, <1>6, <1>7, <1>8, <1>9 DEF Next

(***************************************************************************)
(* For every size of the binding table and every sequence of bind and      *)
(* unbind requests, duplicate and unknown ones, full tables and what is    *)
(* left behind in emptied ones included: every destination names a source, *)
(* every source has a destination, and no source is there twice            *)
(* (zb_apsme_bind_request, zb_apsme_unbind_request).                       *)
(***************************************************************************)
THEOREM BindingClosed == Spec => []BindSound
<1>1. Init => TableOk(bt)
  <2>1. ASSUME Init PROVE TableOk(bt)
    <3>. DEFINE S == [i \in 0 .. SrcSize - 1 |-> NoSrc]
                D == [i \in 0 .. DstSize - 1 |-> NoDst]
    <3>1. bt = Table(S, D, 0, 0, {})
      BY <2>1 DEF Init, EmptyTable, Table
    <3>2. Dst(NoDst)
      BY DEF Dst, NoDst
    <3>3. Closed(S, D, 0, 0)
      BY <3>2, TableSizes DEF Closed
    <3>. HIDE DEF S, D
    <3>. QED BY <3>1, <3>3, TableIsOk
  <2>. QED BY <2>1
<1>2. TableOk(bt) /\ [Next]_vars => TableOk(bt)'
  BY TableStep DEF TableOk, Closed
<1>3. TableOk(bt) => BindSound
  <2>1. ASSUME TableOk(bt) PROVE BindSound
    <3>1. bt.srcN <= SrcSize /\ bt.dstN <= DstSize
      BY <2>1, TableSizes DEF TableOk, Closed
    <3>. QED BY <2>1, <3>1, Zenon DEF TableOk, Closed, BindSound
  <2>. QED BY <2>1
<1>. QED BY <1>1, <1>2, <1>3, PTL DEF Spec
=============================================================================
