-------------------------- MODULE BroadcastProofs --------------------------
(***************************************************************************)
(* Proofs about Broadcast, for pools, tables, neighbors and frames of any  *)
(* number: every buffer in use has one holder, a broadcast is handed up    *)
(* once, and the information base ends with what was announced or set.     *)
(***************************************************************************)
EXTENDS Broadcast, FunctionTheorems, FiniteSetTheorems, SequenceTheorems, WellFoundedInduction, TLAPS

-----------------------------------------------------------------------------
\* The inductive invariant of the buffers.

Fns ==
  {"forward", "dataReq", "brTrans", "dataConf", "brConf", "statusInd", "nldeConf", "callStatus", "nldeInd", "frameInd",
   "dataInd", "newBuf", "sendUpdate", "sendStatus", "beaconInd", "setPanid", "startReq", "startConf", "getReq", "setReq",
   "getConf", "setConf"}

\* Functions called with a frame in the buffer, and those a buffer is asked for.
FrameFns == {"forward", "dataReq", "dataConf", "brConf", "nldeConf", "nldeInd", "frameInd", "dataInd"}
WaitFns == {"brTrans", "callStatus", "newBuf", "sendStatus", "setPanid"}

IsFrame(c) == c.kind \in Kinds
Content(c) == "kind" \in DOMAIN c /\ (IsFrame(c) => DOMAIN c = FrameFields)
Calls == [fn : Fns, p : Bufs \cup {0}]

\* The work: contents, calls with what they need, requests.
WorkTyped(w) ==
  /\ w = [buf |-> w.buf, cb |-> w.cb, wait |-> w.wait]
  /\ w.buf = [b \in Bufs |-> w.buf[b]] /\ \A b \in Bufs : Content(w.buf[b])
  /\ w.cb \in Seq(Calls)
  /\ w.wait \in [{"in", "out"} -> Seq(WaitFns)]
CallsMeant(w) ==
  \A i \in DOMAIN w.cb :
    /\ w.cb[i].p = 0 => w.cb[i].fn = "brTrans"
    /\ w.cb[i].fn \in FrameFns => w.cb[i].p \in Bufs /\ IsFrame(w.buf[w.cb[i].p])
WellMade(w) == WorkTyped(w) /\ CallsMeant(w)

\* How many holders of a buffer the queue leaves to be accounted for.
Calling(w, b) == {i \in DOMAIN w.cb : w.cb[i].p = b}
Want(w, b) == IF w.buf[b].kind \in {"free", "lost"} THEN 0 ELSE 1
Rest(w, b) == Want(w, b) - Cardinality(Calling(w, b))
InTable(b) == {i \in Used(brrt) : brrt[i].buf = b}
InWait(b) == {i \in DOMAIN wait_alloc : wait_alloc[i] = b}
InReports(b) == {i \in DOMAIN timer.reports : timer.reports[i].b = b}
InMac(b) == {i \in DOMAIN mac : mac[i] = b}
Outside(b) ==
  Cardinality(InTable(b)) + Cardinality(InWait(b)) + Cardinality(InReports(b)) + Cardinality(InMac(b))
Owned == \A b \in Bufs : Rest(work, b) = Outside(b)

\* Who holds a buffer outside the queue, but for the report alarm, holds a frame.
FramesHeld ==
  /\ \A i \in Used(brrt) : IsFrame(work.buf[brrt[i].buf])
  /\ \A i \in DOMAIN wait_alloc : IsFrame(work.buf[wait_alloc[i]])
  /\ \A i \in DOMAIN mac : IsFrame(work.buf[mac[i]])

\* The tables, timers and histories.
BtrFields == {"used", "src", "seq", "exp"}
BrrFields == {"used", "buf", "retries", "src", "seq", "dst", "it", "acks", "due"}
LogFields == {"own", "tx", "ind", "conf", "sent", "life", "started", "late", "dropped", "acked", "pan", "overtaken", "set"}
TablesTyped ==
  /\ btt = [i \in 1 .. BtrSize |-> btt[i]]
  /\ \A i \in 1 .. BtrSize : DOMAIN btt[i] = BtrFields /\ btt[i].used \in BOOLEAN /\ btt[i].exp \in 0 .. BtrSeconds
  /\ brrt = [i \in 1 .. BrrSize |-> brrt[i]]
  /\ \A i \in 1 .. BrrSize : DOMAIN brrt[i] = BrrFields /\ brrt[i].used \in BOOLEAN /\ brrt[i].due \in Nat
  /\ \A i \in Used(brrt) : brrt[i].buf \in Bufs
  /\ btt_cnt = Cardinality(Used(btt)) /\ brrt_cnt = Cardinality(Used(brrt))
  /\ wait_alloc \in Seq(Bufs) /\ Len(wait_alloc) <= WaitSize /\ mac \in Seq(Bufs)
TimersTyped ==
  timer \in [br : -1 .. Jitter, exp : -1 .. Second, pans : Seq(Nat), reports : Seq([b : Bufs, t : Nat])]
BaseTyped ==
  /\ mix \in Mixes /\ DOMAIN attr = Attrs
  /\ DOMAIN pc = {"conflict", "state", "new", "known"} /\ pc.state \in {"idle", "resolution"} /\ pc.conflict \in BOOLEAN
LogTyped ==
  /\ DOMAIN log = LogFields /\ log.own \in Nat
  /\ \A id \in DOMAIN log.life : log.life[id] \in 0 .. BtrSeconds * Second
  /\ \A f \in log.sent : DOMAIN f = FrameFields /\ IsFrame(f)
WorkInv == WellMade(work) /\ Owned /\ FramesHeld
BuffersInv == WorkInv /\ TablesTyped /\ TimersTyped /\ BaseTyped /\ LogTyped

-----------------------------------------------------------------------------
\* A broadcast is handed up once.

\* The calls that hand a frame up, or will.
Up == {"frameInd", "nldeInd"}
Loud == Up \cup {"dataInd"}
Says(w, fn, b) == \E i \in DOMAIN w.cb : w.cb[i].fn = fn /\ w.cb[i].p = b

\* A frame number stands for one source, sequence number and destination.
Alike(f, g) == f.id = g.id /\ f.src = g.src /\ f.seq = g.seq /\ f.dst = g.dst
Held(f) == \E b \in Bufs : work.buf[b] = f /\ IsFrame(f)
Known(f) == Held(f) \/ f \in log.sent \/ f \in mix.frames
Numbered ==
  /\ \A f : Known(f) => f.id \in Int /\ f.id # 0 /\ f.id <= log.own
  /\ \A f, g : Known(f) /\ Known(g) /\ f.id = g.id => Alike(f, g)

\* What was heard, sent or handed up has its time.
Lived ==
  /\ \A id \in DOMAIN log.life : id \in Int /\ id <= log.own
  /\ \A f : Held(f) /\ f.id < 0 => f.id \in DOMAIN log.life
  /\ \A f \in log.sent : f.id \in DOMAIN log.life
  /\ \A id \in DOMAIN log.ind : id < 0 => id \in DOMAIN log.life

\* A broadcast is about to be handed up, or was.
Waiting(b) == \E i \in DOMAIN wait_alloc : wait_alloc[i] = b
Rising(b) ==
  /\ b \in Bufs /\ IsFrame(work.buf[b]) /\ IsBroadcast(work.buf[b].dst)
  /\ Waiting(b) \/ \E fn \in Up : Says(work, fn, b)
Risen(id) == id \in DOMAIN log.ind \/ \E b : Rising(b) /\ work.buf[b].id = id
OnceOnly ==
  /\ \A b : Rising(b) /\ work.buf[b].id < 0 => work.buf[b].id \notin DOMAIN log.ind
  /\ \A b, c : Rising(b) /\ Rising(c) /\ work.buf[b].id = work.buf[c].id /\ work.buf[b].id < 0 => b = c
  /\ \A id \in DOMAIN log.ind : id \in Int /\ id # 0 /\ log.ind[id] \in Nat \ {0} /\ (id < 0 => log.ind[id] = 1)

\* A copy is heard only while the broadcast spreads; what was handed up, or is
\* ours, is remembered as long.
Alive(id) == id \in DOMAIN log.life /\ log.life[id] > 0
HeardAlive == \A b \in Bufs : Says(work, "dataInd", b) => Alive(work.buf[b].id)
Covers(t, x, src, seq, l) == \E i \in Find(t, src, seq) : l <= x + t[i].exp * Second
Covered(f) == Covers(btt, timer.exp, f.src, f.seq, log.life[f.id])
ForeignCovered == \A f : Known(f) /\ f.id < 0 /\ Risen(f.id) /\ Alive(f.id) => Covered(f)
OursCovered == \A f : Known(f) /\ f.id > 0 /\ f.id \notin log.late /\ Alive(f.id) => Covered(f)
OursLate == \A id \in Int : id > 0 /\ Risen(id) => id \in log.late
ExpiryRuns == Used(btt) # {} => timer.exp >= 0
OnceInv == Numbered /\ Lived /\ OnceOnly /\ HeardAlive /\ ForeignCovered /\ OursCovered /\ OursLate /\ ExpiryRuns

-----------------------------------------------------------------------------
\* The operators of the model.

LEMMA Consts ==
  /\ NIn \in Nat \ {0} /\ NOut \in Nat \ {0} /\ BtrSize \in Nat \ {0} /\ BrrSize \in Nat \ {0} /\ WaitSize \in Nat \ {0}
  /\ MaxRetries \in Nat \ {0} /\ Jitter \in Nat \ {0} /\ RetryInterval \in Nat \ {0} /\ Second \in Nat \ {0}
  /\ PanDelay \in Nat \ {0} /\ ReportDelay \in Nat \ {0} /\ BtrSeconds \in Nat
BY BroadcastAssumption

Below == {ss \in Nat \X Nat : ss[1] < ss[2]}

LEMMA BelowWellFounded == IsWellFoundedOn(Below, Nat)
BY NatLessThanWellFounded DEF OpToRel, Below

\* A set of natural numbers that is not empty has a least element.
LEMMA LeastElement ==
  ASSUME NEW S \in SUBSET Nat, S # {}
  PROVE  \E x \in S : \A y \in S : x <= y
<1>1. PICK x \in S : \A y \in S : ~(<<y, x>> \in Below)
  BY BelowWellFounded, WFMin
<1>2. \A y \in S : ~(y < x)
  BY <1>1 DEF Below
<1>. QED BY <1>2

LEMMA MinIn ==
  ASSUME NEW S \in SUBSET Nat, S # {}
  PROVE  Min(S) \in S /\ \A y \in S : Min(S) <= y
BY LeastElement DEF Min

\* The places of a sequence that hold something of a set, and their number when
\* the sequence grows or loses an entry.
Places(q, T) == {i \in DOMAIN q : q[i] \in T}

LEMMA PlacesFinite ==
  ASSUME NEW S, NEW q \in Seq(S), NEW T
  PROVE  IsFiniteSet(Places(q, T)) /\ Cardinality(Places(q, T)) \in Nat
<1>1. IsFiniteSet(1 .. Len(q))
  BY FS_Interval
<1>2. Places(q, T) \in SUBSET (1 .. Len(q))
  BY DEF Places
<1>. QED BY <1>1, <1>2, FS_Subset, FS_CardinalityType

LEMMA CountDrop ==
  ASSUME NEW S, NEW q \in Seq(S), NEW r \in Seq(S), NEW k \in 1 .. Len(q), NEW T,
         Len(r) = Len(q) - 1,
         \A i \in 1 .. Len(r) : r[i] = IF i < k THEN q[i] ELSE q[i + 1]
  PROVE  Cardinality(Places(r, T)) = Cardinality(Places(q, T)) - (IF q[k] \in T THEN 1 ELSE 0)
<1>. DEFINE A == Places(r, T)
            B == Places(q, T) \ {k}
            f == [i \in A |-> IF i < k THEN i ELSE i + 1]
<1>1. A \subseteq 1 .. Len(r) /\ B \subseteq 1 .. Len(q) /\ Len(q) \in Nat /\ Len(r) \in Nat
  BY DEF Places
<1>2. IsFiniteSet(A) /\ IsFiniteSet(Places(q, T)) /\ Cardinality(Places(q, T)) \in Nat
  BY PlacesFinite
<1>3. f \in [A -> B]
  <2>1. \A i \in A : (IF i < k THEN i ELSE i + 1) \in B
    BY <1>1 DEF Places
  <2>. QED BY <2>1
<1>4. \A i, j \in A : f[i] = f[j] => i = j
  BY <1>1
<1>5. \A j \in B : \E i \in A : f[i] = j
  <2>. TAKE j \in B
  <2>1. CASE j < k
    <3>1. j \in A /\ f[j] = j
      BY <2>1, <1>1 DEF Places
    <3>. QED BY <3>1
  <2>2. CASE j > k
    <3>1. j \in 1 .. Len(q) /\ q[j] \in T /\ j - 1 \in 1 .. Len(r)
      BY <2>2, <1>1 DEF Places
    <3>2. r[j - 1] = q[j]
      BY <3>1, <2>2, <1>1
    <3>3. j - 1 \in A
      BY <3>1, <3>2 DEF Places
    <3>. QED BY <3>3, <3>1, <2>2
  <2>. QED BY <2>1, <2>2, <1>1
<1>6. f \in Bijection(A, B)
  BY <1>3, <1>4, <1>5 DEF Bijection, Injection, Surjection, IsInjective
<1>7. Cardinality(B) = Cardinality(A)
  BY <1>2, <1>6, FS_Bijection DEF ExistsBijection
<1>8. Cardinality(B) = IF k \in Places(q, T) THEN Cardinality(Places(q, T)) - 1 ELSE Cardinality(Places(q, T))
  BY <1>2, FS_RemoveElement
<1>9. k \in Places(q, T) <=> q[k] \in T
  BY DEF Places
<1>. QED BY <1>2, <1>7, <1>8, <1>9

LEMMA CountAppend ==
  ASSUME NEW S, NEW q \in Seq(S), NEW e \in S, NEW T
  PROVE  Cardinality(Places(Append(q, e), T)) = Cardinality(Places(q, T)) + (IF e \in T THEN 1 ELSE 0)
<1>. DEFINE p == Append(q, e)
            k == Len(q) + 1
<1>1. p \in Seq(S) /\ Len(p) = k /\ k \in 1 .. Len(p) /\ Len(q) = Len(p) - 1 /\ p[k] = e
  OBVIOUS
<1>2. \A i \in 1 .. Len(q) : q[i] = IF i < k THEN p[i] ELSE p[i + 1]
  OBVIOUS
<1>. HIDE DEF p, k
<1>3. Cardinality(Places(q, T)) = Cardinality(Places(p, T)) - (IF p[k] \in T THEN 1 ELSE 0)
  BY <1>1, <1>2, CountDrop
<1>4. Cardinality(Places(p, T)) \in Nat /\ Cardinality(Places(q, T)) \in Nat
  BY <1>1, PlacesFinite
<1>5. Cardinality(Places(p, T)) = Cardinality(Places(q, T)) + (IF p[k] \in T THEN 1 ELSE 0)
  BY <1>3, <1>4
<1>. QED BY <1>5, <1>1 DEF p

LEMMA CountTail ==
  ASSUME NEW S, NEW q \in Seq(S), q # <<>>, NEW T
  PROVE  Cardinality(Places(Tail(q), T)) = Cardinality(Places(q, T)) - (IF Head(q) \in T THEN 1 ELSE 0)
<1>. DEFINE r == Tail(q)
            k == 1
<1>1. r \in Seq(S) /\ Len(r) = Len(q) - 1 /\ k \in 1 .. Len(q) /\ q[k] = Head(q)
  OBVIOUS
<1>2. \A i \in 1 .. Len(r) : r[i] = IF i < k THEN q[i] ELSE q[i + 1]
  OBVIOUS
<1>. HIDE DEF r, k
<1>3. Cardinality(Places(r, T)) = Cardinality(Places(q, T)) - (IF q[k] \in T THEN 1 ELSE 0)
  BY <1>1, <1>2, CountDrop
<1>. QED BY <1>3, <1>1 DEF r

LEMMA CountFront ==
  ASSUME NEW S, NEW q \in Seq(S), q # <<>>, NEW T
  PROVE  /\ SubSeq(q, 1, Len(q) - 1) \in Seq(S) /\ Len(SubSeq(q, 1, Len(q) - 1)) = Len(q) - 1
         /\ \A i \in 1 .. Len(q) - 1 : SubSeq(q, 1, Len(q) - 1)[i] = q[i]
         /\ Cardinality(Places(SubSeq(q, 1, Len(q) - 1), T)) =
              Cardinality(Places(q, T)) - (IF q[Len(q)] \in T THEN 1 ELSE 0)
<1>. DEFINE r == SubSeq(q, 1, Len(q) - 1)
            k == Len(q)
<1>1. r \in Seq(S) /\ Len(r) = Len(q) - 1 /\ k \in 1 .. Len(q) /\ \A i \in 1 .. Len(q) - 1 : r[i] = q[i]
  <2>1. Len(q) \in Nat /\ Len(q) >= 1
    OBVIOUS
  <2>2. \A i \in 1 .. Len(q) - 1 : q[i] \in S
    BY <2>1
  <2>3. 1 \in Int /\ Len(q) - 1 \in Int
    BY <2>1
  <2>4. r \in Seq(S) /\ \A i \in 1 .. Len(q) - 1 : r[i] = q[i]
    <3>1. r \in Seq(S) /\ \A i \in 1 .. Len(q) - 1 - 1 + 1 : r[i] = q[1 + i - 1]
      BY <2>2, <2>3, SubSeqProperties
    <3>. HIDE DEF r
    <3>2. \A i \in 1 .. Len(q) - 1 : 1 + i - 1 = i /\ i \in 1 .. Len(q) - 1 - 1 + 1
      BY <2>1
    <3>. QED BY <3>1, <3>2
  <2>7. Len(r) = Len(q) - 1
    <3>1. Len(r) = IF 1 <= Len(q) - 1 THEN Len(q) - 1 - 1 + 1 ELSE 0
      BY <2>2, <2>3, SubSeqProperties
    <3>. HIDE DEF r, k
    <3>2. \A m \in Nat : m >= 1 => (IF 1 <= m - 1 THEN m - 1 - 1 + 1 ELSE 0) = m - 1
      OBVIOUS
    <3>. QED BY <2>1, <3>1, <3>2
  <2>8. k \in 1 .. Len(q)
    BY <2>1 DEF k
  <2>. QED BY <2>4, <2>7, <2>8
<1>2. \A i \in 1 .. Len(r) : r[i] = IF i < k THEN q[i] ELSE q[i + 1]
  BY <1>1
<1>. HIDE DEF r, k
<1>3. Cardinality(Places(r, T)) = Cardinality(Places(q, T)) - (IF q[k] \in T THEN 1 ELSE 0)
  BY <1>1, <1>2, CountDrop
<1>. QED BY <1>3, <1>1 DEF r, k

LEMMA CountRemoved ==
  ASSUME NEW S, NEW q \in Seq(S), NEW k \in DOMAIN q, NEW T
  PROVE  /\ RemoveAt(q, k) \in Seq(S) /\ Len(RemoveAt(q, k)) = Len(q) - 1
         /\ \A i \in 1 .. Len(q) - 1 : RemoveAt(q, k)[i] = IF i < k THEN q[i] ELSE q[i + 1]
         /\ Cardinality(Places(RemoveAt(q, k), T)) = Cardinality(Places(q, T)) - (IF q[k] \in T THEN 1 ELSE 0)
<1>. DEFINE a == SubSeq(q, 1, k - 1)
            z == SubSeq(q, k + 1, Len(q))
            r == RemoveAt(q, k)
<1>t. k \in 1 .. Len(q) /\ Len(q) \in Nat
  OBVIOUS
<1>1. a \in Seq(S) /\ Len(a) = k - 1 /\ \A i \in 1 .. k - 1 : a[i] = q[i]
  <2>1. k - 1 \in 0 .. Len(q)
    BY <1>t
  <2>. QED BY <1>t, <2>1, SubSeqProperties
<1>2. z \in Seq(S) /\ Len(z) = Len(q) - k /\ \A i \in 1 .. Len(q) - k : z[i] = q[i + k]
  <2>1. k + 1 \in 1 .. Len(q) + 1
    BY <1>t
  <2>. QED BY <1>t, <2>1, SubSeqProperties
<1>3. r = a \o z
  BY DEF RemoveAt
<1>. HIDE DEF a, z, r
<1>4. r \in Seq(S) /\ Len(r) = Len(q) - 1
  BY <1>1, <1>2, <1>3, <1>t, ConcatProperties
<1>5. \A i \in 1 .. Len(r) : r[i] = IF i < k THEN q[i] ELSE q[i + 1]
  <2>. TAKE i \in 1 .. Len(r)
  <2>1. CASE i < k
    BY <2>1, <1>1, <1>2, <1>3, <1>4, <1>t, ConcatProperties
  <2>2. CASE i >= k
    <3>1. r[i] = z[i - Len(a)]
      <4>1. i \in 1 .. Len(a) + Len(z) /\ ~(i <= Len(a))
        BY <2>2, <1>1, <1>2, <1>4, <1>t
      <4>. QED BY <4>1, <1>1, <1>2, <1>3, ConcatProperties
    <3>2. i - Len(a) \in 1 .. Len(q) - k /\ i - Len(a) + k = i + 1
      BY <2>2, <1>1, <1>4, <1>t
    <3>3. z[i - Len(a)] = q[i - Len(a) + k]
      BY <3>2, <1>2
    <3>. QED BY <3>1, <3>2, <3>3, <2>2, <1>4, <1>t
  <2>. QED BY <2>1, <2>2, <1>t, <1>4
<1>6. Cardinality(Places(r, T)) = Cardinality(Places(q, T)) - (IF q[k] \in T THEN 1 ELSE 0)
  BY <1>t, <1>4, <1>5, CountDrop, SMTT(30)
<1>. QED BY <1>4, <1>5, <1>6 DEF r

-----------------------------------------------------------------------------
\* What the operations on the buffers and the queue do.

LEMMA BufsTyped == Bufs \subseteq Nat \ {0} /\ IsFiniteSet(Bufs)
<1>1. Bufs = 1 .. NIn + NOut /\ NIn + NOut \in Nat
  BY Consts DEF Bufs
<1>2. IsFiniteSet(1 .. NIn + NOut)
  BY <1>1, FS_Interval
<1>. QED BY <1>1, <1>2

LEMMA DirOf == \A b \in Bufs : Dir(b) \in {"in", "out"}
BY DEF Dir

LEMMA KindsApart ==
  /\ "free" \notin Kinds /\ "lost" \notin Kinds /\ "fresh" \notin Kinds
  /\ NoBuf.kind = "free" /\ Fresh.kind = "fresh" /\ Lost.kind = "lost"
  /\ Content(NoBuf) /\ Content(Fresh) /\ Content(Lost)
  /\ ~IsFrame(NoBuf) /\ ~IsFrame(Fresh) /\ ~IsFrame(Lost)
BY DEF Kinds, NoBuf, Fresh, Lost, Content, IsFrame

LEMMA CallingPlaces ==
  ASSUME NEW w, w.cb \in Seq(Calls), NEW b
  PROVE  /\ Calling(w, b) = Places(w.cb, [fn : Fns, p : {b}])
         /\ IsFiniteSet(Calling(w, b)) /\ Cardinality(Calling(w, b)) \in Nat
         /\ (Cardinality(Calling(w, b)) = 0 <=> Calling(w, b) = {})
<1>1. \A i \in DOMAIN w.cb : w.cb[i] \in Calls
  OBVIOUS
<1>2. \A i \in DOMAIN w.cb : w.cb[i].p = b <=> w.cb[i] \in [fn : Fns, p : {b}]
  BY <1>1 DEF Calls
<1>3. Calling(w, b) = Places(w.cb, [fn : Fns, p : {b}])
  BY <1>2 DEF Calling, Places
<1>4. IsFiniteSet(Calling(w, b)) /\ Cardinality(Calling(w, b)) \in Nat
  BY <1>3, PlacesFinite
<1>. QED BY <1>3, <1>4, FS_EmptySet

LEMMA WorkEdits ==
  ASSUME NEW B, NEW C, NEW T, NEW w, w = [buf |-> B, cb |-> C, wait |-> T], NEW b, NEW d, NEW c, NEW q
  PROVE  /\ [w EXCEPT !.cb = q] = [buf |-> B, cb |-> q, wait |-> T]
         /\ [w EXCEPT !.buf[b] = c] = [buf |-> [B EXCEPT ![b] = c], cb |-> C, wait |-> T]
         /\ [w EXCEPT !.wait[d] = q] = [buf |-> B, cb |-> C, wait |-> [T EXCEPT ![d] = q]]
OBVIOUS

LEMMA WorkParts ==
  ASSUME NEW B, NEW C, NEW T, NEW w, w = [buf |-> B, cb |-> C, wait |-> T]
  PROVE  w.buf = B /\ w.cb = C /\ w.wait = T
OBVIOUS

LEMMA CalledFacts ==
  ASSUME NEW w, WellMade(w), NEW fn \in Fns, NEW p \in Bufs \cup {0},
         p = 0 => fn = "brTrans", fn \in FrameFns => IsFrame(w.buf[p])
  PROVE  /\ WellMade(Called(w, fn, p))
         /\ Called(w, fn, p).buf = w.buf /\ Called(w, fn, p).wait = w.wait
         /\ Called(w, fn, p).cb = Append(w.cb, [fn |-> fn, p |-> p])
         /\ \A x \in Bufs : Rest(Called(w, fn, p), x) = IF x = p THEN Rest(w, x) - 1 ELSE Rest(w, x)
<1>. DEFINE v == Called(w, fn, p)
            c == [fn |-> fn, p |-> p]
<1>1. w = [buf |-> w.buf, cb |-> w.cb, wait |-> w.wait] /\ w.cb \in Seq(Calls)
  BY DEF WellMade, WorkTyped
<1>2. v = [buf |-> w.buf, cb |-> Append(w.cb, c), wait |-> w.wait]
  <2>1. v = [w EXCEPT !.cb = Append(w.cb, c)]
    BY DEF Called
  <2>. HIDE DEF v
  <2>. QED BY <1>1, <2>1, WorkEdits, Zenon
<1>3. v.buf = w.buf /\ v.wait = w.wait /\ v.cb = Append(w.cb, c)
  <2>. HIDE DEF v
  <2>. QED BY <1>2, WorkParts, Zenon
<1>4. c \in Calls /\ c.fn = fn /\ c.p = p
  BY DEF Calls
<1>. HIDE DEF v, c
<1>5. v.cb \in Seq(Calls)
  BY <1>1, <1>3, <1>4
<1>6. WorkTyped(v)
  BY <1>2, <1>3, <1>5 DEF WellMade, WorkTyped
<1>7. CallsMeant(v)
  <2>. SUFFICES ASSUME NEW i \in DOMAIN v.cb
                PROVE  /\ v.cb[i].p = 0 => v.cb[i].fn = "brTrans"
                       /\ v.cb[i].fn \in FrameFns => v.cb[i].p \in Bufs /\ IsFrame(v.buf[v.cb[i].p])
    BY DEF CallsMeant
  <2>1. CASE i \in DOMAIN w.cb
    <3>1. v.cb[i] = w.cb[i]
      BY <2>1, <1>1, <1>3
    <3>. QED BY <2>1, <3>1, <1>3 DEF WellMade, CallsMeant
  <2>2. CASE i \notin DOMAIN w.cb
    <3>1. v.cb[i] = c
      BY <2>2, <1>1, <1>3
    <3>2. fn \in FrameFns => p # 0
      BY DEF FrameFns
    <3>. QED BY <3>1, <3>2, <1>3, <1>4
  <2>. QED BY <2>1, <2>2
<1>8. ASSUME NEW x \in Bufs
      PROVE  Rest(v, x) = IF x = p THEN Rest(w, x) - 1 ELSE Rest(w, x)
  <2>1. /\ Calling(v, x) = Places(v.cb, [fn : Fns, p : {x}]) /\ Calling(w, x) = Places(w.cb, [fn : Fns, p : {x}])
        /\ Cardinality(Calling(w, x)) \in Nat /\ Cardinality(Calling(v, x)) \in Nat
    BY <1>1, <1>5, CallingPlaces
  <2>2. Cardinality(Calling(v, x)) = Cardinality(Calling(w, x)) + (IF c \in [fn : Fns, p : {x}] THEN 1 ELSE 0)
    <3>1. Cardinality(Places(Append(w.cb, c), [fn : Fns, p : {x}]))
            = Cardinality(Places(w.cb, [fn : Fns, p : {x}])) + (IF c \in [fn : Fns, p : {x}] THEN 1 ELSE 0)
      <4>1. \A T : Cardinality(Places(Append(w.cb, c), T)) = Cardinality(Places(w.cb, T)) + (IF c \in T THEN 1 ELSE 0)
        BY <1>1, <1>4, CountAppend
      <4>. QED BY <4>1
    <3>. QED BY <2>1, <3>1, <1>3
  <2>3. c \in [fn : Fns, p : {x}] <=> x = p
    BY <1>4 DEF c
  <2>4. Want(v, x) = Want(w, x) /\ Want(w, x) \in {0, 1}
    BY <1>3 DEF Want
  <2>. QED BY <2>1, <2>2, <2>3, <2>4 DEF Rest
<1>9. WellMade(v)
  BY <1>6, <1>7 DEF WellMade
<1>. QED BY <1>3, <1>8, <1>9 DEF v, c

LEMMA FilledFacts ==
  ASSUME NEW w, WellMade(w), NEW b \in Bufs, NEW c, Content(c),
         Calling(w, b) = {} \/ (IsFrame(w.buf[b]) => IsFrame(c))
  PROVE  /\ WellMade(Filled(w, b, c))
         /\ Filled(w, b, c).buf[b] = c /\ \A x \in Bufs : x # b => Filled(w, b, c).buf[x] = w.buf[x]
         /\ Filled(w, b, c).cb = w.cb /\ Filled(w, b, c).wait = w.wait
         /\ \A x \in Bufs : Calling(Filled(w, b, c), x) = Calling(w, x)
         /\ \A x \in Bufs : Rest(Filled(w, b, c), x) =
              IF x = b THEN (IF c.kind \in {"free", "lost"} THEN 0 ELSE 1) - Cardinality(Calling(w, x)) ELSE Rest(w, x)
<1>. DEFINE v == Filled(w, b, c)
<1>1. /\ w = [buf |-> w.buf, cb |-> w.cb, wait |-> w.wait] /\ w.buf = [x \in Bufs |-> w.buf[x]]
      /\ \A x \in Bufs : Content(w.buf[x])
  BY DEF WellMade, WorkTyped
<1>2. v = [buf |-> [w.buf EXCEPT ![b] = c], cb |-> w.cb, wait |-> w.wait]
  <2>1. v = [w EXCEPT !.buf[b] = c]
    BY DEF Filled
  <2>. HIDE DEF v
  <2>. QED BY <1>1, <2>1, WorkEdits, Zenon
<1>3. v.buf = [w.buf EXCEPT ![b] = c] /\ v.cb = w.cb /\ v.wait = w.wait
  <2>. HIDE DEF v
  <2>. QED BY <1>2, WorkParts, Zenon
<1>4. v.buf[b] = c /\ (\A x \in Bufs : x # b => v.buf[x] = w.buf[x]) /\ v.buf = [x \in Bufs |-> v.buf[x]]
  <2>1. \A g, h : g = [x \in Bufs |-> g[x]] /\ h = [g EXCEPT ![b] = c] =>
          h[b] = c /\ (\A x \in Bufs : x # b => h[x] = g[x]) /\ h = [x \in Bufs |-> h[x]]
    OBVIOUS
  <2>. HIDE DEF v
  <2>. QED BY <2>1, <1>1, <1>3, Zenon
<1>. HIDE DEF v
<1>5. WorkTyped(v)
  BY <1>1, <1>2, <1>3, <1>4 DEF WellMade, WorkTyped
<1>6. \A x \in Bufs : Calling(v, x) = Calling(w, x)
  BY <1>3 DEF Calling
<1>7. CallsMeant(v)
  <2>. SUFFICES ASSUME NEW i \in DOMAIN v.cb
                PROVE  /\ v.cb[i].p = 0 => v.cb[i].fn = "brTrans"
                       /\ v.cb[i].fn \in FrameFns => v.cb[i].p \in Bufs /\ IsFrame(v.buf[v.cb[i].p])
    BY DEF CallsMeant
  <2>1. /\ w.cb[i].p = 0 => w.cb[i].fn = "brTrans"
        /\ w.cb[i].fn \in FrameFns => w.cb[i].p \in Bufs /\ IsFrame(w.buf[w.cb[i].p])
    BY <1>3 DEF WellMade, CallsMeant
  <2>2. w.cb[i].p = b => i \in Calling(w, b)
    BY <1>3 DEF Calling
  <2>. QED BY <2>1, <2>2, <1>3, <1>4
<1>8. ASSUME NEW x \in Bufs
      PROVE  Rest(v, x) =
               IF x = b THEN (IF c.kind \in {"free", "lost"} THEN 0 ELSE 1) - Cardinality(Calling(w, x)) ELSE Rest(w, x)
  BY <1>4, <1>6 DEF Rest, Want
<1>9. WellMade(v)
  BY <1>5, <1>7 DEF WellMade
<1>. QED BY <1>3, <1>4, <1>6, <1>8, <1>9 DEF v

\* A request is taken off the list of those that wait, or put on it.
Waited(w, d, q) == [w EXCEPT !.wait[d] = q]

LEMMA WaitsFacts ==
  ASSUME NEW w, WellMade(w), NEW d \in {"in", "out"}, NEW q \in Seq(WaitFns)
  PROVE  /\ WellMade(Waited(w, d, q)) /\ Waited(w, d, q).buf = w.buf /\ Waited(w, d, q).cb = w.cb
         /\ Waited(w, d, q).wait[d] = q /\ \A e \in {"in", "out"} : e # d => Waited(w, d, q).wait[e] = w.wait[e]
         /\ \A x \in Bufs : Rest(Waited(w, d, q), x) = Rest(w, x)
         /\ \A x \in Bufs : Calling(Waited(w, d, q), x) = Calling(w, x)
<1>. DEFINE v == Waited(w, d, q)
<1>v. v = [w EXCEPT !.wait[d] = q]
  BY DEF Waited
<1>. HIDE DEF v
<1>1. w = [buf |-> w.buf, cb |-> w.cb, wait |-> w.wait] /\ w.wait \in [{"in", "out"} -> Seq(WaitFns)]
  BY DEF WellMade, WorkTyped
<1>2. v = [buf |-> w.buf, cb |-> w.cb, wait |-> [w.wait EXCEPT ![d] = q]]
  BY <1>v, <1>1, WorkEdits, Zenon
<1>3. v.buf = w.buf /\ v.cb = w.cb /\ v.wait = [w.wait EXCEPT ![d] = q]
  BY <1>2, WorkParts, Zenon
<1>4. v.wait \in [{"in", "out"} -> Seq(WaitFns)] /\ v.wait[d] = q /\ \A e \in {"in", "out"} : e # d => v.wait[e] = w.wait[e]
  <2>. DEFINE g == w.wait
  <2>1. g \in [{"in", "out"} -> Seq(WaitFns)] /\ v.wait = [g EXCEPT ![d] = q]
    BY <1>1, <1>3
  <2>. HIDE DEF g
  <2>2. v.wait \in [{"in", "out"} -> Seq(WaitFns)] /\ v.wait[d] = q /\ \A e \in {"in", "out"} : e # d => v.wait[e] = g[e]
    BY <2>1
  <2>. QED BY <2>2 DEF g
<1>5. v = [buf |-> v.buf, cb |-> v.cb, wait |-> v.wait]
  BY <1>2, <1>3
<1>6. WellMade(v)
  BY <1>3, <1>4, <1>5 DEF WellMade, WorkTyped, CallsMeant
<1>7. \A x \in Bufs : Rest(v, x) = Rest(w, x) /\ Calling(v, x) = Calling(w, x)
  BY <1>3 DEF Rest, Want, Calling
<1>. QED BY <1>3, <1>4, <1>6, <1>7 DEF v

\* A buffer is given back: to whoever waits for one of its half, if anybody does.
LEMMA FreedFacts ==
  ASSUME NEW w, WellMade(w), NEW b \in Bufs, Calling(w, b) = {}
  PROVE  /\ WellMade(Freed(w, b))
         /\ \A x \in Bufs : Rest(Freed(w, b), x) = IF x = b THEN 0 ELSE Rest(w, x)
         /\ Freed(w, b).buf[b] \in {NoBuf, Fresh}
         /\ \A x \in Bufs : x # b => Freed(w, b).buf[x] = w.buf[x]
<1>. DEFINE d == Dir(b)
            q == w.wait[d]
<1>1. d \in {"in", "out"} /\ q \in Seq(WaitFns)
  BY DirOf DEF WellMade, WorkTyped
<1>2. Cardinality(Calling(w, b)) = 0
  BY FS_EmptySet
<1>3. CASE q = <<>>
  <2>1. Freed(w, b) = Filled(w, b, NoBuf)
    BY <1>3 DEF Freed, Filled
  <2>2. /\ WellMade(Filled(w, b, NoBuf))
        /\ Filled(w, b, NoBuf).buf[b] = NoBuf /\ \A x \in Bufs : x # b => Filled(w, b, NoBuf).buf[x] = w.buf[x]
        /\ \A x \in Bufs : Rest(Filled(w, b, NoBuf), x) =
             IF x = b THEN (IF NoBuf.kind \in {"free", "lost"} THEN 0 ELSE 1) - Cardinality(Calling(w, x)) ELSE Rest(w, x)
    BY KindsApart, FilledFacts
  <2>. QED BY <2>1, <2>2, <1>2, KindsApart
<1>4. CASE q # <<>>
  <2>. DEFINE u == Filled(w, b, Fresh)
              v == Waited(u, d, Tail(q))
              fn == Head(q)
  <2>1. /\ WellMade(u) /\ u.wait = w.wait /\ u.cb = w.cb
        /\ u.buf[b] = Fresh /\ \A x \in Bufs : x # b => u.buf[x] = w.buf[x]
        /\ \A x \in Bufs : Rest(u, x) = IF x = b THEN 1 ELSE Rest(w, x)
    <3>1. /\ WellMade(u) /\ u.wait = w.wait /\ u.cb = w.cb
          /\ u.buf[b] = Fresh /\ \A x \in Bufs : x # b => u.buf[x] = w.buf[x]
          /\ \A x \in Bufs : Rest(u, x) =
               IF x = b THEN (IF Fresh.kind \in {"free", "lost"} THEN 0 ELSE 1) - Cardinality(Calling(w, x)) ELSE Rest(w, x)
      BY KindsApart, FilledFacts
    <3>. QED BY <3>1, <1>2, KindsApart
  <2>2. fn \in WaitFns /\ Tail(q) \in Seq(WaitFns) /\ fn \in Fns /\ fn \notin FrameFns
    <3>1. fn \in WaitFns /\ Tail(q) \in Seq(WaitFns)
      BY <1>1, <1>4
    <3>. QED BY <3>1 DEF WaitFns, Fns, FrameFns
  <2>3. Freed(w, b) = Called([w EXCEPT !.buf[b] = Fresh, !.wait[d] = Tail(q)], fn, b)
    BY <1>4 DEF Freed
  <2>4. [w EXCEPT !.buf[b] = Fresh, !.wait[d] = Tail(q)] = v
    BY DEF Filled, Waited
  <2>. HIDE DEF d, q, fn, u, v
  <2>5. /\ WellMade(v) /\ v.buf = u.buf /\ \A x \in Bufs : Rest(v, x) = Rest(u, x)
    <3>1. d \in {"in", "out"} /\ Tail(q) \in Seq(WaitFns) /\ WellMade(u)
      BY <1>1, <2>1, <2>2 DEF d
    <3>2. /\ WellMade(Waited(u, d, Tail(q))) /\ Waited(u, d, Tail(q)).buf = u.buf
          /\ \A x \in Bufs : Rest(Waited(u, d, Tail(q)), x) = Rest(u, x)
      BY <3>1, WaitsFacts, ZenonT(40)
    <3>. QED BY <3>2 DEF v
  <2>6. b # 0 /\ b \in Bufs \cup {0}
    BY BufsTyped
  <2>7. /\ WellMade(Called(v, fn, b)) /\ Called(v, fn, b).buf = v.buf
        /\ \A x \in Bufs : Rest(Called(v, fn, b), x) = IF x = b THEN Rest(v, x) - 1 ELSE Rest(v, x)
    BY <2>2, <2>5, <2>6, CalledFacts
  <2>. QED BY <2>1, <2>3, <2>4, <2>5, <2>7
<1>. QED BY <1>3, <1>4

\* A buffer is asked for: a free one is called with, or the request waits.
LEMMA AskedFacts ==
  ASSUME NEW w, WellMade(w), NEW d \in {"in", "out"}, NEW fn \in WaitFns
  PROVE  /\ WellMade(Asked(w, d, fn))
         /\ \A x \in Bufs : Rest(Asked(w, d, fn), x) = Rest(w, x)
         /\ \A x \in Bufs : w.buf[x] # NoBuf => Asked(w, d, fn).buf[x] = w.buf[x]
         /\ \A x \in Bufs : Asked(w, d, fn).buf[x] # w.buf[x] => Asked(w, d, fn).buf[x] = Fresh
<1>0. w.wait[d] \in Seq(WaitFns) /\ fn \in Fns /\ fn \notin FrameFns
  BY DEF WellMade, WorkTyped, WaitFns, Fns, FrameFns
<1>1. CASE FreeOf(w, d) = {}
  <2>. DEFINE v == Waited(w, d, Append(w.wait[d], fn))
  <2>1. Asked(w, d, fn) = v
    BY <1>1 DEF Asked, Waited
  <2>2. Append(w.wait[d], fn) \in Seq(WaitFns)
    BY <1>0
  <2>3. WellMade(v) /\ v.buf = w.buf /\ \A x \in Bufs : Rest(v, x) = Rest(w, x)
    BY <2>2, WaitsFacts
  <2>. QED BY <2>1, <2>3
<1>2. CASE FreeOf(w, d) # {}
  <2>. DEFINE b == Min(FreeOf(w, d))
              u == Filled(w, b, Fresh)
  <2>1. b \in Bufs /\ w.buf[b] = NoBuf
    <3>1. FreeOf(w, d) \in SUBSET Nat
      BY BufsTyped DEF FreeOf, Of
    <3>2. b \in FreeOf(w, d)
      BY <3>1, <1>2, MinIn
    <3>. QED BY <3>2 DEF FreeOf, Of
  <2>2. Asked(w, d, fn) = Called(u, fn, b)
    BY <1>2 DEF Asked, Filled
  <2>. HIDE DEF b, u
  <2>3. /\ WellMade(u) /\ u.buf[b] = Fresh /\ (\A x \in Bufs : x # b => u.buf[x] = w.buf[x])
        /\ \A x \in Bufs : Rest(u, x) = IF x = b THEN 1 - Cardinality(Calling(w, x)) ELSE Rest(w, x)
    BY <2>1, KindsApart, FilledFacts DEF u
  <2>4. b # 0 /\ b \in Bufs \cup {0}
    BY <2>1, BufsTyped
  <2>5. /\ WellMade(Called(u, fn, b)) /\ Called(u, fn, b).buf = u.buf
        /\ \A x \in Bufs : Rest(Called(u, fn, b), x) = IF x = b THEN Rest(u, x) - 1 ELSE Rest(u, x)
    BY <1>0, <2>3, <2>4, CalledFacts
  <2>6. Rest(w, b) = 0 - Cardinality(Calling(w, b)) /\ Cardinality(Calling(w, b)) \in Nat
    <3>1. Want(w, b) = 0
      BY <2>1, KindsApart DEF Want
    <3>2. w.cb \in Seq(Calls)
      BY DEF WellMade, WorkTyped
    <3>. QED BY <3>1, <3>2, CallingPlaces DEF Rest
  <2>7. \A x \in Bufs : Rest(Called(u, fn, b), x) = Rest(w, x)
    BY <2>1, <2>3, <2>5, <2>6
  <2>. QED BY <2>1, <2>2, <2>3, <2>5, <2>7
<1>. QED BY <1>1, <1>2

-----------------------------------------------------------------------------
\* The holders outside the queue.

LEMMA TablesFinite ==
  ASSUME TablesTyped
  PROVE  /\ DOMAIN btt = 1 .. BtrSize /\ DOMAIN brrt = 1 .. BrrSize
         /\ IsFiniteSet(Used(btt)) /\ IsFiniteSet(Used(brrt)) /\ btt_cnt \in Nat /\ brrt_cnt \in Nat
         /\ Used(btt) \subseteq 1 .. BtrSize /\ Used(brrt) \subseteq 1 .. BrrSize
<1>1. DOMAIN btt = 1 .. BtrSize /\ DOMAIN brrt = 1 .. BrrSize
  <2>1. \A t, S : t = [i \in S |-> t[i]] => DOMAIN t = S
    OBVIOUS
  <2>. QED BY <2>1, Zenon DEF TablesTyped
<1>2. Used(btt) \subseteq 1 .. BtrSize /\ Used(brrt) \subseteq 1 .. BrrSize
  BY <1>1 DEF Used
<1>3. IsFiniteSet(1 .. BtrSize) /\ IsFiniteSet(1 .. BrrSize)
  BY Consts, FS_Interval
<1>4. IsFiniteSet(Used(btt)) /\ IsFiniteSet(Used(brrt))
  BY <1>2, <1>3, FS_Subset
<1>5. btt_cnt \in Nat /\ brrt_cnt \in Nat
  BY <1>4, FS_CardinalityType DEF TablesTyped
<1>. QED BY <1>1, <1>2, <1>4, <1>5

LEMMA SeqElements ==
  ASSUME NEW S, NEW q \in Seq(S)
  PROVE  \A i \in DOMAIN q : q[i] \in S
OBVIOUS

LEMMA ReportsTyped ==
  ASSUME TimersTyped
  PROVE  timer.reports \in Seq([b : Bufs, t : Nat]) /\ timer.pans \in Seq(Nat)
         /\ timer.br \in -1 .. Jitter /\ timer.exp \in -1 .. Second
BY DEF TimersTyped

LEMMA HoldersCounted ==
  ASSUME TablesTyped, TimersTyped, NEW b \in Bufs
  PROVE  /\ InWait(b) = Places(wait_alloc, {b}) /\ InMac(b) = Places(mac, {b})
         /\ InReports(b) = Places(timer.reports, [b : {b}, t : Nat])
         /\ IsFiniteSet(InTable(b)) /\ IsFiniteSet(InWait(b)) /\ IsFiniteSet(InReports(b)) /\ IsFiniteSet(InMac(b))
         /\ Cardinality(InTable(b)) \in Nat /\ Cardinality(InWait(b)) \in Nat
         /\ Cardinality(InReports(b)) \in Nat /\ Cardinality(InMac(b)) \in Nat
         /\ Outside(b) \in Nat
<1>1. IsFiniteSet(InTable(b))
  <2>1. InTable(b) \subseteq Used(brrt)
    BY DEF InTable
  <2>. QED BY <2>1, TablesFinite, FS_Subset
<1>2. InWait(b) = Places(wait_alloc, {b}) /\ InMac(b) = Places(mac, {b})
  BY DEF InWait, InMac, Places
<1>3. InReports(b) = Places(timer.reports, [b : {b}, t : Nat])
  <2>1. \A i \in DOMAIN timer.reports : timer.reports[i] \in [b : Bufs, t : Nat]
    BY ReportsTyped, SeqElements, Zenon
  <2>2. \A r \in [b : Bufs, t : Nat] : r.b = b <=> r \in [b : {b}, t : Nat]
    OBVIOUS
  <2>. QED BY <2>1, <2>2, Zenon DEF InReports, Places
<1>4. /\ IsFiniteSet(Places(wait_alloc, {b})) /\ IsFiniteSet(Places(mac, {b}))
      /\ IsFiniteSet(Places(timer.reports, [b : {b}, t : Nat]))
  <2>1. IsFiniteSet(Places(wait_alloc, {b})) /\ IsFiniteSet(Places(mac, {b}))
    BY PlacesFinite DEF TablesTyped
  <2>. QED BY <2>1, PlacesFinite, ReportsTyped
<1>5. IsFiniteSet(InWait(b)) /\ IsFiniteSet(InReports(b)) /\ IsFiniteSet(InMac(b))
  BY <1>2, <1>3, <1>4, Zenon
<1>6. /\ Cardinality(InTable(b)) \in Nat /\ Cardinality(InWait(b)) \in Nat
      /\ Cardinality(InReports(b)) \in Nat /\ Cardinality(InMac(b)) \in Nat
  BY <1>1, <1>5, FS_CardinalityType
<1>7. Outside(b) \in Nat
  BY <1>6 DEF Outside
<1>. QED BY <1>1, <1>2, <1>3, <1>5, <1>6, <1>7

LEMMA NotOutside ==
  ASSUME TablesTyped, TimersTyped, NEW b \in Bufs, Outside(b) = 0
  PROVE  InTable(b) = {} /\ InWait(b) = {} /\ InReports(b) = {} /\ InMac(b) = {}
<1>1. /\ Cardinality(InTable(b)) = 0 /\ Cardinality(InWait(b)) = 0
      /\ Cardinality(InReports(b)) = 0 /\ Cardinality(InMac(b)) = 0
  <2>1. /\ Cardinality(InTable(b)) \in Nat /\ Cardinality(InWait(b)) \in Nat
        /\ Cardinality(InReports(b)) \in Nat /\ Cardinality(InMac(b)) \in Nat
    BY HoldersCounted
  <2>2. \A p, q, r, s \in Nat : p + q + r + s = 0 => p = 0 /\ q = 0 /\ r = 0 /\ s = 0
    OBVIOUS
  <2>. QED BY <2>1, <2>2, Zenon DEF Outside
<1>. QED BY <1>1, HoldersCounted, FS_EmptySet

\* A buffer has one holder, and none if it is free.
LEMMA OneHolder ==
  ASSUME BuffersInv, NEW b \in Bufs
  PROVE  /\ Outside(b) \in {0, 1} /\ Cardinality(Calling(work, b)) \in {0, 1}
         /\ Outside(b) + Cardinality(Calling(work, b)) = Want(work, b)
         /\ Want(work, b) \in {0, 1}
         /\ Outside(b) = 1 => Calling(work, b) = {}
         /\ Calling(work, b) # {} => Outside(b) = 0
         /\ work.buf[b].kind \in {"free", "lost"} => Outside(b) = 0 /\ Calling(work, b) = {}
<1>1. Rest(work, b) = Outside(b) /\ Outside(b) \in Nat
  BY HoldersCounted DEF BuffersInv, WorkInv, Owned
<1>2. Cardinality(Calling(work, b)) \in Nat /\ (Cardinality(Calling(work, b)) = 0 <=> Calling(work, b) = {})
  BY CallingPlaces DEF BuffersInv, WorkInv, WellMade, WorkTyped
<1>3. Want(work, b) \in {0, 1} /\ (work.buf[b].kind \in {"free", "lost"} => Want(work, b) = 0)
  BY DEF Want
<1>. QED BY <1>1, <1>2, <1>3 DEF Rest

LEMMA HeadFacts ==
  ASSUME BuffersInv, NEW fn, Runs(fn)
  PROVE  /\ WellMade(W) /\ W.buf = work.buf /\ W.wait = work.wait /\ W.cb = Tail(work.cb)
         /\ P \in Bufs \cup {0} /\ (fn # "brTrans" => P \in Bufs) /\ fn \in Fns
         /\ fn \in FrameFns => P \in Bufs /\ IsFrame(F) /\ DOMAIN F = FrameFields
         /\ work.cb # <<>> /\ work.cb \in Seq(Calls) /\ Head(work.cb) = work.cb[1] /\ 1 \in DOMAIN work.cb
         /\ work.cb[1].fn = fn
         /\ \A x \in Bufs : Rest(W, x) = IF x = P THEN 1 ELSE Outside(x)
         /\ P \in Bufs => Outside(P) = 0 /\ Calling(W, P) = {} /\ Content(F) /\ F.kind \notin {"free", "lost"}
<1>1. /\ work = [buf |-> work.buf, cb |-> work.cb, wait |-> work.wait] /\ work.cb \in Seq(Calls)
      /\ WorkTyped(work) /\ CallsMeant(work) /\ work.cb # <<>> /\ Head(work.cb).fn = fn
  BY DEF BuffersInv, WorkInv, WellMade, WorkTyped, Runs
<1>2. /\ Head(work.cb) = work.cb[1] /\ 1 \in DOMAIN work.cb /\ Tail(work.cb) \in Seq(Calls) /\ work.cb[1] \in Calls
      /\ Len(Tail(work.cb)) = Len(work.cb) - 1 /\ \A i \in DOMAIN Tail(work.cb) : Tail(work.cb)[i] = work.cb[i + 1] /\ i + 1 \in DOMAIN work.cb
  BY <1>1
<1>3. W = [buf |-> work.buf, cb |-> Tail(work.cb), wait |-> work.wait]
  <2>1. W = [work EXCEPT !.cb = Tail(work.cb)]
    BY DEF W
  <2>. QED BY <1>1, <2>1, WorkEdits, Zenon
<1>4. W.buf = work.buf /\ W.wait = work.wait /\ W.cb = Tail(work.cb)
  BY <1>3, WorkParts, Zenon
<1>5. WellMade(W)
  <2>1. W = [buf |-> W.buf, cb |-> W.cb, wait |-> W.wait]
    BY <1>3, <1>4, Zenon
  <2>2. WorkTyped(W)
    BY <2>1, <1>1, <1>2, <1>4 DEF WorkTyped
  <2>3. CallsMeant(W)
    BY <1>1, <1>2, <1>4 DEF CallsMeant
  <2>. QED BY <2>2, <2>3 DEF WellMade
<1>6. P \in Bufs \cup {0} /\ fn \in Fns /\ P = work.cb[1].p /\ work.cb[1].fn = fn
  BY <1>1, <1>2 DEF P, Calls
<1>7. (fn # "brTrans" => P \in Bufs) /\ (fn \in FrameFns => P \in Bufs /\ IsFrame(F))
  BY <1>1, <1>2, <1>6 DEF CallsMeant, F
<1>8. fn \in FrameFns => DOMAIN F = FrameFields
  BY <1>7, <1>1 DEF WorkTyped, Content, F
<1>9. ASSUME NEW x \in Bufs
      PROVE  /\ Cardinality(Calling(W, x)) = Cardinality(Calling(work, x)) - (IF x = P THEN 1 ELSE 0)
             /\ x = P => Calling(work, x) # {}
             /\ Want(W, x) = Want(work, x)
  <2>1. Calling(W, x) = Places(W.cb, [fn : Fns, p : {x}]) /\ Calling(work, x) = Places(work.cb, [fn : Fns, p : {x}])
    BY <1>1, <1>2, <1>4, CallingPlaces
  <2>2. Cardinality(Places(Tail(work.cb), [fn : Fns, p : {x}]))
          = Cardinality(Places(work.cb, [fn : Fns, p : {x}])) - (IF Head(work.cb) \in [fn : Fns, p : {x}] THEN 1 ELSE 0)
    <3>1. \A T : Cardinality(Places(Tail(work.cb), T)) = Cardinality(Places(work.cb, T)) - (IF Head(work.cb) \in T THEN 1 ELSE 0)
      BY <1>1, CountTail
    <3>. QED BY <3>1
  <2>3. Head(work.cb) \in [fn : Fns, p : {x}] <=> x = P
    BY <1>2, <1>6 DEF Calls
  <2>4. x = P => 1 \in Calling(work, x)
    BY <1>2, <1>6 DEF Calling
  <2>5. Want(W, x) = Want(work, x)
    BY <1>4 DEF Want
  <2>. QED BY <2>1, <2>2, <2>3, <2>4, <2>5, <1>4
<1>10. \A x \in Bufs : Rest(W, x) = IF x = P THEN 1 ELSE Outside(x)
  <2>. TAKE x \in Bufs
  <2>1. /\ Outside(x) \in {0, 1} /\ Cardinality(Calling(work, x)) \in {0, 1} /\ Want(work, x) \in {0, 1}
        /\ Outside(x) + Cardinality(Calling(work, x)) = Want(work, x) /\ (Calling(work, x) # {} => Outside(x) = 0)
    BY OneHolder
  <2>2. Calling(work, x) # {} => Cardinality(Calling(work, x)) # 0
    BY <1>1, CallingPlaces
  <2>. QED BY <2>1, <2>2, <1>9 DEF Rest
<1>11. ASSUME P \in Bufs
       PROVE  Outside(P) = 0 /\ Calling(W, P) = {} /\ Content(F) /\ F.kind \notin {"free", "lost"}
  <2>1. Calling(work, P) # {} /\ Cardinality(Calling(W, P)) = Cardinality(Calling(work, P)) - 1
    BY <1>9, <1>11
  <2>2. Outside(P) = 0 /\ Cardinality(Calling(work, P)) \in {0, 1} /\ Cardinality(Calling(work, P)) # 0 /\ F.kind \notin {"free", "lost"}
    BY <2>1, <1>11, OneHolder, <1>1, CallingPlaces DEF F
  <2>3. Cardinality(Calling(W, P)) = 0
    BY <2>1, <2>2
  <2>4. Calling(W, P) = {}
    BY <2>3, <1>2, <1>4, <1>11, CallingPlaces
  <2>. QED BY <2>2, <2>4, <1>1, <1>11 DEF WorkTyped, F
<1>. QED BY <1>1, <1>2, <1>4, <1>5, <1>6, <1>7, <1>8, <1>10, <1>11

-----------------------------------------------------------------------------
\* A new value of the work fits the holders outside the queue; it leaves the
\* frames in other buffers than b as they were.

Fits(v) == WellMade(v) /\ \A x \in Bufs : Rest(v, x) = Outside(x)
Leaves(v, b) == \A x \in Bufs : x # b /\ IsFrame(work.buf[x]) => v.buf[x] = work.buf[x]

LEMMA CallsOn ==
  ASSUME BuffersInv, NEW g, Runs(g), g # "brTrans", NEW fn \in Fns, fn \in FrameFns => IsFrame(F)
  PROVE  Fits(Called(W, fn, P)) /\ Leaves(Called(W, fn, P), P) /\ Called(W, fn, P).buf = work.buf
<1>1. /\ WellMade(W) /\ W.buf = work.buf /\ P \in Bufs
      /\ \A x \in Bufs : Rest(W, x) = IF x = P THEN 1 ELSE Outside(x)
  BY HeadFacts
<1>2. Outside(P) = 0
  BY <1>1, HeadFacts
<1>3. P # 0 /\ (fn \in FrameFns => IsFrame(W.buf[P]))
  BY <1>1, BufsTyped DEF F
<1>4. /\ WellMade(Called(W, fn, P)) /\ Called(W, fn, P).buf = W.buf
      /\ \A x \in Bufs : Rest(Called(W, fn, P), x) = IF x = P THEN Rest(W, x) - 1 ELSE Rest(W, x)
  BY <1>1, <1>3, CalledFacts
<1>. QED BY <1>1, <1>2, <1>4 DEF Fits, Leaves

LEMMA FillsCalls ==
  ASSUME BuffersInv, NEW g, Runs(g), P \in Bufs, NEW c, Content(c), c.kind \notin {"free", "lost"},
         NEW fn \in Fns, fn \in FrameFns => IsFrame(c)
  PROVE  Fits(Called(Filled(W, P, c), fn, P)) /\ Leaves(Called(Filled(W, P, c), fn, P), P)
         /\ Called(Filled(W, P, c), fn, P).buf[P] = c
<1>. DEFINE u == Filled(W, P, c)
<1>1. /\ WellMade(W) /\ W.buf = work.buf /\ Calling(W, P) = {} /\ Outside(P) = 0
      /\ \A x \in Bufs : Rest(W, x) = IF x = P THEN 1 ELSE Outside(x)
  BY HeadFacts
<1>2. /\ WellMade(u) /\ u.buf[P] = c /\ \A x \in Bufs : x # P => u.buf[x] = W.buf[x]
      /\ \A x \in Bufs : Rest(u, x) =
           IF x = P THEN (IF c.kind \in {"free", "lost"} THEN 0 ELSE 1) - Cardinality(Calling(W, x)) ELSE Rest(W, x)
  BY <1>1, FilledFacts
<1>3. \A x \in Bufs : Rest(u, x) = IF x = P THEN 1 ELSE Outside(x)
  <2>1. Cardinality(Calling(W, P)) = 0
    BY <1>1, FS_EmptySet
  <2>. QED BY <1>1, <1>2, <2>1
<1>. HIDE DEF u
<1>4. P # 0 /\ (fn \in FrameFns => IsFrame(u.buf[P]))
  BY <1>2, BufsTyped
<1>5. /\ WellMade(Called(u, fn, P)) /\ Called(u, fn, P).buf = u.buf
      /\ \A x \in Bufs : Rest(Called(u, fn, P), x) = IF x = P THEN Rest(u, x) - 1 ELSE Rest(u, x)
  BY <1>2, <1>4, CalledFacts
<1>6. \A x \in Bufs : Rest(Called(u, fn, P), x) = Outside(x)
  BY <1>1, <1>3, <1>5
<1>. QED BY <1>1, <1>2, <1>5, <1>6 DEF Fits, Leaves, u

LEMMA FreesBuffer ==
  ASSUME BuffersInv, NEW g, Runs(g), P \in Bufs
  PROVE  Fits(Freed(W, P)) /\ Leaves(Freed(W, P), P) /\ ~IsFrame(Freed(W, P).buf[P])
<1>1. /\ WellMade(W) /\ W.buf = work.buf /\ Calling(W, P) = {} /\ Outside(P) = 0
      /\ \A x \in Bufs : Rest(W, x) = IF x = P THEN 1 ELSE Outside(x)
  BY HeadFacts
<1>2. /\ WellMade(Freed(W, P)) /\ Freed(W, P).buf[P] \in {NoBuf, Fresh}
      /\ \A x \in Bufs : Rest(Freed(W, P), x) = IF x = P THEN 0 ELSE Rest(W, x)
      /\ \A x \in Bufs : x # P => Freed(W, P).buf[x] = W.buf[x]
  BY <1>1, FreedFacts
<1>. QED BY <1>1, <1>2, KindsApart DEF Fits, Leaves

LEMMA LosesBuffer ==
  ASSUME BuffersInv, NEW g, Runs(g), P \in Bufs
  PROVE  Fits(Filled(W, P, Lost)) /\ Leaves(Filled(W, P, Lost), P)
<1>. DEFINE u == Filled(W, P, Lost)
<1>1. /\ WellMade(W) /\ W.buf = work.buf /\ Calling(W, P) = {} /\ Outside(P) = 0
      /\ \A x \in Bufs : Rest(W, x) = IF x = P THEN 1 ELSE Outside(x)
  BY HeadFacts
<1>2. /\ WellMade(u) /\ \A x \in Bufs : x # P => u.buf[x] = W.buf[x]
      /\ \A x \in Bufs : Rest(u, x) =
           IF x = P THEN (IF Lost.kind \in {"free", "lost"} THEN 0 ELSE 1) - Cardinality(Calling(W, x)) ELSE Rest(W, x)
  BY <1>1, FilledFacts, KindsApart
<1>3. Cardinality(Calling(W, P)) = 0
  BY <1>1, FS_EmptySet
<1>4. \A x \in Bufs : Rest(u, x) = Outside(x)
  BY <1>1, <1>2, <1>3, KindsApart
<1>. QED BY <1>1, <1>2, <1>4 DEF Fits, Leaves

LEMMA AsksBuffer ==
  ASSUME NEW v, Fits(v), NEW b, Leaves(v, b), NEW d \in {"in", "out"}, NEW fn \in WaitFns
  PROVE  Fits(Asked(v, d, fn)) /\ Leaves(Asked(v, d, fn), b)
<1>1. WellMade(v)
  BY DEF Fits
<1>2. /\ WellMade(Asked(v, d, fn)) /\ \A x \in Bufs : Rest(Asked(v, d, fn), x) = Rest(v, x)
      /\ \A x \in Bufs : v.buf[x] # NoBuf => Asked(v, d, fn).buf[x] = v.buf[x]
  BY <1>1, AskedFacts
<1>3. \A x \in Bufs : IsFrame(work.buf[x]) => work.buf[x] # NoBuf
  BY KindsApart
<1>. QED BY <1>2, <1>3 DEF Fits, Leaves

\* A buffer nobody holds is taken for a call.
LEMMA TakesBuffer ==
  ASSUME BuffersInv, NEW b \in Bufs, work.buf[b] = NoBuf, NEW c, Content(c), c.kind \notin {"free", "lost"},
         NEW fn \in Fns, fn \in FrameFns => IsFrame(c)
  PROVE  /\ Fits(Called(Filled(work, b, c), fn, b)) /\ Leaves(Called(Filled(work, b, c), fn, b), b)
         /\ Outside(b) = 0 /\ Called(Filled(work, b, c), fn, b).buf[b] = c
<1>. DEFINE u == Filled(work, b, c)
<1>1. WellMade(work) /\ Calling(work, b) = {} /\ Outside(b) = 0 /\ \A x \in Bufs : Rest(work, x) = Outside(x)
  BY OneHolder, KindsApart DEF BuffersInv, WorkInv, Owned
<1>2. /\ WellMade(u) /\ u.buf[b] = c /\ \A x \in Bufs : x # b => u.buf[x] = work.buf[x]
      /\ \A x \in Bufs : Rest(u, x) =
           IF x = b THEN (IF c.kind \in {"free", "lost"} THEN 0 ELSE 1) - Cardinality(Calling(work, x)) ELSE Rest(work, x)
  BY <1>1, FilledFacts
<1>3. \A x \in Bufs : Rest(u, x) = IF x = b THEN 1 ELSE Outside(x)
  <2>1. Cardinality(Calling(work, b)) = 0
    BY <1>1, FS_EmptySet
  <2>. QED BY <1>1, <1>2, <2>1
<1>. HIDE DEF u
<1>4. b # 0 /\ (fn \in FrameFns => IsFrame(u.buf[b]))
  BY <1>2, BufsTyped
<1>5. /\ WellMade(Called(u, fn, b)) /\ Called(u, fn, b).buf = u.buf
      /\ \A x \in Bufs : Rest(Called(u, fn, b), x) = IF x = b THEN Rest(u, x) - 1 ELSE Rest(u, x)
  BY <1>2, <1>4, CalledFacts
<1>6. \A x \in Bufs : Rest(Called(u, fn, b), x) = Outside(x)
  BY <1>1, <1>3, <1>5
<1>. QED BY <1>1, <1>2, <1>5, <1>6 DEF Fits, Leaves, u

LEMMA FreeFacts ==
  ASSUME NEW d, FreeOf(work, d) # {}
  PROVE  Min(FreeOf(work, d)) \in Bufs /\ work.buf[Min(FreeOf(work, d))] = NoBuf
<1>1. FreeOf(work, d) \in SUBSET Nat
  BY BufsTyped DEF FreeOf, Of
<1>2. Min(FreeOf(work, d)) \in FreeOf(work, d)
  BY <1>1, MinIn
<1>. QED BY <1>2 DEF FreeOf, Of

-----------------------------------------------------------------------------
\* The holders outside the queue stay who they are.
SameHolders ==
  /\ Used(brrt)' = Used(brrt) /\ \A i \in Used(brrt) : brrt'[i].buf = brrt[i].buf
  /\ wait_alloc' = wait_alloc /\ mac' = mac
  /\ DOMAIN timer'.reports = DOMAIN timer.reports
  /\ \A i \in DOMAIN timer.reports : timer'.reports[i].b = timer.reports[i].b

LEMMA SameOutside ==
  ASSUME SameHolders
  PROVE  \A b : Outside(b)' = Outside(b)
<1>1. \A b : InTable(b)' = InTable(b) /\ InWait(b)' = InWait(b) /\ InReports(b)' = InReports(b) /\ InMac(b)' = InMac(b)
  BY DEF SameHolders, InTable, InWait, InReports, InMac
<1>. QED BY <1>1 DEF Outside

LEMMA HeldOutside ==
  ASSUME BuffersInv
  PROVE  /\ \A i \in Used(brrt) : brrt[i].buf \in Bufs /\ Outside(brrt[i].buf) # 0
         /\ \A i \in DOMAIN wait_alloc : wait_alloc[i] \in Bufs /\ Outside(wait_alloc[i]) # 0
         /\ \A i \in DOMAIN timer.reports : timer.reports[i].b \in Bufs /\ Outside(timer.reports[i].b) # 0
         /\ \A i \in DOMAIN mac : mac[i] \in Bufs /\ Outside(mac[i]) # 0
<1>1. /\ \A i \in Used(brrt) : brrt[i].buf \in Bufs
      /\ \A i \in DOMAIN wait_alloc : wait_alloc[i] \in Bufs
      /\ \A i \in DOMAIN mac : mac[i] \in Bufs
  BY SeqElements DEF BuffersInv, TablesTyped
<1>2. \A i \in DOMAIN timer.reports : timer.reports[i].b \in Bufs
  <2>1. \A i \in DOMAIN timer.reports : timer.reports[i] \in [b : Bufs, t : Nat]
    BY ReportsTyped, SeqElements, Zenon DEF BuffersInv
  <2>. QED BY <2>1
<1>3. \A b \in Bufs : Outside(b) = 0 => InTable(b) = {} /\ InWait(b) = {} /\ InReports(b) = {} /\ InMac(b) = {}
  BY NotOutside DEF BuffersInv
<1>4. /\ \A i \in Used(brrt) : i \in InTable(brrt[i].buf)
      /\ \A i \in DOMAIN wait_alloc : i \in InWait(wait_alloc[i])
      /\ \A i \in DOMAIN timer.reports : i \in InReports(timer.reports[i].b)
      /\ \A i \in DOMAIN mac : i \in InMac(mac[i])
  BY DEF InTable, InWait, InReports, InMac
<1>. QED BY <1>1, <1>2, <1>3, <1>4

LEMMA KeepsWork ==
  ASSUME BuffersInv, Fits(work'), NEW b, Leaves(work', b), b \in Bufs => Outside(b) = 0, SameHolders
  PROVE  WorkInv'
<1>1. WellMade(work)'
  BY DEF Fits, WellMade, WorkTyped, CallsMeant
<1>2. Owned'
  <2>1. \A x \in Bufs : Rest(work', x) = Outside(x)'
    BY SameOutside DEF Fits
  <2>. QED BY <2>1 DEF Owned, Rest, Want, Calling
<1>3. FramesHeld'
  <2>1. \A x \in Bufs : Outside(x) # 0 /\ IsFrame(work.buf[x]) => IsFrame(work'.buf[x])
    BY DEF Leaves
  <2>. QED BY <2>1, HeldOutside DEF FramesHeld, SameHolders, BuffersInv, WorkInv
<1>. QED BY <1>1, <1>2, <1>3 DEF WorkInv

-----------------------------------------------------------------------------
\* The work of every action: one step per action.

LEMMA FrameEdit ==
  ASSUME NEW c, DOMAIN c = FrameFields, IsFrame(c), NEW f \in FrameFields \ {"kind"}, NEW x, NEW e, e = [c EXCEPT ![f] = x]
  PROVE  /\ DOMAIN e = FrameFields /\ IsFrame(e) /\ Content(e) /\ e.kind = c.kind /\ e.kind \notin {"free", "lost"}
         /\ e[f] = x /\ \A g \in FrameFields : g # f => e[g] = c[g]
<1>1. "kind" \in FrameFields
  BY DEF FrameFields
<1>2. DOMAIN e = FrameFields /\ e[f] = x /\ \A g \in FrameFields : g # f => e[g] = c[g]
  OBVIOUS
<1>. QED BY <1>1, <1>2, KindsApart DEF IsFrame, Content

LEMMA FrameFacts ==
  ASSUME NEW c, DOMAIN c = FrameFields, IsFrame(c)
  PROVE  Content(c) /\ c.kind \notin {"free", "lost"}
BY KindsApart DEF IsFrame, Content, FrameFields

LEMMA HeaderFrame ==
  ASSUME NEW dst, NEW kind \in Kinds, NEW radius, NEW pl
  PROVE  LET h == Header(dst, kind, radius, pl)
         IN /\ DOMAIN h = FrameFields /\ IsFrame(h) /\ Content(h) /\ h.kind = kind /\ h.kind \notin {"free", "lost"}
            /\ h.id = log.own + 1 /\ h.src = Me /\ h.seq = attr["SequenceNumber"] /\ h.dst = dst
<1>. DEFINE h == Header(dst, kind, radius, pl)
<1>1. DOMAIN h = FrameFields
  BY DEF Header, Frame, FrameFields
<1>2. h.kind = kind /\ h.id = log.own + 1 /\ h.src = Me /\ h.seq = attr["SequenceNumber"] /\ h.dst = dst
  BY DEF Header, Frame
<1>. QED BY <1>1, <1>2, FrameFacts DEF IsFrame

LEMMA TimerEdits ==
  ASSUME TimersTyped, NEW x
  PROVE  /\ [timer EXCEPT !.br = x].reports = timer.reports
         /\ [timer EXCEPT !.exp = x].reports = timer.reports
         /\ [timer EXCEPT !.pans = x].reports = timer.reports
         /\ [timer EXCEPT !.reports = x].reports = x
         /\ [timer EXCEPT !.br = x].pans = timer.pans
         /\ [timer EXCEPT !.exp = x].pans = timer.pans
         /\ [timer EXCEPT !.reports = x].pans = timer.pans
         /\ [timer EXCEPT !.pans = x].pans = x
         /\ \A cnt : StartExpiry(timer, cnt).reports = timer.reports
         /\ \A cnt : StartExpiry(timer, cnt).pans = timer.pans
BY DEF TimersTyped, StartExpiry

LEMMA HoldersAlike ==
  ASSUME UNCHANGED <<brrt, wait_alloc, mac>>, timer'.reports = timer.reports
  PROVE  SameHolders
BY DEF SameHolders, Used

LEMMA FreeingWork ==
  ASSUME BuffersInv, NEW g, Runs(g), P \in Bufs, work' = Freed(W, P),
         UNCHANGED <<brrt, wait_alloc, mac>>, timer'.reports = timer.reports
  PROVE  WorkInv'
<1>1. Fits(work') /\ Leaves(work', P)
  BY FreesBuffer
<1>2. Outside(P) = 0
  BY HeadFacts
<1>. QED BY <1>1, <1>2, HoldersAlike, KeepsWork

LEMMA CallingWork ==
  ASSUME BuffersInv, NEW g, Runs(g), g # "brTrans", NEW fn \in Fns, fn \in FrameFns => IsFrame(F), work' = Called(W, fn, P),
         UNCHANGED <<brrt, wait_alloc, mac>>, timer'.reports = timer.reports
  PROVE  WorkInv'
<1>1. Fits(work') /\ Leaves(work', P)
  BY CallsOn
<1>2. P \in Bufs /\ Outside(P) = 0
  BY HeadFacts
<1>. QED BY <1>1, <1>2, HoldersAlike, KeepsWork

LEMMA FillingWork ==
  ASSUME BuffersInv, NEW g, Runs(g), P \in Bufs, NEW c, Content(c), c.kind \notin {"free", "lost"},
         NEW fn \in Fns, fn \in FrameFns => IsFrame(c), work' = Called(Filled(W, P, c), fn, P),
         UNCHANGED <<brrt, wait_alloc, mac>>, timer'.reports = timer.reports
  PROVE  WorkInv'
<1>1. Fits(work') /\ Leaves(work', P)
  BY FillsCalls
<1>2. Outside(P) = 0
  BY HeadFacts
<1>. QED BY <1>1, <1>2, HoldersAlike, KeepsWork

LEMMA TakingWork ==
  ASSUME BuffersInv, NEW d, FreeOf(work, d) # {}, NEW c, Content(c), c.kind \notin {"free", "lost"},
         NEW fn \in Fns, fn \in FrameFns => IsFrame(c),
         work' = Called(Filled(work, Min(FreeOf(work, d)), c), fn, Min(FreeOf(work, d))),
         UNCHANGED <<brrt, wait_alloc, mac>>, timer'.reports = timer.reports
  PROVE  WorkInv'
<1>. DEFINE b == Min(FreeOf(work, d))
<1>1. b \in Bufs /\ work.buf[b] = NoBuf
  BY FreeFacts
<1>. HIDE DEF b
<1>2. Fits(work') /\ Leaves(work', b) /\ Outside(b) = 0
  BY <1>1, TakesBuffer DEF b
<1>. QED BY <1>2, HoldersAlike, KeepsWork

LEMMA SimpleWork ==
  ASSUME BuffersInv,
         \/ ForwardDirect \/ ForwardBttFull \/ DropIndication
         \/ CallStatusIndication \/ NldeConfirm \/ NldeIndication \/ StatusIndication \/ IndicateData \/ IndicateStatus
         \/ SendStatusInd \/ StartRequest \/ GetConfirm \/ SetConfirm \/ DoSetPanid \/ DoGet \/ DoSet
  PROVE  WorkInv'
<1>. USE DEF tables, base
<1>0. TimersTyped
  BY DEF BuffersInv
<1>1. CASE ForwardDirect
  <2>1. Runs("forward") /\ P \in Bufs /\ IsFrame(F) /\ DOMAIN F = FrameFields
    BY <1>1, HeadFacts DEF ForwardDirect, FrameFns
  <2>. DEFINE c == [F EXCEPT !.mdst = CalcDestination(F)]
  <2>2. IsFrame(c) /\ Content(c) /\ c.kind \notin {"free", "lost"}
    BY <2>1, FrameEdit DEF FrameFields
  <2>3. work' = Called(Filled(W, P, c), "dataReq", P) /\ UNCHANGED <<brrt, wait_alloc, mac>>
    BY <1>1 DEF ForwardDirect
  <2>4. timer'.reports = timer.reports
    BY <1>1, <1>0, TimerEdits DEF ForwardDirect
  <2>5. "dataReq" \in Fns
    BY DEF Fns
  <2>. HIDE DEF c
  <2>. QED BY <2>1, <2>2, <2>3, <2>4, <2>5, FillingWork
<1>2. CASE ForwardBttFull
  BY <1>2, HeadFacts, FreeingWork DEF ForwardBttFull
<1>3. CASE DropIndication
  BY <1>3, HeadFacts, FreeingWork DEF DropIndication
<1>4. CASE CallStatusIndication
  BY <1>4, CallingWork DEF CallStatusIndication, Fns, FrameFns
<1>5. CASE NldeConfirm
  BY <1>5, HeadFacts, FreeingWork DEF NldeConfirm
<1>6. CASE NldeIndication
  BY <1>6, HeadFacts, FreeingWork DEF NldeIndication
<1>7. CASE StatusIndication
  BY <1>7, HeadFacts, FreeingWork DEF StatusIndication
<1>8. CASE IndicateData
  <2>1. IsFrame(F)
    BY <1>8 DEF IndicateData, IsFrame, Kinds
  <2>. QED BY <1>8, <2>1, CallingWork DEF IndicateData, Fns
<1>9. CASE IndicateStatus
  BY <1>9, CallingWork DEF IndicateStatus, Fns, FrameFns
<1>10. CASE SendStatusInd
  BY <1>10, CallingWork DEF SendStatusInd, Fns, FrameFns
<1>11. CASE StartRequest
  BY <1>11, CallingWork DEF StartRequest, Fns, FrameFns
<1>12. CASE GetConfirm
  BY <1>12, HeadFacts, FreeingWork DEF GetConfirm
<1>13. CASE SetConfirm
  BY <1>13, HeadFacts, FreeingWork DEF SetConfirm
<1>14. CASE DoSetPanid
  <2>. DEFINE c == [kind |-> "start", req |-> StartReq(pc)]
  <2>1. Content(c) /\ c.kind \notin {"free", "lost"} /\ "startReq" \in Fns /\ "startReq" \notin FrameFns
    BY DEF Content, IsFrame, Kinds, Fns, FrameFns
  <2>2. Runs("setPanid") /\ P \in Bufs /\ work' = Called(Filled(W, P, c), "startReq", P)
    BY <1>14, HeadFacts DEF DoSetPanid
  <2>3. UNCHANGED <<brrt, wait_alloc, mac, timer>>
    BY <1>14 DEF DoSetPanid
  <2>. HIDE DEF c
  <2>. QED BY <2>1, <2>2, <2>3, FillingWork
<1>15. CASE DoGet
  <2>1. PICK cf : work' = Called(Filled(W, P, [kind |-> "conf", layer |-> F.layer, c |-> cf]), "getConf", P)
    BY <1>15 DEF DoGet
  <2>. DEFINE c == [kind |-> "conf", layer |-> F.layer, c |-> cf]
  <2>2. Content(c) /\ c.kind \notin {"free", "lost"} /\ "getConf" \in Fns /\ "getConf" \notin FrameFns
    BY DEF Content, IsFrame, Kinds, Fns, FrameFns
  <2>3. Runs("getReq") /\ P \in Bufs /\ UNCHANGED <<brrt, wait_alloc, mac, timer>>
    BY <1>15, HeadFacts DEF DoGet
  <2>4. work' = Called(Filled(W, P, c), "getConf", P)
    BY <2>1
  <2>. HIDE DEF c
  <2>. QED BY <2>2, <2>3, <2>4, FillingWork
<1>16. CASE DoSet
  <2>. DEFINE c == [kind |-> "conf", layer |-> F.layer, c |-> Conf(F.attr, SetStatus(F.layer, F.attr), 0, 0)]
  <2>2. Content(c) /\ c.kind \notin {"free", "lost"} /\ "setConf" \in Fns /\ "setConf" \notin FrameFns
    BY DEF Content, IsFrame, Kinds, Fns, FrameFns
  <2>3. Runs("setReq") /\ P \in Bufs /\ UNCHANGED <<brrt, wait_alloc, mac, timer>>
    BY <1>16, HeadFacts DEF DoSet
  <2>4. work' = Called(Filled(W, P, c), "setConf", P)
    BY <1>16 DEF DoSet
  <2>. HIDE DEF c
  <2>. QED BY <2>2, <2>3, <2>4, FillingWork
<1>. QED BY <1>1, <1>2, <1>3, <1>4, <1>5, <1>6, <1>7, <1>8, <1>9, <1>10, <1>11, <1>12, <1>13, <1>14, <1>15, <1>16

LEMMA HeardFrames ==
  ASSUME BuffersInv, NEW f \in Foreign \cup Repeated
  PROVE  DOMAIN f = FrameFields /\ IsFrame(f)
<1>1. CASE f \in Foreign
  BY <1>1, MixAssumption DEF Foreign, BuffersInv, BaseTyped, IsFrame
<1>2. CASE f \in Repeated
  <2>1. PICK g \in log.sent : f = [g EXCEPT !.radius = @ - 1]
    BY <1>2 DEF Repeated
  <2>2. DOMAIN g = FrameFields /\ IsFrame(g)
    BY DEF BuffersInv, LogTyped
  <2>. QED BY <2>1, <2>2, FrameEdit DEF FrameFields
<1>. QED BY <1>1, <1>2

LEMMA EnvironmentWork ==
  ASSUME BuffersInv, Environment
  PROVE  WorkInv'
<1>. USE DEF tables, base
<1>1. ASSUME NEW f \in Foreign \cup Repeated, NEW k \in DOMAIN Nbt, Receive(f, k)
      PROVE  WorkInv'
  <2>. DEFINE c == [f EXCEPT !.from = Nbt[k].addr]
  <2>1. IsFrame(c) /\ Content(c) /\ c.kind \notin {"free", "lost"} /\ "dataInd" \in Fns
    BY HeardFrames, FrameEdit DEF FrameFields, Fns
  <2>2. /\ FreeOf(work, "in") # {} /\ UNCHANGED <<brrt, wait_alloc, mac, timer>>
        /\ work' = Called(Filled(work, Min(FreeOf(work, "in")), c), "dataInd", Min(FreeOf(work, "in")))
    BY <1>1 DEF Receive
  <2>. HIDE DEF c
  <2>. QED BY <2>1, <2>2, TakingWork
<1>2. ASSUME NEW pan \in mix.pans, Beacon(pan)
      PROVE  WorkInv'
  <2>. DEFINE c == [kind |-> "beacon", pan |-> pan]
  <2>1. Content(c) /\ c.kind \notin {"free", "lost"} /\ "beaconInd" \in Fns /\ "beaconInd" \notin FrameFns
    BY DEF Content, IsFrame, Kinds, Fns, FrameFns
  <2>2. /\ FreeOf(work, "in") # {} /\ UNCHANGED <<brrt, wait_alloc, mac, timer>>
        /\ work' = Called(Filled(work, Min(FreeOf(work, "in")), c), "beaconInd", Min(FreeOf(work, "in")))
    BY <1>2 DEF Beacon
  <2>. HIDE DEF c
  <2>. QED BY <2>1, <2>2, TakingWork
<1>3. ASSUME NEW d \in mix.dsts, NEW r \in mix.radii, AppSend(d, r)
      PROVE  WorkInv'
  <2>. DEFINE rr == IF r = 0 THEN 2 * attr["MaxDepth"] ELSE r
              h == Header(d, "data", rr, 0)
              c == [h EXCEPT !.handle = "aps"]
  <2>1. DOMAIN h = FrameFields /\ IsFrame(h)
    BY HeaderFrame DEF Kinds
  <2>2. /\ FreeOf(work, "out") # {} /\ UNCHANGED <<brrt, wait_alloc, mac, timer>>
        /\ work' = Called(Filled(work, Min(FreeOf(work, "out")), c), "forward", Min(FreeOf(work, "out")))
    BY <1>3 DEF AppSend
  <2>. HIDE DEF h
  <2>3. IsFrame(c) /\ Content(c) /\ c.kind \notin {"free", "lost"} /\ "forward" \in Fns
    BY <2>1, FrameEdit DEF FrameFields, Fns
  <2>. HIDE DEF c
  <2>. QED BY <2>2, <2>3, TakingWork
<1>4. ASSUME NEW d \in mix.dsts, SendStatus(d)
      PROVE  WorkInv'
  <2>. DEFINE c == Header(d, "status", 1, 0)
  <2>1. IsFrame(c) /\ Content(c) /\ c.kind \notin {"free", "lost"} /\ "forward" \in Fns
    BY HeaderFrame DEF Kinds, Fns
  <2>2. /\ FreeOf(work, "out") # {} /\ UNCHANGED <<brrt, wait_alloc, mac, timer>>
        /\ work' = Called(Filled(work, Min(FreeOf(work, "out")), c), "forward", Min(FreeOf(work, "out")))
    BY <1>4 DEF SendStatus
  <2>. HIDE DEF c
  <2>. QED BY <2>1, <2>2, TakingWork
<1>5. ASSUME NEW g \in mix.gets, AppGet(g[1], g[2])
      PROVE  WorkInv'
  <2>. DEFINE c == [kind |-> "get", layer |-> g[1], attr |-> g[2]]
  <2>1. Content(c) /\ c.kind \notin {"free", "lost"} /\ "getReq" \in Fns /\ "getReq" \notin FrameFns
    BY DEF Content, IsFrame, Kinds, Fns, FrameFns
  <2>2. /\ FreeOf(work, "out") # {} /\ UNCHANGED <<brrt, wait_alloc, mac, timer>>
        /\ work' = Called(Filled(work, Min(FreeOf(work, "out")), c), "getReq", Min(FreeOf(work, "out")))
    BY <1>5 DEF AppGet
  <2>. HIDE DEF c
  <2>. QED BY <2>1, <2>2, TakingWork
<1>6. ASSUME NEW g \in mix.sets, AppSet(g[1], g[2], g[3])
      PROVE  WorkInv'
  <2>. DEFINE c == [kind |-> "set", layer |-> g[1], attr |-> g[2], value |-> g[3]]
  <2>1. Content(c) /\ c.kind \notin {"free", "lost"} /\ "setReq" \in Fns /\ "setReq" \notin FrameFns
    BY DEF Content, IsFrame, Kinds, Fns, FrameFns
  <2>2. /\ FreeOf(work, "out") # {} /\ UNCHANGED <<brrt, wait_alloc, mac, timer>>
        /\ work' = Called(Filled(work, Min(FreeOf(work, "out")), c), "setReq", Min(FreeOf(work, "out")))
    BY <1>6 DEF AppSet
  <2>. HIDE DEF c
  <2>. QED BY <2>1, <2>2, TakingWork
<1>. QED BY <1>1, <1>2, <1>3, <1>4, <1>5, <1>6 DEF Environment

LEMMA ConfirmedWork ==
  ASSUME BuffersInv, DataConfirm \/ CallBrConfirm
  PROVE  WorkInv'
<1>. USE DEF tables, base
<1>1. PICK g \in {"dataConf", "brConf"} : Runs(g)
  BY DEF DataConfirm, CallBrConfirm
<1>2. work' = Confirmed(W, P, F) /\ UNCHANGED <<brrt, wait_alloc, mac, timer>>
  BY DEF DataConfirm, CallBrConfirm
<1>3. P \in Bufs /\ IsFrame(F)
  BY <1>1, HeadFacts DEF FrameFns
<1>4. CASE F.handle = "internal" /\ F.st = "ok"
  BY <1>1, <1>2, <1>3, <1>4, FreeingWork DEF Confirmed
<1>5. CASE F.handle = "internal" /\ F.st # "ok"
  BY <1>1, <1>2, <1>3, <1>5, CallingWork DEF Confirmed, Fns, FrameFns
<1>6. CASE F.handle # "internal" /\ F.st = "ok"
  BY <1>1, <1>2, <1>3, <1>6, CallingWork DEF Confirmed, Fns, FrameFns
<1>7. CASE F.handle # "internal" /\ F.st # "ok"
  <2>. DEFINE up == Called(W, "nldeConf", P)
  <2>1. work' = Asked(up, "in", "callStatus")
    BY <1>2, <1>7 DEF Confirmed
  <2>2. Fits(up) /\ Leaves(up, P)
    BY <1>1, <1>3, CallsOn DEF Fns, FrameFns
  <2>. HIDE DEF up
  <2>3. Fits(work') /\ Leaves(work', P)
    BY <2>1, <2>2, AsksBuffer DEF WaitFns
  <2>4. Outside(P) = 0
    BY <1>1, <1>3, HeadFacts
  <2>. QED BY <1>2, <2>3, <2>4, HoldersAlike, KeepsWork
<1>. QED BY <1>4, <1>5, <1>6, <1>7

\* The resolution of PAN id conflicts.
LEMMA AnnounceWork ==
  ASSUME BuffersInv, NEW g \in {"frameInd", "beaconInd"}, Runs(g), NEW h, Announce(P, h), UNCHANGED <<brrt, wait_alloc, mac>>
  PROVE  WorkInv'
<1>1. work' = Called(W, "sendUpdate", P) /\ timer'.reports = timer.reports
  BY TimerEdits DEF Announce, BuffersInv
<1>. QED BY <1>1, CallingWork DEF Fns, FrameFns

LEMMA ConflictWork ==
  ASSUME BuffersInv,
         IndicateReport \/ IndicateUpdate \/ SendNwkUpdate \/ SetPanidAlarm \/ StartConfirm
  PROVE  WorkInv'
<1>. USE DEF tables, base
<1>0. TimersTyped
  BY DEF BuffersInv
<1>1. CASE IndicateReport
  <2>1. Runs("frameInd") /\ P \in Bufs /\ UNCHANGED <<brrt, wait_alloc, mac>>
    BY <1>1, HeadFacts DEF IndicateReport
  <2>2. CASE work' = Freed(W, P) /\ timer' = timer
    BY <2>1, <2>2, FreeingWork
  <2>3. CASE Announce(P, Reported(pc, F.pl.ids))
    BY <2>1, <2>3, AnnounceWork
  <2>. QED BY <1>1, <2>2, <2>3 DEF IndicateReport
<1>2. CASE IndicateUpdate
  <2>1. Runs("frameInd") /\ P \in Bufs /\ UNCHANGED <<brrt, wait_alloc, mac>>
    BY <1>2, HeadFacts DEF IndicateUpdate
  <2>2. CASE ~F.pl.ours
    <3>1. work' = Freed(W, P) /\ timer' = timer
      BY <1>2, <2>2 DEF IndicateUpdate
    <3>. QED BY <2>1, <3>1, FreeingWork
  <2>3. CASE F.pl.ours
    <3>. DEFINE u == Filled(W, P, Lost)
    <3>1. work' = Asked(u, "out", "sendStatus") /\ timer'.reports = timer.reports
      <4>1. work' = Asked(u, "out", "sendStatus") /\ timer' = [timer EXCEPT !.pans = Append(timer.pans, PanDelay)]
        BY <1>2, <2>3 DEF IndicateUpdate
      <4>. HIDE DEF u
      <4>2. [timer EXCEPT !.pans = Append(timer.pans, PanDelay)].reports = timer.reports
        BY <1>0, TimerEdits, Zenon
      <4>. QED BY <4>1, <4>2
    <3>2. Fits(u) /\ Leaves(u, P)
      BY <2>1, LosesBuffer
    <3>. HIDE DEF u
    <3>3. Fits(work') /\ Leaves(work', P)
      BY <3>1, <3>2, AsksBuffer DEF WaitFns
    <3>4. Outside(P) = 0
      BY <2>1, HeadFacts
    <3>. QED BY <2>1, <3>1, <3>3, <3>4, HoldersAlike, KeepsWork
  <2>. QED BY <2>2, <2>3
<1>3. CASE SendNwkUpdate
  <2>1. Runs("sendUpdate") /\ P \in Bufs /\ UNCHANGED <<brrt, wait_alloc, mac, timer>>
    BY <1>3, HeadFacts DEF SendNwkUpdate
  <2>. DEFINE c == Header(All, "update", 2 * attr["MaxDepth"], UpdateCmd(pc))
              u == Called(Filled(W, P, c), "forward", P)
  <2>2. work' = Asked(u, "out", "sendStatus")
    BY <1>3 DEF SendNwkUpdate
  <2>3. IsFrame(c) /\ Content(c) /\ c.kind \notin {"free", "lost"} /\ "forward" \in Fns
    BY HeaderFrame DEF Kinds, Fns
  <2>. HIDE DEF c
  <2>4. Fits(u) /\ Leaves(u, P)
    BY <2>1, <2>3, FillsCalls
  <2>. HIDE DEF u
  <2>5. Fits(work') /\ Leaves(work', P)
    BY <2>2, <2>4, AsksBuffer DEF WaitFns
  <2>6. Outside(P) = 0
    BY <2>1, HeadFacts
  <2>. QED BY <2>1, <2>5, <2>6, HoldersAlike, KeepsWork
<1>4. CASE SetPanidAlarm
  <2>1. work' = Asked(work, "out", "setPanid") /\ UNCHANGED <<brrt, wait_alloc, mac>> /\ timer'.reports = timer.reports
    BY <1>4, <1>0, TimerEdits DEF SetPanidAlarm
  <2>2. Fits(work) /\ Leaves(work, 0)
    BY DEF Fits, Leaves, BuffersInv, WorkInv, Owned
  <2>3. Fits(work') /\ Leaves(work', 0)
    BY <2>1, <2>2, AsksBuffer DEF WaitFns
  <2>. QED BY <2>1, <2>3, BufsTyped, HoldersAlike, KeepsWork
<1>5. CASE StartConfirm
  <2>1. Runs("startConf") /\ P \in Bufs /\ UNCHANGED <<brrt, wait_alloc, mac, timer>>
    BY <1>5, HeadFacts DEF StartConfirm
  <2>2. CASE work' = Freed(W, P)
    BY <2>1, <2>2, FreeingWork
  <2>3. CASE work' = work
    <3>1. Fits(work') /\ Leaves(work', 0)
      BY <2>3 DEF Fits, Leaves, BuffersInv, WorkInv, Owned
    <3>. QED BY <2>1, <3>1, BufsTyped, HoldersAlike, KeepsWork
  <2>. QED BY <1>5, <2>2, <2>3 DEF StartConfirm
<1>. QED BY <1>1, <1>2, <1>3, <1>4, <1>5

\* The tables, the MAC and the alarms take buffers over and give them back.

LEMMA TimeWork ==
  ASSUME BuffersInv, BrAlarm \/ BtrExpiry \/ Elapse \/ BrNeedsBuffer \/ BrNothing
  PROVE  WorkInv'
<1>. USE DEF tables, base
<1>0. TimersTyped /\ TablesTyped /\ DOMAIN brrt = 1 .. BrrSize
  BY TablesFinite DEF BuffersInv
<1>1. CASE BrAlarm
  <2>1. work' = Called(work, "brTrans", 0) /\ UNCHANGED <<brrt, wait_alloc, mac>> /\ timer'.reports = timer.reports
    BY <1>1, <1>0, TimerEdits DEF BrAlarm
  <2>2. WellMade(work) /\ \A x \in Bufs : x # 0 /\ Rest(work, x) = Outside(x)
    BY BufsTyped DEF BuffersInv, WorkInv, Owned
  <2>3. /\ WellMade(work') /\ work'.buf = work.buf
        /\ \A x \in Bufs : Rest(work', x) = IF x = 0 THEN Rest(work, x) - 1 ELSE Rest(work, x)
    <3>1. "brTrans" \in Fns /\ "brTrans" \notin FrameFns
      BY DEF Fns, FrameFns
    <3>2. /\ WellMade(Called(work, "brTrans", 0)) /\ Called(work, "brTrans", 0).buf = work.buf
          /\ \A x \in Bufs : Rest(Called(work, "brTrans", 0), x) = IF x = 0 THEN Rest(work, x) - 1 ELSE Rest(work, x)
      <4>1. WellMade(work) /\ 0 \in Bufs \cup {0}
        BY <2>2
      <4>. QED BY <3>1, <4>1, CalledFacts, ZenonT(40)
    <3>. QED BY <2>1, <3>2
  <2>4. Fits(work') /\ Leaves(work', 0)
    BY <2>2, <2>3 DEF Fits, Leaves
  <2>. QED BY <2>1, <2>4, BufsTyped, HoldersAlike, KeepsWork
<1>2. CASE BtrExpiry
  <2>1. Fits(work') /\ Leaves(work', 0)
    BY <1>2 DEF Fits, Leaves, BuffersInv, WorkInv, Owned, BtrExpiry
  <2>2. UNCHANGED <<brrt, wait_alloc, mac>> /\ timer'.reports = timer.reports
    <3>1. timer' = [timer EXCEPT !.exp = Second] \/ timer' = [timer EXCEPT !.exp = -1]
      BY <1>2 DEF BtrExpiry
    <3>2. timer'.reports = timer.reports
      <4>1. /\ [timer EXCEPT !.exp = Second].reports = timer.reports
            /\ [timer EXCEPT !.exp = -1].reports = timer.reports
        BY <1>0, TimerEdits, Zenon
      <4>. QED BY <3>1, <4>1
    <3>. QED BY <1>2, <3>2 DEF BtrExpiry
  <2>. QED BY <2>1, <2>2, BufsTyped, HoldersAlike, KeepsWork
<1>3. CASE Elapse
  <2>1. Fits(work') /\ Leaves(work', 0)
    BY <1>3 DEF Fits, Leaves, BuffersInv, WorkInv, Owned, Elapse
  <2>2. PICK d : /\ timer' = [br |-> Minus(timer.br, d), exp |-> Minus(timer.exp, d), pans |-> [i \in DOMAIN timer.pans |-> timer.pans[i] - d],
                             reports |-> [i \in DOMAIN timer.reports |-> [timer.reports[i] EXCEPT !.t = @ - d]]]
                 /\ brrt' = [i \in DOMAIN brrt |-> [brrt[i] EXCEPT !.due = Minus(@, d)]]
    BY <1>3 DEF Elapse
  <2>3. UNCHANGED <<wait_alloc, mac>>
    BY <1>3 DEF Elapse
  <2>4. Used(brrt)' = Used(brrt) /\ \A i \in Used(brrt) : brrt'[i].buf = brrt[i].buf
    <3>1. \A i \in DOMAIN brrt : DOMAIN brrt[i] = BrrFields
      BY <1>0 DEF TablesTyped
    <3>2. DOMAIN brrt' = DOMAIN brrt /\ \A i \in DOMAIN brrt : brrt'[i] = [brrt[i] EXCEPT !.due = Minus(brrt[i].due, d)]
      BY <2>2
    <3>3. \A i \in DOMAIN brrt : brrt'[i].used = brrt[i].used /\ brrt'[i].buf = brrt[i].buf
      BY <3>1, <3>2 DEF BrrFields
    <3>. QED BY <3>2, <3>3 DEF Used
  <2>5. DOMAIN timer'.reports = DOMAIN timer.reports /\ \A i \in DOMAIN timer.reports : timer'.reports[i].b = timer.reports[i].b
    <3>1. \A i \in DOMAIN timer.reports : timer.reports[i] \in [b : Bufs, t : Nat]
      BY <1>0, ReportsTyped, SeqElements, Zenon
    <3>2. timer'.reports = [i \in DOMAIN timer.reports |-> [timer.reports[i] EXCEPT !.t = @ - d]]
      BY <2>2
    <3>. QED BY <3>1, <3>2
  <2>6. SameHolders
    BY <2>3, <2>4, <2>5 DEF SameHolders
  <2>. QED BY <2>1, <2>6, BufsTyped, KeepsWork
<1>s. ASSUME brrt' = Skipped
      PROVE  Used(brrt)' = Used(brrt) /\ \A i \in Used(brrt) : brrt'[i].buf = brrt[i].buf
  <2>1. \A i \in DOMAIN brrt : DOMAIN brrt[i] = BrrFields
    BY <1>0 DEF TablesTyped
  <2>2. DOMAIN brrt' = DOMAIN brrt /\ \A i \in DOMAIN brrt :
          brrt'[i] = IF i \in PassedOver THEN [brrt[i] EXCEPT !.it = NextZeChild(brrt[i].dst, @ + 1)] ELSE brrt[i]
    BY <1>s DEF Skipped
  <2>3. \A i \in DOMAIN brrt : brrt'[i].used = brrt[i].used /\ brrt'[i].buf = brrt[i].buf
    BY <2>1, <2>2 DEF BrrFields
  <2>. QED BY <2>2, <2>3 DEF Used
<1>4. CASE BrNeedsBuffer
  <2>1. Runs("brTrans") /\ P = 0 /\ brrt' = Skipped /\ work' = Asked(W, "out", "brTrans") /\ UNCHANGED <<wait_alloc, mac, timer>>
    BY <1>4 DEF BrNeedsBuffer
  <2>2. Fits(W) /\ Leaves(W, 0)
    BY <2>1, HeadFacts, BufsTyped DEF Fits, Leaves
  <2>3. Fits(work') /\ Leaves(work', 0)
    BY <2>1, <2>2, AsksBuffer DEF WaitFns
  <2>4. SameHolders
    BY <1>s, <2>1 DEF SameHolders
  <2>. QED BY <2>3, <2>4, BufsTyped, KeepsWork
<1>5. CASE BrNothing
  <2>1. Runs("brTrans") /\ brrt' = Skipped /\ UNCHANGED <<wait_alloc, mac>>
    BY <1>5 DEF BrNothing
  <2>2. timer'.reports = timer.reports
    BY <1>5, <1>0, TimerEdits DEF BrNothing
  <2>3. SameHolders
    BY <1>s, <2>1, <2>2 DEF SameHolders
  <2>4. CASE P = 0
    <3>1. work' = W
      BY <1>5, <2>4 DEF BrNothing
    <3>2. Fits(work') /\ Leaves(work', 0)
      BY <2>1, <2>4, <3>1, HeadFacts, BufsTyped DEF Fits, Leaves
    <3>. QED BY <2>3, <3>2, BufsTyped, KeepsWork
  <2>5. CASE P # 0
    <3>1. P \in Bufs /\ work' = Freed(W, P)
      BY <1>5, <2>1, <2>5, HeadFacts DEF BrNothing
    <3>2. Fits(work') /\ Leaves(work', P) /\ Outside(P) = 0
      BY <2>1, <3>1, HeadFacts, FreesBuffer
    <3>. QED BY <2>3, <3>2, KeepsWork
  <2>. QED BY <2>4, <2>5
<1>. QED BY <1>1, <1>2, <1>3, <1>4, <1>5

\* One place of the retransmission table gets another entry.
LEMMA TableEdit ==
  ASSUME BuffersInv, NEW i \in 1 .. BrrSize, NEW e, DOMAIN brrt' = 1 .. BrrSize, brrt'[i] = e,
         \A j \in 1 .. BrrSize : j # i => brrt'[j].used = brrt[j].used /\ brrt'[j].buf = brrt[j].buf, NEW b \in Bufs
  PROVE  /\ e.used /\ i \notin Used(brrt) =>
              /\ Cardinality(InTable(b)') = Cardinality(InTable(b)) + (IF e.buf = b THEN 1 ELSE 0)
              /\ Used(brrt)' = Used(brrt) \cup {i}
         /\ ~e.used /\ i \in Used(brrt) =>
              /\ Cardinality(InTable(b)') = Cardinality(InTable(b)) - (IF brrt[i].buf = b THEN 1 ELSE 0)
              /\ Used(brrt)' = Used(brrt) \ {i}
         /\ e.used /\ i \in Used(brrt) /\ e.buf = brrt[i].buf => InTable(b)' = InTable(b) /\ Used(brrt)' = Used(brrt)
<1>0. TablesTyped /\ TimersTyped /\ DOMAIN brrt = 1 .. BrrSize
  BY TablesFinite DEF BuffersInv
<1>1. IsFiniteSet(InTable(b)) /\ Cardinality(InTable(b)) \in Nat
  BY <1>0, HoldersCounted
<1>2. /\ brrt'[i] = e /\ DOMAIN brrt' = 1 .. BrrSize
      /\ \A j \in 1 .. BrrSize : j # i => brrt'[j].used = brrt[j].used /\ brrt'[j].buf = brrt[j].buf
  OBVIOUS
<1>3. ASSUME e.used, i \notin Used(brrt)
      PROVE  /\ Cardinality(InTable(b)') = Cardinality(InTable(b)) + (IF e.buf = b THEN 1 ELSE 0)
             /\ Used(brrt)' = Used(brrt) \cup {i}
  <2>1. Used(brrt)' = Used(brrt) \cup {i}
    BY <1>0, <1>2, <1>3 DEF Used
  <2>2. InTable(b)' = IF e.buf = b THEN InTable(b) \cup {i} ELSE InTable(b)
    BY <1>0, <1>2, <1>3, <2>1 DEF InTable, Used
  <2>3. i \notin InTable(b)
    BY <1>3 DEF InTable
  <2>4. Cardinality(InTable(b) \cup {i}) = Cardinality(InTable(b)) + 1
    BY <1>1, <2>3, FS_AddElement
  <2>5. CASE e.buf = b
    <3>1. InTable(b)' = InTable(b) \cup {i}
      BY <2>2, <2>5
    <3>. QED BY <1>1, <2>1, <2>4, <2>5, <3>1
  <2>6. CASE e.buf # b
    <3>1. InTable(b)' = InTable(b)
      BY <2>2, <2>6
    <3>2. Cardinality(InTable(b)) + (IF e.buf = b THEN 1 ELSE 0) = Cardinality(InTable(b))
      BY <1>1, <2>6
    <3>. QED BY <2>1, <3>1, <3>2, Zenon
  <2>. QED BY <2>5, <2>6
<1>4. ASSUME ~e.used, i \in Used(brrt)
      PROVE  /\ Cardinality(InTable(b)') = Cardinality(InTable(b)) - (IF brrt[i].buf = b THEN 1 ELSE 0)
             /\ Used(brrt)' = Used(brrt) \ {i}
  <2>1. Used(brrt)' = Used(brrt) \ {i}
    BY <1>0, <1>2, <1>4 DEF Used
  <2>2. InTable(b)' = InTable(b) \ {i}
    BY <1>0, <1>2, <1>4, <2>1 DEF InTable, Used
  <2>3. i \in InTable(b) <=> brrt[i].buf = b
    BY <1>4 DEF InTable
  <2>4. Cardinality(InTable(b) \ {i}) = IF i \in InTable(b) THEN Cardinality(InTable(b)) - 1 ELSE Cardinality(InTable(b))
    BY <1>1, FS_RemoveElement
  <2>5. CASE brrt[i].buf = b
    <3>1. Cardinality(InTable(b)') = Cardinality(InTable(b)) - 1
      BY <2>2, <2>3, <2>4, <2>5
    <3>. QED BY <1>1, <2>1, <2>5, <3>1
  <2>6. CASE brrt[i].buf # b
    <3>1. Cardinality(InTable(b)') = Cardinality(InTable(b))
      BY <2>2, <2>3, <2>4, <2>6
    <3>2. Cardinality(InTable(b)) - (IF brrt[i].buf = b THEN 1 ELSE 0) = Cardinality(InTable(b))
      BY <1>1, <2>6
    <3>. QED BY <2>1, <3>1, <3>2, Zenon
  <2>. QED BY <2>5, <2>6
<1>5. ASSUME e.used, i \in Used(brrt), e.buf = brrt[i].buf
      PROVE  InTable(b)' = InTable(b) /\ Used(brrt)' = Used(brrt)
  <2>1. Used(brrt)' = Used(brrt)
    BY <1>0, <1>2, <1>5 DEF Used
  <2>. QED BY <1>0, <1>2, <1>5, <2>1 DEF InTable, Used
<1>. QED BY <1>3, <1>4, <1>5

\* The queues outside get a buffer, or give one back.
LEMMA MacPut ==
  ASSUME BuffersInv, NEW p \in Bufs, mac' = Append(mac, p), NEW b \in Bufs
  PROVE  Cardinality(InMac(b)') = Cardinality(InMac(b)) + (IF p = b THEN 1 ELSE 0)
<1>1. InMac(b) = Places(mac, {b}) /\ InMac(b)' = Places(Append(mac, p), {b}) /\ mac \in Seq(Bufs)
  BY DEF InMac, Places, BuffersInv, TablesTyped
<1>2. Cardinality(Places(Append(mac, p), {b})) = Cardinality(Places(mac, {b})) + (IF p \in {b} THEN 1 ELSE 0)
  BY <1>1, CountAppend
<1>. QED BY <1>1, <1>2

LEMMA MacTake ==
  ASSUME BuffersInv, NEW k \in DOMAIN mac, mac' = RemoveAt(mac, k), NEW b \in Bufs
  PROVE  /\ Cardinality(InMac(b)') = Cardinality(InMac(b)) - (IF mac[k] = b THEN 1 ELSE 0)
         /\ mac' \in Seq(Bufs)
         /\ \A i \in DOMAIN mac' : \E j \in DOMAIN mac : mac'[i] = mac[j]
<1>1. InMac(b) = Places(mac, {b}) /\ InMac(b)' = Places(RemoveAt(mac, k), {b}) /\ mac \in Seq(Bufs)
  BY DEF InMac, Places, BuffersInv, TablesTyped
<1>2. Cardinality(Places(RemoveAt(mac, k), {b})) = Cardinality(Places(mac, {b})) - (IF mac[k] \in {b} THEN 1 ELSE 0)
  BY <1>1, CountRemoved
<1>3. /\ mac' \in Seq(Bufs) /\ Len(mac') = Len(mac) - 1
      /\ \A i \in 1 .. Len(mac) - 1 : mac'[i] = IF i < k THEN mac[i] ELSE mac[i + 1]
  BY <1>1, CountRemoved
<1>4. \A i \in DOMAIN mac' : \E j \in DOMAIN mac : mac'[i] = mac[j]
  BY <1>1, <1>3
<1>. QED BY <1>1, <1>2, <1>3, <1>4

LEMMA WaitPut ==
  ASSUME BuffersInv, NEW p \in Bufs, wait_alloc' = Append(wait_alloc, p), NEW b \in Bufs
  PROVE  Cardinality(InWait(b)') = Cardinality(InWait(b)) + (IF p = b THEN 1 ELSE 0)
<1>1. InWait(b) = Places(wait_alloc, {b}) /\ InWait(b)' = Places(Append(wait_alloc, p), {b}) /\ wait_alloc \in Seq(Bufs)
  BY DEF InWait, Places, BuffersInv, TablesTyped
<1>2. Cardinality(Places(Append(wait_alloc, p), {b})) = Cardinality(Places(wait_alloc, {b})) + (IF p \in {b} THEN 1 ELSE 0)
  BY <1>1, CountAppend
<1>. QED BY <1>1, <1>2

LEMMA WaitTake ==
  ASSUME BuffersInv, wait_alloc # <<>>, wait_alloc' = SubSeq(wait_alloc, 1, Len(wait_alloc) - 1), NEW b \in Bufs
  PROVE  /\ Cardinality(InWait(b)') = Cardinality(InWait(b)) - (IF wait_alloc[Len(wait_alloc)] = b THEN 1 ELSE 0)
         /\ wait_alloc' \in Seq(Bufs) /\ Len(wait_alloc') = Len(wait_alloc) - 1 /\ Len(wait_alloc) \in DOMAIN wait_alloc
         /\ \A i \in DOMAIN wait_alloc' : i \in DOMAIN wait_alloc /\ wait_alloc'[i] = wait_alloc[i]
<1>1. /\ InWait(b) = Places(wait_alloc, {b}) /\ InWait(b)' = Places(wait_alloc', {b}) /\ wait_alloc \in Seq(Bufs)
  BY DEF InWait, Places, BuffersInv, TablesTyped
<1>2. /\ wait_alloc' \in Seq(Bufs) /\ Len(wait_alloc') = Len(wait_alloc) - 1
      /\ \A i \in 1 .. Len(wait_alloc) - 1 : wait_alloc'[i] = wait_alloc[i]
      /\ \A T : Cardinality(Places(wait_alloc', T)) = Cardinality(Places(wait_alloc, T)) - (IF wait_alloc[Len(wait_alloc)] \in T THEN 1 ELSE 0)
  BY <1>1, CountFront
<1>3. Cardinality(Places(wait_alloc', {b})) = Cardinality(Places(wait_alloc, {b})) - (IF wait_alloc[Len(wait_alloc)] \in {b} THEN 1 ELSE 0)
  BY <1>2
<1>4. Len(wait_alloc) \in DOMAIN wait_alloc /\ \A i \in DOMAIN wait_alloc' : i \in 1 .. Len(wait_alloc) - 1 /\ i \in DOMAIN wait_alloc
  BY <1>1, <1>2
<1>. QED BY <1>1, <1>2, <1>3, <1>4

LEMMA ReportPut ==
  ASSUME BuffersInv, NEW p \in Bufs, timer'.reports = Append(timer.reports, [b |-> p, t |-> ReportDelay]), NEW b \in Bufs
  PROVE  Cardinality(InReports(b)') = Cardinality(InReports(b)) + (IF p = b THEN 1 ELSE 0)
<1>. DEFINE T == [b : {b}, t : Nat]
            e == [b |-> p, t |-> ReportDelay]
            S == [b : Bufs, t : Nat]
<1>1. InReports(b) = Places(timer.reports, T) /\ timer.reports \in Seq(S)
  BY HoldersCounted, ReportsTyped DEF BuffersInv
<1>2. e \in S /\ (e \in T <=> p = b)
  BY Consts
<1>3. InReports(b)' = Places(timer'.reports, T)
  <2>1. timer'.reports \in Seq(S)
    BY <1>1, <1>2
  <2>2. \A i \in DOMAIN timer'.reports : timer'.reports[i] \in S
    BY <2>1, SeqElements, Zenon
  <2>3. \A r \in S : r.b = b <=> r \in T
    OBVIOUS
  <2>. QED BY <2>2, <2>3, Zenon DEF InReports, Places
<1>. HIDE DEF T, e, S
<1>4. Cardinality(Places(Append(timer.reports, e), T)) = Cardinality(Places(timer.reports, T)) + (IF e \in T THEN 1 ELSE 0)
  BY <1>1, <1>2, CountAppend
<1>5. timer'.reports = Append(timer.reports, e)
  BY DEF e
<1>. QED BY <1>1, <1>2, <1>3, <1>4, <1>5

LEMMA HeadOfSeq ==
  ASSUME NEW S, NEW q \in Seq(S), q # <<>>
  PROVE  Head(q) \in S /\ 1 \in DOMAIN q /\ Head(q) = q[1] /\ Tail(q) \in Seq(S)
OBVIOUS

LEMMA ReportTake ==
  ASSUME BuffersInv, timer.reports # <<>>, timer'.reports = Tail(timer.reports), NEW b \in Bufs
  PROVE  /\ Cardinality(InReports(b)') = Cardinality(InReports(b)) - (IF Head(timer.reports).b = b THEN 1 ELSE 0)
         /\ Head(timer.reports).b \in Bufs /\ 1 \in DOMAIN timer.reports /\ Head(timer.reports) = timer.reports[1]
<1>. DEFINE T == [b : {b}, t : Nat]
            q == timer.reports
<1>1. InReports(b) = Places(q, T) /\ q \in Seq([b : Bufs, t : Nat])
  BY HoldersCounted, ReportsTyped DEF BuffersInv
<1>2. Head(q) \in [b : Bufs, t : Nat] /\ 1 \in DOMAIN q /\ Head(q) = q[1] /\ Tail(q) \in Seq([b : Bufs, t : Nat])
  BY <1>1, HeadOfSeq, Zenon
<1>3. InReports(b)' = Places(Tail(q), T)
  <2>2. \A i \in DOMAIN Tail(q) : Tail(q)[i] \in [b : Bufs, t : Nat]
    BY <1>2, SeqElements, Zenon
  <2>3. \A r \in [b : Bufs, t : Nat] : r.b = b <=> r \in T
    OBVIOUS
  <2>. QED BY <2>2, <2>3, Zenon DEF InReports, Places
<1>4. Cardinality(Places(Tail(q), T)) = Cardinality(Places(q, T)) - (IF Head(q) \in T THEN 1 ELSE 0)
  BY <1>1, CountTail
<1>5. Head(q) \in T <=> Head(q).b = b
  BY <1>2
<1>. HIDE DEF T
<1>. QED BY <1>1, <1>2, <1>3, <1>4, <1>5

LEMMA MovesWork ==
  ASSUME BuffersInv, WellMade(work'), \A x \in Bufs : Rest(work', x) = Outside(x)', FramesHeld'
  PROVE  WorkInv'
<1>1. WellMade(work)'
  BY DEF WellMade, WorkTyped, CallsMeant
<1>2. Owned'
  BY DEF Owned, Rest, Want, Calling
<1>. QED BY <1>1, <1>2 DEF WorkInv

\* A buffer with a holder outside is not called for.
LEMMA Uncalled ==
  ASSUME NEW v, WellMade(v), NEW b \in Bufs, Rest(v, b) = 1
  PROVE  Calling(v, b) = {} /\ v.buf[b].kind \notin {"free", "lost"}
<1>1. Cardinality(Calling(v, b)) \in Nat /\ (Cardinality(Calling(v, b)) = 0 <=> Calling(v, b) = {})
  BY CallingPlaces DEF WellMade, WorkTyped
<1>. QED BY <1>1 DEF Rest, Want

LEMMA FillsBuffer ==
  ASSUME BuffersInv, NEW g, Runs(g), P \in Bufs, NEW c, Content(c), c.kind \notin {"free", "lost"}
  PROVE  /\ WellMade(Filled(W, P, c)) /\ Filled(W, P, c).buf[P] = c
         /\ \A x \in Bufs : x # P => Filled(W, P, c).buf[x] = work.buf[x]
         /\ \A x \in Bufs : Rest(Filled(W, P, c), x) = IF x = P THEN 1 ELSE Outside(x)
<1>1. /\ WellMade(W) /\ W.buf = work.buf /\ Calling(W, P) = {}
      /\ \A x \in Bufs : Rest(W, x) = IF x = P THEN 1 ELSE Outside(x)
  BY HeadFacts
<1>2. /\ WellMade(Filled(W, P, c)) /\ Filled(W, P, c).buf[P] = c /\ \A x \in Bufs : x # P => Filled(W, P, c).buf[x] = W.buf[x]
      /\ \A x \in Bufs : Rest(Filled(W, P, c), x) =
           IF x = P THEN (IF c.kind \in {"free", "lost"} THEN 0 ELSE 1) - Cardinality(Calling(W, x)) ELSE Rest(W, x)
  BY <1>1, FilledFacts
<1>3. Cardinality(Calling(W, P)) = 0
  BY <1>1, FS_EmptySet
<1>. QED BY <1>1, <1>2, <1>3

LEMMA Unchanged ==
  ASSUME NEW x
  PROVE  /\ brrt' = brrt => InTable(x)' = InTable(x)
         /\ wait_alloc' = wait_alloc => InWait(x)' = InWait(x)
         /\ timer'.reports = timer.reports => InReports(x)' = InReports(x)
         /\ mac' = mac => InMac(x)' = InMac(x)
BY DEF InTable, Used, InWait, InReports, InMac

LEMMA RequestWork ==
  ASSUME BuffersInv, DataRequest
  PROVE  WorkInv'
<1>1. Runs("dataReq") /\ mac' = Append(mac, P) /\ work' = W /\ UNCHANGED <<brrt, wait_alloc, timer>>
  BY DEF DataRequest, tables
<1>2. /\ WellMade(W) /\ W.buf = work.buf /\ P \in Bufs /\ IsFrame(work.buf[P]) /\ Outside(P) = 0
      /\ \A x \in Bufs : Rest(W, x) = IF x = P THEN 1 ELSE Outside(x)
  BY <1>1, HeadFacts DEF FrameFns, F
<1>3. \A x \in Bufs : Outside(x)' = Outside(x) + (IF P = x THEN 1 ELSE 0)
  <2>. TAKE x \in Bufs
  <2>1. Cardinality(InMac(x)') = Cardinality(InMac(x)) + (IF P = x THEN 1 ELSE 0)
    BY <1>1, <1>2, MacPut
  <2>2. InTable(x)' = InTable(x) /\ InWait(x)' = InWait(x) /\ InReports(x)' = InReports(x)
    BY <1>1, Unchanged
  <2>3. /\ Cardinality(InTable(x)) \in Nat /\ Cardinality(InWait(x)) \in Nat /\ Cardinality(InReports(x)) \in Nat
        /\ Cardinality(InMac(x)) \in Nat
    BY HoldersCounted DEF BuffersInv
  <2>. QED BY <2>1, <2>2, <2>3 DEF Outside
<1>4. FramesHeld'
  <2>1. \A i \in DOMAIN mac' : IsFrame(work'.buf[mac'[i]])
    <3>. TAKE i \in DOMAIN mac'
    <3>1. mac \in Seq(Bufs)
      BY DEF BuffersInv, TablesTyped
    <3>2. mac'[i] = P \/ (i \in DOMAIN mac /\ mac'[i] = mac[i])
      BY <1>1, <3>1
    <3>. QED BY <1>1, <1>2, <3>2 DEF BuffersInv, WorkInv, FramesHeld
  <2>. QED BY <1>1, <1>2, <2>1 DEF BuffersInv, WorkInv, FramesHeld, Used
<1>5. \A x \in Bufs : Rest(work', x) = Outside(x)'
  <2>. TAKE x \in Bufs
  <2>1. Outside(x) \in Nat
    BY HoldersCounted DEF BuffersInv
  <2>. QED BY <1>1, <1>2, <1>3, <2>1
<1>. QED BY <1>1, <1>2, <1>4, <1>5, MovesWork

LEMMA MacDoneWork ==
  ASSUME BuffersInv, NEW b \in Bufs, MacDone(b)
  PROVE  WorkInv'
<1>1. PICK k \in DOMAIN mac : mac[k] = b /\ mac' = RemoveAt(mac, k)
  BY DEF MacDone
<1>2. UNCHANGED <<brrt, wait_alloc, timer>>
  BY DEF MacDone, tables
<1>3. PICK c : /\ DOMAIN c = FrameFields /\ IsFrame(c) /\ Content(c) /\ c.kind \notin {"free", "lost"}
               /\ (work' = Called(work, "dataConf", b) /\ c = work.buf[b]) \/ work' = Called(Filled(work, b, c), "dataConf", b)
  <2>1. IsFrame(work.buf[b]) /\ DOMAIN work.buf[b] = FrameFields
    BY <1>1 DEF BuffersInv, WorkInv, FramesHeld, WellMade, WorkTyped, Content
  <2>2. CASE work' = Called(work, "dataConf", b)
    BY <2>1, <2>2, FrameFacts
  <2>3. CASE work' = Called(Filled(work, b, [work.buf[b] EXCEPT !.st = "fail"]), "dataConf", b)
    <3>. DEFINE c == [work.buf[b] EXCEPT !.st = "fail"]
    <3>1. DOMAIN c = FrameFields /\ IsFrame(c) /\ Content(c) /\ c.kind \notin {"free", "lost"}
      BY <2>1, FrameEdit DEF FrameFields
    <3>. QED BY <2>3, <3>1
  <2>. QED BY <2>2, <2>3 DEF MacDone
<1>4. /\ WellMade(work) /\ Outside(b) = 1 /\ Calling(work, b) = {} /\ IsFrame(work.buf[b])
      /\ \A x \in Bufs : Rest(work, x) = Outside(x)
  <2>1. Outside(b) # 0
    BY <1>1, HeldOutside
  <2>2. Outside(b) = 1 /\ Calling(work, b) = {}
    BY <2>1, OneHolder
  <2>. QED BY <2>2, <1>1 DEF BuffersInv, WorkInv, Owned, FramesHeld
<1>5. PICK u : /\ WellMade(u) /\ u.buf[b] = c /\ (\A x \in Bufs : x # b => u.buf[x] = work.buf[x])
               /\ (\A x \in Bufs : Rest(u, x) = Outside(x)) /\ work' = Called(u, "dataConf", b)
  <2>1. CASE work' = Called(work, "dataConf", b) /\ c = work.buf[b]
    BY <1>4, <2>1
  <2>2. CASE work' = Called(Filled(work, b, c), "dataConf", b)
    <3>1. /\ WellMade(Filled(work, b, c)) /\ Filled(work, b, c).buf[b] = c
          /\ \A x \in Bufs : x # b => Filled(work, b, c).buf[x] = work.buf[x]
          /\ \A x \in Bufs : Rest(Filled(work, b, c), x) =
               IF x = b THEN (IF c.kind \in {"free", "lost"} THEN 0 ELSE 1) - Cardinality(Calling(work, x)) ELSE Rest(work, x)
      BY <1>3, <1>4, FilledFacts
    <3>2. Cardinality(Calling(work, b)) = 0
      BY <1>4, FS_EmptySet
    <3>3. \A x \in Bufs : Rest(Filled(work, b, c), x) = Outside(x)
      BY <1>3, <1>4, <3>1, <3>2
    <3>. QED BY <2>2, <3>1, <3>3
  <2>. QED BY <1>3, <2>1, <2>2
<1>6. /\ WellMade(work') /\ work'.buf = u.buf
      /\ \A x \in Bufs : Rest(work', x) = IF x = b THEN Outside(x) - 1 ELSE Outside(x)
  <2>1. "dataConf" \in Fns /\ b # 0
    BY BufsTyped DEF Fns
  <2>2. /\ WellMade(Called(u, "dataConf", b)) /\ Called(u, "dataConf", b).buf = u.buf
        /\ \A x \in Bufs : Rest(Called(u, "dataConf", b), x) = IF x = b THEN Rest(u, x) - 1 ELSE Rest(u, x)
    BY <1>3, <1>5, <2>1, CalledFacts
  <2>. QED BY <1>5, <2>2
<1>7. \A x \in Bufs : Rest(work', x) = Outside(x)'
  <2>. TAKE x \in Bufs
  <2>1. Cardinality(InMac(x)') = Cardinality(InMac(x)) - (IF b = x THEN 1 ELSE 0)
    BY <1>1, MacTake
  <2>2. InTable(x)' = InTable(x) /\ InWait(x)' = InWait(x) /\ InReports(x)' = InReports(x)
    BY <1>2, Unchanged
  <2>3. /\ Cardinality(InTable(x)) \in Nat /\ Cardinality(InWait(x)) \in Nat /\ Cardinality(InReports(x)) \in Nat
        /\ Cardinality(InMac(x)) \in Nat
    BY HoldersCounted DEF BuffersInv
  <2>4. Outside(x)' = Outside(x) - (IF b = x THEN 1 ELSE 0)
    BY <2>1, <2>2, <2>3 DEF Outside
  <2>5. Outside(x) \in Nat
    BY HoldersCounted DEF BuffersInv
  <2>. QED BY <1>6, <2>4, <2>5
<1>8. FramesHeld'
  <2>1. \A x \in Bufs : IsFrame(work.buf[x]) => IsFrame(work'.buf[x])
    BY <1>3, <1>5, <1>6
  <2>2. \A i \in DOMAIN mac' : \E j \in DOMAIN mac : mac'[i] = mac[j]
    BY <1>1, MacTake
  <2>. QED BY <1>2, <2>1, <2>2, HeldOutside DEF BuffersInv, WorkInv, FramesHeld, Used
<1>. QED BY <1>6, <1>7, <1>8, MovesWork

LEMMA OnlyOutside ==
  ASSUME TablesTyped, TimersTyped, NEW b \in Bufs, Outside(b) = 1
  PROVE  /\ InReports(b) # {} => InTable(b) = {} /\ InWait(b) = {} /\ InMac(b) = {}
         /\ InWait(b) # {} => InTable(b) = {} /\ InReports(b) = {} /\ InMac(b) = {} /\ Cardinality(InWait(b)) = 1
         /\ InTable(b) # {} => InWait(b) = {} /\ InReports(b) = {} /\ InMac(b) = {} /\ Cardinality(InTable(b)) = 1
<1>. DEFINE p == Cardinality(InTable(b))
            q == Cardinality(InWait(b))
            r == Cardinality(InReports(b))
            s == Cardinality(InMac(b))
<1>1. p \in Nat /\ q \in Nat /\ r \in Nat /\ s \in Nat /\ p + q + r + s = 1
  BY HoldersCounted DEF Outside
<1>2. /\ (p = 0 <=> InTable(b) = {}) /\ (q = 0 <=> InWait(b) = {}) /\ (r = 0 <=> InReports(b) = {}) /\ (s = 0 <=> InMac(b) = {})
  BY HoldersCounted, FS_EmptySet
<1>3. \A x, y, z, w \in Nat : x + y + z + w = 1 =>
        /\ z # 0 => x = 0 /\ y = 0 /\ w = 0
        /\ y # 0 => x = 0 /\ z = 0 /\ w = 0 /\ y = 1
        /\ x # 0 => y = 0 /\ z = 0 /\ w = 0 /\ x = 1
  OBVIOUS
<1>. HIDE DEF p, q, r, s
<1>4. /\ r # 0 => p = 0 /\ q = 0 /\ s = 0
      /\ q # 0 => p = 0 /\ r = 0 /\ s = 0 /\ q = 1
      /\ p # 0 => q = 0 /\ r = 0 /\ s = 0 /\ p = 1
  BY <1>1, <1>3, Zenon
<1>. QED BY <1>2, <1>4 DEF p, q

LEMMA ReportWork ==
  ASSUME BuffersInv, BeaconIndication \/ SendNetworkReport
  PROVE  WorkInv'
<1>. USE DEF tables, base
<1>0. TimersTyped
  BY DEF BuffersInv
<1>1. CASE BeaconIndication
  <2>1. Runs("beaconInd") /\ P \in Bufs /\ UNCHANGED <<brrt, wait_alloc, mac>>
    BY <1>1, HeadFacts DEF BeaconIndication
  <2>2. CASE work' = Freed(W, P) /\ timer' = timer
    BY <2>1, <2>2, FreeingWork
  <2>3. CASE Announce(P, ConflictAtManager(pc))
    BY <2>1, <2>3, AnnounceWork
  <2>4. CASE work' = W /\ timer' = [timer EXCEPT !.reports = Append(@, [b |-> P, t |-> ReportDelay])]
    <3>1. /\ WellMade(W) /\ W.buf = work.buf /\ Outside(P) = 0
          /\ \A x \in Bufs : Rest(W, x) = IF x = P THEN 1 ELSE Outside(x)
      BY <2>1, HeadFacts
    <3>2. timer'.reports = Append(timer.reports, [b |-> P, t |-> ReportDelay])
      BY <2>4, <1>0, TimerEdits, Zenon
    <3>3. \A x \in Bufs : Rest(work', x) = Outside(x)'
      <4>. TAKE x \in Bufs
      <4>1. Cardinality(InReports(x)') = Cardinality(InReports(x)) + (IF P = x THEN 1 ELSE 0)
        BY <2>1, <3>2, ReportPut
      <4>2. InTable(x)' = InTable(x) /\ InWait(x)' = InWait(x) /\ InMac(x)' = InMac(x)
        BY <2>1, Unchanged
      <4>3. /\ Cardinality(InTable(x)) \in Nat /\ Cardinality(InWait(x)) \in Nat /\ Cardinality(InReports(x)) \in Nat
            /\ Cardinality(InMac(x)) \in Nat /\ Outside(x) \in Nat
        BY HoldersCounted DEF BuffersInv
      <4>4. Outside(x)' = Outside(x) + (IF P = x THEN 1 ELSE 0)
        BY <4>1, <4>2, <4>3 DEF Outside
      <4>. QED BY <2>4, <3>1, <4>3, <4>4
    <3>4. FramesHeld'
      BY <2>1, <2>4, <3>1 DEF BuffersInv, WorkInv, FramesHeld, Used
    <3>. QED BY <2>4, <3>1, <3>3, <3>4, MovesWork
  <2>. QED BY <1>1, <2>2, <2>3, <2>4 DEF BeaconIndication
<1>2. CASE SendNetworkReport
  <2>. DEFINE b == Head(timer.reports).b
  <2>1. timer.reports # <<>> /\ timer' = [timer EXCEPT !.reports = Tail(timer.reports)] /\ UNCHANGED <<brrt, wait_alloc, mac>>
    BY <1>2 DEF SendNetworkReport
  <2>2. timer'.reports = Tail(timer.reports)
    BY <2>1, <1>0, TimerEdits, Zenon
  <2>3. /\ b \in Bufs /\ 1 \in DOMAIN timer.reports /\ Head(timer.reports) = timer.reports[1]
        /\ \A x \in Bufs : Cardinality(InReports(x)') = Cardinality(InReports(x)) - (IF b = x THEN 1 ELSE 0)
    <3>1. Bufs # {}
      <4>1. 1 \in 1 .. NIn + NOut
        BY Consts
      <4>. QED BY <4>1 DEF Bufs
    <3>. QED BY <2>1, <2>2, <3>1, ReportTake
  <2>4. Outside(b) = 1 /\ Calling(work, b) = {} /\ WellMade(work) /\ \A x \in Bufs : Rest(work, x) = Outside(x)
    <3>1. Outside(b) # 0
      BY <2>3, HeldOutside
    <3>. QED BY <2>3, <3>1, OneHolder DEF BuffersInv, WorkInv, Owned
  <2>. HIDE DEF b
  <2>5. \A x \in Bufs : Outside(x)' = IF x = b THEN 0 ELSE Outside(x)
    <3>. TAKE x \in Bufs
    <3>1. InTable(x)' = InTable(x) /\ InWait(x)' = InWait(x) /\ InMac(x)' = InMac(x)
      BY <2>1, Unchanged
    <3>2. /\ Cardinality(InTable(x)) \in Nat /\ Cardinality(InWait(x)) \in Nat /\ Cardinality(InReports(x)) \in Nat
          /\ Cardinality(InMac(x)) \in Nat /\ Outside(x) \in Nat
      BY HoldersCounted DEF BuffersInv
    <3>3. Outside(x)' = Outside(x) - (IF b = x THEN 1 ELSE 0)
      BY <2>3, <3>1, <3>2 DEF Outside
    <3>. QED BY <2>4, <3>2, <3>3
  <2>6. WellMade(work') /\ Leaves(work', b) /\ \A x \in Bufs : Rest(work', x) = Outside(x)'
    <3>1. CASE work' = Freed(work, b)
      <4>1. /\ WellMade(Freed(work, b)) /\ \A x \in Bufs : Rest(Freed(work, b), x) = IF x = b THEN 0 ELSE Rest(work, x)
            /\ \A x \in Bufs : x # b => Freed(work, b).buf[x] = work.buf[x]
        BY <2>3, <2>4, FreedFacts
      <4>. QED BY <2>4, <2>5, <3>1, <4>1 DEF Leaves
    <3>2. ASSUME NEW c, Content(c), c.kind \notin {"free", "lost"}, IsFrame(c),
                 work' = Called(Filled(work, b, c), "forward", b)
          PROVE  WellMade(work') /\ Leaves(work', b) /\ \A x \in Bufs : Rest(work', x) = Outside(x)'
      <4>. DEFINE u == Filled(work, b, c)
      <4>1. /\ WellMade(u) /\ u.buf[b] = c /\ \A x \in Bufs : x # b => u.buf[x] = work.buf[x]
            /\ \A x \in Bufs : Rest(u, x) =
                 IF x = b THEN (IF c.kind \in {"free", "lost"} THEN 0 ELSE 1) - Cardinality(Calling(work, x)) ELSE Rest(work, x)
        BY <2>3, <2>4, <3>2, FilledFacts
      <4>2. Cardinality(Calling(work, b)) = 0
        BY <2>4, FS_EmptySet
      <4>3. \A x \in Bufs : Rest(u, x) = IF x = b THEN 1 ELSE Rest(work, x)
        BY <3>2, <4>1, <4>2
      <4>. HIDE DEF u
      <4>4. b # 0 /\ "forward" \in Fns
        BY <2>3, BufsTyped DEF Fns
      <4>5. /\ WellMade(Called(u, "forward", b)) /\ Called(u, "forward", b).buf = u.buf
            /\ \A x \in Bufs : Rest(Called(u, "forward", b), x) = IF x = b THEN Rest(u, x) - 1 ELSE Rest(u, x)
        BY <2>3, <3>2, <4>1, <4>4, CalledFacts
      <4>6. work' = Called(u, "forward", b)
        BY <3>2 DEF u
      <4>7. \A x \in Bufs : Rest(work', x) = Outside(x)'
        BY <2>4, <2>5, <4>3, <4>5, <4>6
      <4>. QED BY <4>1, <4>5, <4>6, <4>7 DEF Leaves
    <3>. DEFINE h == Header(attr["ManagerAddr"], "report", 2 * attr["MaxDepth"], [ours |-> TRUE, ids |-> ReportCmd(pc)])
    <3>3. work' = Freed(work, b) \/ work' = Called(Filled(work, b, h), "forward", b)
      BY <1>2 DEF SendNetworkReport, b
    <3>4. Content(h) /\ h.kind \notin {"free", "lost"} /\ IsFrame(h)
      BY HeaderFrame DEF Kinds
    <3>. HIDE DEF h
    <3>. QED BY <3>1, <3>2, <3>3, <3>4
  <2>7. FramesHeld'
    <3>0. InReports(b) # {} /\ TablesTyped
      BY <2>3 DEF InReports, b, BuffersInv
    <3>4. InTable(b) = {} /\ InWait(b) = {} /\ InMac(b) = {}
      BY <1>0, <2>3, <2>4, <3>0, OnlyOutside
    <3>1. \A i \in Used(brrt) : brrt[i].buf # b
      BY <3>4 DEF InTable
    <3>2. \A i \in DOMAIN wait_alloc : wait_alloc[i] # b
      BY <3>4 DEF InWait
    <3>3. \A i \in DOMAIN mac : mac[i] # b
      BY <3>4 DEF InMac
    <3>. QED BY <2>1, <2>6, <3>1, <3>2, <3>3, HeldOutside DEF FramesHeld, Leaves, BuffersInv, WorkInv, Used
  <2>. QED BY <2>6, <2>7, MovesWork
<1>. QED BY <1>1, <1>2

\* Places of the tables.
LEMMA BrrHole ==
  ASSUME BuffersInv, brrt_cnt < BrrSize
  PROVE  Min(Holes(brrt)) \in 1 .. BrrSize /\ Min(Holes(brrt)) \notin Used(brrt)
<1>1. /\ DOMAIN brrt = 1 .. BrrSize /\ Used(brrt) \subseteq 1 .. BrrSize /\ brrt_cnt = Cardinality(Used(brrt))
  BY TablesFinite DEF BuffersInv, TablesTyped
<1>2. Holes(brrt) # {}
  <2>1. Cardinality(1 .. BrrSize) = BrrSize
    BY Consts, FS_Interval
  <2>2. Used(brrt) # 1 .. BrrSize
    BY <1>1, <2>1, Consts
  <2>. QED BY <1>1, <2>2 DEF Holes
<1>3. Holes(brrt) \in SUBSET Nat
  BY <1>1 DEF Holes
<1>4. Min(Holes(brrt)) \in Holes(brrt)
  BY <1>2, <1>3, MinIn
<1>. QED BY <1>1, <1>4 DEF Holes

LEMMA BttHole ==
  ASSUME BuffersInv, Holes(btt) # {}
  PROVE  Min(Holes(btt)) \in 1 .. BtrSize /\ Min(Holes(btt)) \notin Used(btt)
<1>1. DOMAIN btt = 1 .. BtrSize
  BY TablesFinite DEF BuffersInv
<1>2. Holes(btt) \in SUBSET Nat
  BY <1>1 DEF Holes
<1>3. Min(Holes(btt)) \in Holes(btt)
  BY <1>2, MinIn
<1>. QED BY <1>1, <1>3 DEF Holes

LEMMA ForwardWork ==
  ASSUME BuffersInv, ForwardBroadcast
  PROVE  WorkInv'
<1>. USE DEF tables, base
<1>0. TimersTyped /\ TablesTyped /\ DOMAIN brrt = 1 .. BrrSize
  BY TablesFinite DEF BuffersInv
<1>1. /\ Runs("forward") /\ P \in Bufs /\ IsFrame(F) /\ DOMAIN F = FrameFields /\ Outside(P) = 0
      /\ UNCHANGED <<wait_alloc, mac>>
  BY HeadFacts DEF ForwardBroadcast, FrameFns
<1>. DEFINE t == IF btt' = btt THEN timer ELSE StartExpiry(timer, btt_cnt')
<1>2. t.reports = timer.reports /\ [t EXCEPT !.br = -1].reports = timer.reports
  <2>1. t.reports = timer.reports
    BY <1>0, TimerEdits
  <2>2. DOMAIN t = DOMAIN timer
    BY DEF StartExpiry
  <2>. HIDE DEF t
  <2>3. \A x : [t EXCEPT !.br = x].reports = t.reports
    BY <2>2, <1>0 DEF TimersTyped
  <2>. QED BY <2>1, <2>3
<1>3. CASE ~(brrt_cnt < BrrSize)
  <2>1. work' = Freed(W, P) /\ timer' = t /\ brrt' = brrt
    BY <1>3 DEF ForwardBroadcast
  <2>. HIDE DEF t
  <2>. QED BY <1>1, <1>2, <2>1, FreeingWork
<1>4. CASE brrt_cnt < BrrSize
  <2>. DEFINE i == Min(Holes(brrt))
              c == [F EXCEPT !.mdst = All]
              u == Filled(W, P, c)
              e == BrrEnt(P, F)
  <2>1. /\ brrt' = [brrt EXCEPT ![i] = e] /\ timer' = [t EXCEPT !.br = -1]
        /\ work' = Asked(u, "out", "brTrans")
    BY <1>4 DEF ForwardBroadcast
  <2>. HIDE DEF t
  <2>2. i \in 1 .. BrrSize /\ i \notin Used(brrt) /\ e.used /\ e.buf = P
    BY <1>4, BrrHole DEF BrrEnt
  <2>3. IsFrame(c) /\ Content(c) /\ c.kind \notin {"free", "lost"}
    BY <1>1, FrameEdit DEF FrameFields
  <2>. HIDE DEF i, c, u, e
  <2>4. /\ WellMade(u) /\ u.buf[P] = c /\ \A x \in Bufs : x # P => u.buf[x] = work.buf[x]
        /\ \A x \in Bufs : Rest(u, x) = IF x = P THEN 1 ELSE Outside(x)
    BY <1>1, <2>3, FillsBuffer DEF u
  <2>5. /\ WellMade(work') /\ (\A x \in Bufs : Rest(work', x) = Rest(u, x))
        /\ \A x \in Bufs : u.buf[x] # NoBuf => work'.buf[x] = u.buf[x]
    BY <2>1, <2>4, AskedFacts DEF WaitFns
  <2>6. \A x \in Bufs : Cardinality(InTable(x)') = Cardinality(InTable(x)) + (IF P = x THEN 1 ELSE 0) /\ Used(brrt)' = Used(brrt) \cup {i}
    <3>. TAKE x \in Bufs
    <3>1. DOMAIN brrt' = 1 .. BrrSize /\ brrt'[i] = e /\ \A j \in 1 .. BrrSize : j # i => brrt'[j] = brrt[j]
      BY <1>0, <2>1, <2>2
    <3>. QED BY <2>2, <3>1, TableEdit
  <2>7. \A x \in Bufs : Rest(work', x) = Outside(x)'
    <3>. TAKE x \in Bufs
    <3>1. InWait(x)' = InWait(x) /\ InReports(x)' = InReports(x) /\ InMac(x)' = InMac(x)
      BY <1>1, <1>2, <2>1, Unchanged
    <3>2. /\ Cardinality(InTable(x)) \in Nat /\ Cardinality(InWait(x)) \in Nat /\ Cardinality(InReports(x)) \in Nat
          /\ Cardinality(InMac(x)) \in Nat /\ Outside(x) \in Nat
      BY HoldersCounted DEF BuffersInv
    <3>3. Outside(x)' = Outside(x) + (IF P = x THEN 1 ELSE 0)
      BY <2>6, <3>1, <3>2 DEF Outside
    <3>. QED BY <1>1, <2>4, <2>5, <3>2, <3>3
  <2>8. FramesHeld'
    <3>1. \A x \in Bufs : IsFrame(work.buf[x]) => IsFrame(work'.buf[x])
      BY <2>3, <2>4, <2>5, KindsApart
    <3>2. IsFrame(work'.buf[P])
      BY <1>1, <2>3, <2>4, <2>5, KindsApart
    <3>3. \A j \in Used(brrt)' : IsFrame(work'.buf[brrt'[j].buf])
      <4>. TAKE j \in Used(brrt)'
      <4>1. j = i \/ (j \in Used(brrt) /\ j # i)
        BY <1>1, <2>6
      <4>2. CASE j = i
        BY <4>2, <3>2, <2>1, <2>2, <1>0
      <4>3. CASE j \in Used(brrt) /\ j # i
        BY <4>3, <3>1, <2>1, HeldOutside DEF BuffersInv, WorkInv, FramesHeld
      <4>. QED BY <4>1, <4>2, <4>3
    <3>. QED BY <1>1, <3>1, <3>3, HeldOutside DEF BuffersInv, WorkInv, FramesHeld
  <2>. QED BY <2>5, <2>7, <2>8, MovesWork
<1>. QED BY <1>3, <1>4

\* Retransmission: the entry chosen is in use, and keeps its buffer.
LEMMA SkippedFacts ==
  ASSUME TablesTyped
  PROVE  /\ DOMAIN Skipped = 1 .. BrrSize
         /\ \A i \in 1 .. BrrSize : /\ DOMAIN Skipped[i] = BrrFields /\ Skipped[i].used = brrt[i].used /\ Skipped[i].buf = brrt[i].buf
                                    /\ Skipped[i].due = brrt[i].due
<1>1. DOMAIN brrt = 1 .. BrrSize /\ \A i \in 1 .. BrrSize : DOMAIN brrt[i] = BrrFields
  BY TablesFinite DEF TablesTyped
<1>2. DOMAIN Skipped = 1 .. BrrSize /\ \A i \in 1 .. BrrSize :
        Skipped[i] = IF i \in PassedOver THEN [brrt[i] EXCEPT !.it = NextZeChild(brrt[i].dst, @ + 1)] ELSE brrt[i]
  BY <1>1 DEF Skipped
<1>. QED BY <1>1, <1>2 DEF BrrFields

LEMMA ServedFacts ==
  ASSUME NEW e, DOMAIN e = BrrFields, e.due \in Nat, NEW child
  PROVE  LET s == Served(e, child) IN DOMAIN s = BrrFields /\ s.used = e.used /\ s.buf = e.buf /\ s.due \in Nat
BY Consts DEF Served, BrrFields

LEMMA ChosenFacts ==
  ASSUME TablesTyped, Chosen.i # 0
  PROVE  Chosen.i \in Used(brrt) /\ Chosen.i \in 1 .. BrrSize
<1>1. Used(brrt) \subseteq 1 .. BrrSize
  BY TablesFinite
<1>2. /\ NewOnes \in SUBSET Nat /\ ToChildren \in SUBSET Nat /\ DueOnes \in SUBSET Nat
      /\ NewOnes \subseteq Used(brrt) /\ ToChildren \subseteq Used(brrt) /\ DueOnes \subseteq Used(brrt)
  BY <1>1 DEF NewOnes, ToChildren, WithChildren, DueOnes
<1>3. /\ NewOnes # {} => Min(NewOnes) \in NewOnes
      /\ ToChildren # {} => Min(ToChildren) \in ToChildren
      /\ DueOnes # {} => Min(DueOnes) \in DueOnes
  BY <1>2, MinIn
<1>4. Chosen.i \in Used(brrt)
  BY <1>2, <1>3 DEF Chosen
<1>. QED BY <1>1, <1>4

LEMMA AgainFacts ==
  ASSUME NEW v, WellMade(v), NEW cnt
  PROVE  /\ WellMade(BrAgain(v, cnt)) /\ BrAgain(v, cnt).buf = v.buf
         /\ \A x \in Bufs : Rest(BrAgain(v, cnt), x) = Rest(v, x)
<1>1. "brTrans" \in Fns /\ "brTrans" \notin FrameFns /\ 0 \in Bufs \cup {0}
  BY DEF Fns, FrameFns
<1>2. /\ WellMade(Called(v, "brTrans", 0)) /\ Called(v, "brTrans", 0).buf = v.buf
      /\ \A x \in Bufs : Rest(Called(v, "brTrans", 0), x) = IF x = 0 THEN Rest(v, x) - 1 ELSE Rest(v, x)
  BY <1>1, CalledFacts
<1>. QED BY <1>2, BufsTyped DEF BrAgain

\* A function is called with a buffer that an entry gives up.
LEMMA GivenUp ==
  ASSUME BuffersInv, NEW i \in Used(brrt), NEW e, ~e.used, DOMAIN brrt' = 1 .. BrrSize, brrt'[i] = e,
         \A j \in 1 .. BrrSize : j # i => brrt'[j].used = brrt[j].used /\ brrt'[j].buf = brrt[j].buf
  PROVE  /\ \A x \in Bufs : Cardinality(InTable(x)') = Cardinality(InTable(x)) - (IF brrt[i].buf = x THEN 1 ELSE 0)
         /\ Used(brrt)' = Used(brrt) \ {i}
         /\ Outside(brrt[i].buf) = 1 /\ brrt[i].buf \in Bufs /\ IsFrame(work.buf[brrt[i].buf])
<1>1. i \in 1 .. BrrSize
  BY TablesFinite DEF BuffersInv
<1>2. \A x \in Bufs : /\ Cardinality(InTable(x)') = Cardinality(InTable(x)) - (IF brrt[i].buf = x THEN 1 ELSE 0)
                      /\ Used(brrt)' = Used(brrt) \ {i}
  BY <1>1, TableEdit
<1>3. brrt[i].buf \in Bufs /\ Outside(brrt[i].buf) # 0
  BY HeldOutside
<1>4. Outside(brrt[i].buf) = 1
  BY <1>3, OneHolder
<1>. QED BY <1>2, <1>3, <1>4 DEF BuffersInv, WorkInv, FramesHeld

LEMMA TransmitWork ==
  ASSUME BuffersInv, BrTransmit
  PROVE  WorkInv'
<1>. USE DEF tables, base
<1>0. TimersTyped /\ TablesTyped /\ DOMAIN brrt = 1 .. BrrSize
  BY TablesFinite DEF BuffersInv
<1>1. /\ Runs("brTrans") /\ P \in Bufs /\ Outside(P) = 0 /\ WellMade(W) /\ W.buf = work.buf
      /\ UNCHANGED <<wait_alloc, mac, timer>> /\ Chosen.i # 0
  <2>1. Runs("brTrans") /\ P # 0 /\ UNCHANGED <<wait_alloc, mac, timer>> /\ Chosen.i # 0
    BY DEF BrTransmit
  <2>. QED BY <2>1, HeadFacts
<1>. DEFINE i == Chosen.i
            child == Chosen.child
            e == Served(Skipped[i], child)
            y == e.buf
            mdst == IF child THEN Nbt[brrt[i].it].addr ELSE All
            cnt == IF LastOne(e) THEN brrt_cnt - 1 ELSE brrt_cnt
            c == [work.buf[y] EXCEPT !.mdst = mdst]
            k == [work.buf[y] EXCEPT !.mdst = mdst, !.handle = "internal"]
            last == Called(Filled(Freed(W, P), y, c), "dataReq", y)
            copy == Called(Filled(W, P, k), "dataReq", P)
<1>2. /\ brrt' = [Skipped EXCEPT ![i] = IF LastOne(e) THEN FreeBrr ELSE e]
      /\ work' = BrAgain(IF LastOne(e) THEN last ELSE copy, cnt)
  BY DEF BrTransmit
<1>3. i \in Used(brrt) /\ i \in 1 .. BrrSize
  BY <1>0, <1>1, ChosenFacts
<1>4. e.used /\ y = brrt[i].buf /\ y \in Bufs /\ Outside(y) # 0 /\ IsFrame(work.buf[y]) /\ DOMAIN work.buf[y] = FrameFields
  <2>1. DOMAIN Skipped[i] = BrrFields /\ Skipped[i].used = brrt[i].used /\ Skipped[i].buf = brrt[i].buf /\ Skipped[i].due \in Nat
    BY <1>0, <1>3, SkippedFacts DEF TablesTyped
  <2>2. e.used = brrt[i].used /\ y = brrt[i].buf
    BY <2>1, ServedFacts
  <2>3. brrt[i].used
    BY <1>3 DEF Used
  <2>4. y \in Bufs /\ Outside(y) # 0 /\ IsFrame(work.buf[y])
    BY <1>3, <2>2, HeldOutside DEF BuffersInv, WorkInv, FramesHeld
  <2>. QED BY <2>2, <2>3, <2>4 DEF BuffersInv, WorkInv, WellMade, WorkTyped, Content
<1>5. /\ IsFrame(c) /\ Content(c) /\ c.kind \notin {"free", "lost"}
      /\ IsFrame(k) /\ Content(k) /\ k.kind \notin {"free", "lost"}
  <2>1. DOMAIN c = FrameFields /\ IsFrame(c) /\ Content(c) /\ c.kind \notin {"free", "lost"}
    <3>1. DOMAIN work.buf[y] = FrameFields /\ IsFrame(work.buf[y])
      BY <1>4
    <3>2. "mdst" \in FrameFields \ {"kind"}
      BY DEF FrameFields
    <3>. HIDE DEF y, mdst
    <3>. QED BY <3>1, <3>2, FrameEdit, SMTT(30)
  <2>2. k = [c EXCEPT !.handle = "internal"]
    BY <1>4 DEF FrameFields
  <2>. HIDE DEF c, k
  <2>3. IsFrame(k) /\ Content(k) /\ k.kind \notin {"free", "lost"}
    BY <2>1, <2>2, FrameEdit DEF FrameFields
  <2>. QED BY <2>1, <2>3
<1>6. y # P /\ Outside(y) = 1
  BY <1>1, <1>4, OneHolder
<1>7. DOMAIN brrt' = 1 .. BrrSize /\ brrt'[i] = (IF LastOne(e) THEN FreeBrr ELSE e)
      /\ \A j \in 1 .. BrrSize : j # i => brrt'[j].used = brrt[j].used /\ brrt'[j].buf = brrt[j].buf
  <2>1. DOMAIN Skipped = 1 .. BrrSize /\ \A j \in 1 .. BrrSize : Skipped[j].used = brrt[j].used /\ Skipped[j].buf = brrt[j].buf
    BY <1>0, SkippedFacts
  <2>. HIDE DEF e, i
  <2>. QED BY <1>2, <1>3, <2>1
<1>. HIDE DEF i, child, e, y, mdst, cnt, c, k
<1>8. CASE ~LastOne(e)
  <2>1. Fits(copy) /\ Leaves(copy, P)
    BY <1>1, <1>5, FillsCalls DEF Fns
  <2>2. work' = BrAgain(copy, cnt)
    BY <1>2, <1>8
  <2>. HIDE DEF copy
  <2>3. Fits(work') /\ Leaves(work', P)
    BY <2>1, <2>2, AgainFacts DEF Fits, Leaves
  <2>4. SameHolders
    <3>1. brrt'[i] = e /\ brrt'[i].used = brrt[i].used /\ brrt'[i].buf = brrt[i].buf
      BY <1>3, <1>4, <1>7, <1>8 DEF Used, y
    <3>2. \A j \in 1 .. BrrSize : brrt'[j].used = brrt[j].used /\ brrt'[j].buf = brrt[j].buf
      BY <1>7, <3>1
    <3>. QED BY <1>0, <1>1, <1>7, <3>2 DEF SameHolders, Used
  <2>. QED BY <1>1, <2>3, <2>4, KeepsWork
<1>9. CASE LastOne(e)
  <2>. DEFINE v == Freed(W, P)
              u == Filled(v, y, c)
  <2>1. Fits(v) /\ Leaves(v, P)
    BY <1>1, FreesBuffer
  <2>2. work' = BrAgain(Called(u, "dataReq", y), cnt)
    BY <1>2, <1>9
  <2>. HIDE DEF v
  <2>3. WellMade(v) /\ Rest(v, y) = 1 /\ Calling(v, y) = {}
    <3>1. WellMade(v) /\ Rest(v, y) = 1
      BY <1>4, <1>6, <2>1 DEF Fits
    <3>. QED BY <1>4, <3>1, Uncalled
  <2>4. /\ WellMade(u) /\ u.buf[y] = c /\ (\A x \in Bufs : x # y => u.buf[x] = v.buf[x])
        /\ \A x \in Bufs : Rest(u, x) = Outside(x)
    <3>1. /\ WellMade(u) /\ u.buf[y] = c /\ (\A x \in Bufs : x # y => u.buf[x] = v.buf[x])
          /\ \A x \in Bufs : Rest(u, x) =
               IF x = y THEN (IF c.kind \in {"free", "lost"} THEN 0 ELSE 1) - Cardinality(Calling(v, x)) ELSE Rest(v, x)
      <4>1. WellMade(v) /\ y \in Bufs /\ Content(c) /\ Calling(v, y) = {}
        BY <1>4, <1>5, <2>3
      <4>. HIDE DEF u
      <4>2. u = Filled(v, y, c)
        BY DEF u
      <4>. QED BY <4>1, <4>2, FilledFacts
    <3>2. Cardinality(Calling(v, y)) = 0
      BY <2>3, FS_EmptySet
    <3>. QED BY <1>5, <1>6, <2>1, <3>1, <3>2 DEF Fits
  <2>. HIDE DEF u
  <2>5. /\ WellMade(work') /\ work'.buf = u.buf
        /\ \A x \in Bufs : Rest(work', x) = IF x = y THEN Outside(x) - 1 ELSE Outside(x)
    <3>1. "dataReq" \in Fns /\ y # 0 /\ y \in Bufs \cup {0} /\ IsFrame(u.buf[y])
      BY <1>4, <1>5, <2>4, BufsTyped DEF Fns
    <3>2. /\ WellMade(Called(u, "dataReq", y)) /\ Called(u, "dataReq", y).buf = u.buf
          /\ \A x \in Bufs : Rest(Called(u, "dataReq", y), x) = IF x = y THEN Rest(u, x) - 1 ELSE Rest(u, x)
      BY <2>4, <3>1, CalledFacts
    <3>. QED BY <2>2, <2>4, <3>2, AgainFacts
  <2>6. (\A x \in Bufs : Cardinality(InTable(x)') = Cardinality(InTable(x)) - (IF y = x THEN 1 ELSE 0)) /\ Used(brrt)' = Used(brrt) \ {i}
    <3>1. ~FreeBrr.used /\ brrt'[i] = FreeBrr
      BY <1>7, <1>9 DEF FreeBrr
    <3>. QED BY <1>3, <1>4, <1>7, <3>1, GivenUp
  <2>7. \A x \in Bufs : Rest(work', x) = Outside(x)'
    <3>. TAKE x \in Bufs
    <3>1. InWait(x)' = InWait(x) /\ InReports(x)' = InReports(x) /\ InMac(x)' = InMac(x)
      BY <1>1, Unchanged
    <3>2. /\ Cardinality(InTable(x)) \in Nat /\ Cardinality(InWait(x)) \in Nat /\ Cardinality(InReports(x)) \in Nat
          /\ Cardinality(InMac(x)) \in Nat /\ Outside(x) \in Nat
      BY <1>0, HoldersCounted
    <3>3. Outside(x)' = Outside(x) - (IF y = x THEN 1 ELSE 0)
      BY <2>6, <3>1, <3>2 DEF Outside
    <3>. QED BY <2>5, <3>2, <3>3
  <2>8. FramesHeld'
    <3>1. \A x \in Bufs : Outside(x) # 0 /\ IsFrame(work.buf[x]) => IsFrame(work'.buf[x])
      BY <1>1, <1>5, <2>1, <2>4, <2>5 DEF Leaves
    <3>2. \A j \in Used(brrt)' : j \in Used(brrt) /\ brrt'[j].buf = brrt[j].buf
      BY <1>0, <1>7, <2>6 DEF Used
    <3>. QED BY <1>1, <3>1, <3>2, HeldOutside DEF BuffersInv, WorkInv, FramesHeld
  <2>. QED BY <2>5, <2>7, <2>8, MovesWork
<1>. QED BY <1>8, <1>9

\* A copy heard from a neighbor may end a retransmission.
LEMMA MarkedFacts ==
  ASSUME BuffersInv, NEW f, AckedEnts(f) # {}
  PROVE  LET i == Min(AckedEnts(f))
             e == Marked(f)
         IN /\ i \in Used(brrt) /\ i \in 1 .. BrrSize
            /\ DOMAIN e = BrrFields /\ e.used /\ e.used = brrt[i].used /\ e.buf = brrt[i].buf /\ e.due = brrt[i].due
            /\ brrt[i].buf \in Bufs /\ Outside(brrt[i].buf) = 1 /\ IsFrame(work.buf[brrt[i].buf])
<1>. DEFINE i == Min(AckedEnts(f))
            e == Marked(f)
<1>1. Used(brrt) \subseteq 1 .. BrrSize /\ TablesTyped
  BY TablesFinite DEF BuffersInv
<1>2. AckedEnts(f) \in SUBSET Nat /\ AckedEnts(f) \subseteq Used(brrt)
  BY <1>1 DEF AckedEnts, Find
<1>3. i \in Used(brrt) /\ i \in 1 .. BrrSize
  <2>1. i \in AckedEnts(f)
    BY <1>2, MinIn
  <2>. QED BY <1>1, <1>2, <2>1
<1>4. e = [brrt[i] EXCEPT !.acks = @ \cup {NbtIndex(f.from)}]
  BY DEF Marked
<1>. HIDE DEF i, e
<1>5. DOMAIN brrt[i] = BrrFields /\ brrt[i].used
  BY <1>1, <1>3 DEF TablesTyped, Used
<1>6. DOMAIN e = BrrFields /\ e.used /\ e.used = brrt[i].used /\ e.buf = brrt[i].buf /\ e.due = brrt[i].due
  BY <1>4, <1>5 DEF BrrFields
<1>7. brrt[i].buf \in Bufs /\ Outside(brrt[i].buf) = 1 /\ IsFrame(work.buf[brrt[i].buf])
  <2>1. brrt[i].buf \in Bufs /\ Outside(brrt[i].buf) # 0
    BY <1>3, HeldOutside
  <2>. QED BY <1>3, <2>1, OneHolder DEF BuffersInv, WorkInv, FramesHeld
<1>. QED BY <1>3, <1>6, <1>7 DEF i, e

LEMMA PassiveFacts ==
  ASSUME BuffersInv, Runs("dataInd"), NEW r, r = PassiveAck(F, W), brrt' = r.brrt
  PROVE  /\ WellMade(r.w) /\ r.w.buf = work.buf
         /\ \A x \in Bufs : Rest(r.w, x) = IF x = P THEN 1 ELSE Outside(x) - Cardinality(InTable(x)) + Cardinality(InTable(x)')
         /\ \A x \in Bufs : InTable(x)' \subseteq InTable(x)
         /\ \A x \in Bufs : Cardinality(InTable(x)') \in Nat
         /\ DOMAIN brrt' = 1 .. BrrSize
         /\ Used(brrt)' \subseteq Used(brrt) /\ \A j \in Used(brrt)' : brrt'[j].buf = brrt[j].buf
<1>0. TimersTyped /\ TablesTyped /\ DOMAIN brrt = 1 .. BrrSize
  BY TablesFinite DEF BuffersInv
<1>1. /\ P \in Bufs /\ IsFrame(F) /\ Outside(P) = 0 /\ WellMade(W) /\ W.buf = work.buf /\ InTable(P) = {}
      /\ \A x \in Bufs : Rest(W, x) = IF x = P THEN 1 ELSE Outside(x)
  <2>1. P \in Bufs /\ Outside(P) = 0
    BY HeadFacts
  <2>. QED BY <1>0, <2>1, HeadFacts, NotOutside DEF FrameFns
<1>2. \A x \in Bufs : Cardinality(InTable(x)) \in Nat /\ Outside(x) \in Nat
  BY <1>0, HoldersCounted
<1>. DEFINE i == Min(AckedEnts(F))
            e == Marked(F)
            y == brrt[i].buf
<1>3. CASE AckedEnts(F) = {}
  <2>1. r.w = W /\ brrt' = brrt
    BY <1>3 DEF PassiveAck
  <2>2. Used(brrt)' = Used(brrt) /\ \A x : InTable(x)' = InTable(x)
    BY <2>1 DEF Used, InTable
  <2>3. \A x \in Bufs : Rest(r.w, x) = IF x = P THEN 1 ELSE Outside(x) - Cardinality(InTable(x)) + Cardinality(InTable(x)')
    <3>. TAKE x \in Bufs
    <3>. QED BY <1>1, <1>2, <2>1, <2>2
  <2>. QED BY <1>0, <1>1, <1>2, <2>1, <2>2, <2>3
<1>4. CASE AckedEnts(F) # {} /\ ~AllAcked(e)
  <2>1. r.w = W /\ brrt' = [brrt EXCEPT ![i] = e]
    BY <1>4 DEF PassiveAck
  <2>2. i \in Used(brrt) /\ i \in 1 .. BrrSize /\ e.used /\ e.buf = brrt[i].buf
    BY <1>4, MarkedFacts
  <2>. HIDE DEF i, e
  <2>3. /\ DOMAIN brrt' = 1 .. BrrSize /\ brrt'[i] = e
        /\ \A j \in 1 .. BrrSize : j # i => brrt'[j].used = brrt[j].used /\ brrt'[j].buf = brrt[j].buf
    BY <1>0, <2>1, <2>2
  <2>4. \A x \in Bufs : InTable(x)' = InTable(x) /\ Used(brrt)' = Used(brrt)
    BY <2>2, <2>3, TableEdit
  <2>5. Used(brrt)' = Used(brrt) /\ \A j \in Used(brrt)' : brrt'[j].buf = brrt[j].buf
    BY <1>0, <1>1, <2>2, <2>3, <2>4 DEF Used
  <2>6. \A x \in Bufs : /\ Rest(r.w, x) = IF x = P THEN 1 ELSE Outside(x) - Cardinality(InTable(x)) + Cardinality(InTable(x)')
                       /\ Cardinality(InTable(x)') \in Nat /\ InTable(x)' \subseteq InTable(x)
    <3>. TAKE x \in Bufs
    <3>. QED BY <1>1, <1>2, <2>1, <2>4
  <2>. QED BY <1>1, <2>1, <2>3, <2>5, <2>6
<1>5. CASE AckedEnts(F) # {} /\ AllAcked(e)
  <2>1. r.w = Called(W, "brConf", e.buf) /\ brrt' = [brrt EXCEPT ![i] = FreeBrr]
    BY <1>5 DEF PassiveAck
  <2>2. /\ i \in Used(brrt) /\ i \in 1 .. BrrSize /\ e.buf = y
        /\ y \in Bufs /\ Outside(y) = 1 /\ IsFrame(work.buf[y])
    BY <1>5, MarkedFacts
  <2>. HIDE DEF i, e
  <2>3. /\ DOMAIN brrt' = 1 .. BrrSize /\ brrt'[i] = FreeBrr /\ ~FreeBrr.used
        /\ \A j \in 1 .. BrrSize : j # i => brrt'[j].used = brrt[j].used /\ brrt'[j].buf = brrt[j].buf
    BY <1>0, <2>1, <2>2 DEF FreeBrr
  <2>4. /\ \A x \in Bufs : Cardinality(InTable(x)') = Cardinality(InTable(x)) - (IF y = x THEN 1 ELSE 0)
        /\ Used(brrt)' = Used(brrt) \ {i}
    BY <2>2, <2>3, GivenUp
  <2>5. Used(brrt)' \subseteq Used(brrt) /\ \A j \in Used(brrt)' : brrt'[j].buf = brrt[j].buf
    BY <1>0, <2>3, <2>4 DEF Used
  <2>. HIDE DEF y
  <2>6. y # P
    BY <1>1, <2>2
  <2>7. /\ WellMade(r.w) /\ r.w.buf = W.buf
        /\ \A x \in Bufs : Rest(r.w, x) = IF x = y THEN Rest(W, x) - 1 ELSE Rest(W, x)
    <3>1. "brConf" \in Fns /\ y # 0 /\ y \in Bufs \cup {0} /\ IsFrame(W.buf[y])
      BY <1>1, <2>2, BufsTyped DEF Fns
    <3>2. /\ WellMade(Called(W, "brConf", y)) /\ Called(W, "brConf", y).buf = W.buf
          /\ \A x \in Bufs : Rest(Called(W, "brConf", y), x) = IF x = y THEN Rest(W, x) - 1 ELSE Rest(W, x)
      <4>1. WellMade(W) /\ "brConf" \in Fns /\ y \in Bufs \cup {0} /\ y # 0 /\ IsFrame(W.buf[y])
        BY <1>1, <3>1
      <4>. QED BY <4>1, CalledFacts, ZenonT(40)
    <3>. QED BY <2>1, <2>2, <3>2
  <2>8. \A x \in Bufs : Cardinality(InTable(x)') \in Nat
    <3>. TAKE x \in Bufs
    <3>1. CASE x = y
      <4>1. InTable(y) # {}
        BY <2>2 DEF InTable, y
      <4>2. Cardinality(InTable(y)) # 0
        BY <4>1, <2>2, <1>0, HoldersCounted, FS_EmptySet
      <4>. QED BY <1>2, <2>2, <2>4, <3>1, <4>2
    <3>2. CASE x # y
      BY <1>2, <2>4, <3>2
    <3>. QED BY <3>1, <3>2
  <2>9. \A x \in Bufs : Rest(r.w, x) = IF x = P THEN 1 ELSE Outside(x) - Cardinality(InTable(x)) + Cardinality(InTable(x)')
    <3>. TAKE x \in Bufs
    <3>1. CASE x = P
      BY <1>1, <2>6, <2>7, <3>1
    <3>2. CASE x = y
      BY <1>1, <1>2, <2>4, <2>6, <2>7, <3>2
    <3>3. CASE x # y /\ x # P
      BY <1>1, <1>2, <2>4, <2>7, <3>3
    <3>. QED BY <3>1, <3>2, <3>3
  <2>10. \A x \in Bufs : InTable(x)' \subseteq InTable(x)
    BY <2>5 DEF InTable
  <2>. QED BY <1>1, <2>3, <2>5, <2>7, <2>8, <2>9, <2>10
<1>. QED BY <1>3, <1>4, <1>5

\* What is done with a frame: one holder, the queue or the frames that wait.
MustWait(f) == Indicate(f) /\ Retransmit(f) /\ Len(wait_alloc) < WaitSize

LEMMA DisposedFacts ==
  ASSUME BuffersInv, Runs("dataInd"), NEW v, WellMade(v), v.buf = work.buf, Rest(v, P) = 1
  PROVE  /\ WellMade(Disposed(F, v)) /\ Leaves(Disposed(F, v), P)
         /\ \A x \in Bufs : Rest(Disposed(F, v), x) = IF x = P THEN (IF MustWait(F) THEN 1 ELSE 0) ELSE Rest(v, x)
         /\ MustWait(F) => IsFrame(Disposed(F, v).buf[P])
<1>. DEFINE c == [F EXCEPT !.radius = @ - 1]
            u == Filled(v, P, c)
            d == Disposed(F, v)
<1>1. P \in Bufs /\ IsFrame(F) /\ DOMAIN F = FrameFields /\ P # 0 /\ P \in Bufs \cup {0}
  BY HeadFacts, BufsTyped DEF FrameFns
<1>2. IsFrame(c) /\ Content(c) /\ c.kind \notin {"free", "lost"}
  BY <1>1, FrameEdit DEF FrameFields
<1>3. Calling(v, P) = {}
  BY <1>1, Uncalled
<1>4. \/ MustWait(F) /\ d = Asked(u, "in", "newBuf")
      \/ ~MustWait(F) /\ \E fn \in {"frameInd", "forward"} : d = Called(u, fn, P)
      \/ ~MustWait(F) /\ d = Freed(u, P)
  BY DEF Disposed, MustWait
<1>. HIDE DEF c, d
<1>5. /\ WellMade(u) /\ u.buf[P] = c /\ (\A x \in Bufs : x # P => u.buf[x] = work.buf[x])
      /\ (\A x \in Bufs : Calling(u, x) = Calling(v, x))
      /\ \A x \in Bufs : Rest(u, x) = IF x = P THEN 1 ELSE Rest(v, x)
  <2>1. /\ WellMade(u) /\ u.buf[P] = c /\ (\A x \in Bufs : x # P => u.buf[x] = v.buf[x])
        /\ (\A x \in Bufs : Calling(u, x) = Calling(v, x))
        /\ \A x \in Bufs : Rest(u, x) =
             IF x = P THEN (IF c.kind \in {"free", "lost"} THEN 0 ELSE 1) - Cardinality(Calling(v, x)) ELSE Rest(v, x)
    <3>. HIDE DEF u
    <3>1. u = Filled(v, P, c)
      BY DEF u
    <3>. QED BY <1>1, <1>2, <1>3, <3>1, FilledFacts
  <2>2. Cardinality(Calling(v, P)) = 0
    BY <1>3, FS_EmptySet
  <2>. HIDE DEF u
  <2>. QED BY <1>2, <2>1, <2>2
<1>. HIDE DEF u
<1>6. CASE MustWait(F) /\ d = Asked(u, "in", "newBuf")
  <2>1. /\ WellMade(d) /\ (\A x \in Bufs : Rest(d, x) = Rest(u, x))
        /\ \A x \in Bufs : u.buf[x] # NoBuf => d.buf[x] = u.buf[x]
    BY <1>5, <1>6, AskedFacts DEF WaitFns
  <2>2. Leaves(d, P) /\ IsFrame(d.buf[P])
    BY <1>1, <1>2, <1>5, <2>1, KindsApart DEF Leaves
  <2>3. \A x \in Bufs : Rest(d, x) = IF x = P THEN (IF MustWait(F) THEN 1 ELSE 0) ELSE Rest(v, x)
    BY <1>5, <1>6, <2>1
  <2>. QED BY <2>1, <2>2, <2>3 DEF d
<1>7. ASSUME ~MustWait(F), NEW fn \in {"frameInd", "forward"}, d = Called(u, fn, P)
      PROVE  /\ WellMade(d) /\ Leaves(d, P)
             /\ \A x \in Bufs : Rest(d, x) = IF x = P THEN (IF MustWait(F) THEN 1 ELSE 0) ELSE Rest(v, x)
  <2>1. fn \in Fns /\ IsFrame(u.buf[P])
    BY <1>2, <1>5 DEF Fns
  <2>2. /\ WellMade(Called(u, fn, P)) /\ Called(u, fn, P).buf = u.buf
        /\ \A x \in Bufs : Rest(Called(u, fn, P), x) = IF x = P THEN Rest(u, x) - 1 ELSE Rest(u, x)
    BY <1>1, <1>5, <2>1, CalledFacts
  <2>. QED BY <1>5, <1>7, <2>2 DEF Leaves
<1>8. CASE ~MustWait(F) /\ d = Freed(u, P)
  <2>1. /\ WellMade(Freed(u, P)) /\ (\A x \in Bufs : Rest(Freed(u, P), x) = IF x = P THEN 0 ELSE Rest(u, x))
        /\ \A x \in Bufs : x # P => Freed(u, P).buf[x] = u.buf[x]
    BY <1>1, <1>3, <1>5, FreedFacts
  <2>. QED BY <1>5, <1>8, <2>1 DEF Leaves, d
<1>. QED BY <1>4, <1>6, <1>7, <1>8 DEF d

LEMMA IndicationWork ==
  ASSUME BuffersInv, BroadcastIndication
  PROVE  WorkInv'
<1>. USE DEF tables, base
<1>0. TimersTyped /\ TablesTyped
  BY DEF BuffersInv
<1>. DEFINE r == PassiveAck(F, W)
<1>1. /\ Runs("dataInd") /\ brrt' = r.brrt /\ UNCHANGED mac
      /\ \/ timer' = StartExpiry(timer, btt_cnt + 1) /\ work' = Disposed(F, r.w) /\ wait_alloc' = Waits(F)
         \/ work' = Freed(r.w, P) /\ UNCHANGED <<timer, wait_alloc>>
  BY DEF BroadcastIndication
<1>. HIDE DEF r
<1>2. /\ WellMade(r.w) /\ r.w.buf = work.buf
      /\ \A x \in Bufs : Rest(r.w, x) = IF x = P THEN 1 ELSE Outside(x) - Cardinality(InTable(x)) + Cardinality(InTable(x)')
      /\ (\A x \in Bufs : InTable(x)' \subseteq InTable(x)) /\ (\A x \in Bufs : Cardinality(InTable(x)') \in Nat)
      /\ Used(brrt)' \subseteq Used(brrt) /\ \A j \in Used(brrt)' : brrt'[j].buf = brrt[j].buf
  BY <1>1, PassiveFacts DEF r
<1>p. PICK p \in Bufs : p = P
  BY <1>1, HeadFacts
<1>3. P = p /\ Outside(p) = 0 /\ IsFrame(F) /\ InWait(p) = {} /\ InReports(p) = {} /\ InMac(p) = {} /\ InTable(p) = {}
  <2>1. P = p /\ Outside(p) = 0 /\ IsFrame(F)
    BY <1>1, <1>p, HeadFacts DEF FrameFns
  <2>. QED BY <1>0, <2>1, NotOutside
<1>4. timer'.reports = timer.reports
  BY <1>0, <1>1, TimerEdits
<1>5. /\ \A x \in Bufs : InReports(x)' = InReports(x) /\ InMac(x)' = InMac(x)
      /\ \A x \in Bufs : /\ Cardinality(InTable(x)) \in Nat /\ Cardinality(InWait(x)) \in Nat /\ Cardinality(InReports(x)) \in Nat
                         /\ Cardinality(InMac(x)) \in Nat
  BY <1>0, <1>1, <1>4, Unchanged, HoldersCounted
<1>6. ASSUME NEW x \in Bufs, InWait(x)' = InWait(x)
      PROVE  Outside(x)' = Outside(x) - Cardinality(InTable(x)) + Cardinality(InTable(x)')
  BY <1>2, <1>5, <1>6 DEF Outside
<1>7. ASSUME wait_alloc' = wait_alloc
      PROVE  Outside(p)' = 0
  <2>1. InWait(p)' = {} /\ InReports(p)' = {} /\ InMac(p)' = {} /\ InTable(p)' = {}
    BY <1>2, <1>3, <1>5, <1>7, Unchanged
  <2>. QED BY <2>1, FS_EmptySet DEF Outside
<1>8. ASSUME Leaves(work', P), wait_alloc' = wait_alloc
      PROVE  FramesHeld'
  <2>1. \A x \in Bufs : Outside(x) # 0 /\ IsFrame(work.buf[x]) => IsFrame(work'.buf[x])
    BY <1>3, <1>8 DEF Leaves
  <2>. QED BY <1>1, <1>2, <1>8, <2>1, HeldOutside DEF FramesHeld, BuffersInv, WorkInv
<1>9. CASE work' = Freed(r.w, P) /\ wait_alloc' = wait_alloc
  <2>1. Calling(r.w, P) = {}
    BY <1>2, <1>3, Uncalled
  <2>2. /\ WellMade(work') /\ (\A x \in Bufs : Rest(work', x) = IF x = P THEN 0 ELSE Rest(r.w, x))
        /\ \A x \in Bufs : x # P => work'.buf[x] = r.w.buf[x]
    BY <1>2, <1>3, <1>9, <2>1, FreedFacts
  <2>3. \A x \in Bufs : Rest(work', x) = Outside(x)'
    <3>. TAKE x \in Bufs
    <3>1. InWait(x)' = InWait(x)
      BY <1>9, Unchanged
    <3>. QED BY <1>2, <1>3, <1>6, <1>7, <1>9, <2>2, <3>1
  <2>4. Leaves(work', P)
    BY <1>2, <2>2 DEF Leaves
  <2>. QED BY <1>8, <1>9, <2>2, <2>3, <2>4, MovesWork
<1>10. CASE work' = Disposed(F, r.w) /\ wait_alloc' = Waits(F)
  <2>1. /\ WellMade(work') /\ Leaves(work', P)
        /\ \A x \in Bufs : Rest(work', x) = IF x = P THEN (IF MustWait(F) THEN 1 ELSE 0) ELSE Rest(r.w, x)
        /\ MustWait(F) => IsFrame(work'.buf[P])
    BY <1>1, <1>2, <1>3, <1>10, DisposedFacts
  <2>2. CASE ~MustWait(F)
    <3>1. wait_alloc' = wait_alloc
      BY <1>10, <2>2 DEF Waits, MustWait
    <3>2. \A x \in Bufs : Rest(work', x) = Outside(x)'
      <4>. TAKE x \in Bufs
      <4>1. InWait(x)' = InWait(x)
        BY <3>1, Unchanged
      <4>. QED BY <1>2, <1>3, <1>6, <1>7, <2>1, <2>2, <3>1, <4>1
    <3>. QED BY <1>8, <2>1, <3>1, <3>2, MovesWork
  <2>3. CASE MustWait(F)
    <3>1. wait_alloc' = Append(wait_alloc, P)
      BY <1>10, <2>3 DEF Waits, MustWait
    <3>2. \A x \in Bufs : Cardinality(InWait(x)') = Cardinality(InWait(x)) + (IF P = x THEN 1 ELSE 0)
      BY <1>3, <3>1, WaitPut
    <3>3. \A x \in Bufs : Rest(work', x) = Outside(x)'
      <4>. TAKE x \in Bufs
      <4>1. CASE x = P
        <5>1. /\ Cardinality(InWait(p)') = 1 /\ Cardinality(InTable(p)') = 0 /\ Cardinality(InReports(p)') = 0
              /\ Cardinality(InMac(p)') = 0
          <6>1. Cardinality(InWait(p)) = 0
            BY <1>3, FS_EmptySet
          <6>2. InTable(p)' = {} /\ InReports(p)' = {} /\ InMac(p)' = {}
            BY <1>2, <1>3, <1>5
          <6>3. Cardinality(InTable(p)') = 0 /\ Cardinality(InReports(p)') = 0 /\ Cardinality(InMac(p)') = 0
            BY <6>2, FS_EmptySet
          <6>4. Cardinality(InWait(p)') = 1
            BY <1>3, <3>2, <6>1
          <6>. QED BY <6>3, <6>4
        <5>2. Outside(p)' = 1
          BY <5>1 DEF Outside
        <5>. QED BY <1>3, <2>1, <2>3, <4>1, <5>2
      <4>2. CASE x # P
        <5>1. Cardinality(InWait(x)') = Cardinality(InWait(x))
          BY <1>5, <3>2, <4>2
        <5>2. Outside(x)' = Outside(x) - Cardinality(InTable(x)) + Cardinality(InTable(x)')
          BY <1>2, <1>5, <5>1 DEF Outside
        <5>. QED BY <1>2, <2>1, <4>2, <5>2
      <4>. QED BY <4>1, <4>2
    <3>4. FramesHeld'
      <4>1. \A x \in Bufs : Outside(x) # 0 /\ IsFrame(work.buf[x]) => IsFrame(work'.buf[x])
        BY <1>3, <2>1 DEF Leaves
      <4>2. \A i \in DOMAIN wait_alloc' : IsFrame(work'.buf[wait_alloc'[i]])
        <5>. TAKE i \in DOMAIN wait_alloc'
        <5>1. wait_alloc \in Seq(Bufs)
          BY <1>0 DEF TablesTyped
        <5>2. wait_alloc'[i] = P \/ (i \in DOMAIN wait_alloc /\ wait_alloc'[i] = wait_alloc[i])
          BY <3>1, <5>1
        <5>. QED BY <1>3, <2>1, <2>3, <4>1, <5>2, HeldOutside DEF FramesHeld, BuffersInv, WorkInv
      <4>. QED BY <1>1, <1>2, <4>1, <4>2, HeldOutside DEF FramesHeld, BuffersInv, WorkInv
    <3>. QED BY <2>1, <3>3, <3>4, MovesWork
  <2>. QED BY <2>2, <2>3
<1>. QED BY <1>1, <1>9, <1>10

LEMMA UnicastWork ==
  ASSUME BuffersInv, UnicastIndication
  PROVE  WorkInv'
<1>1. Runs("dataInd") /\ ~IsBroadcast(F.dst) /\ work' = Disposed(F, W) /\ UNCHANGED <<brrt, wait_alloc, mac, timer>>
  BY DEF UnicastIndication, tables
<1>2. /\ P \in Bufs /\ Outside(P) = 0 /\ WellMade(W) /\ W.buf = work.buf
      /\ \A x \in Bufs : Rest(W, x) = IF x = P THEN 1 ELSE Outside(x)
  BY <1>1, HeadFacts
<1>3. ~MustWait(F)
  BY <1>1 DEF MustWait, Indicate, Retransmit
<1>4. /\ WellMade(work') /\ Leaves(work', P)
      /\ \A x \in Bufs : Rest(work', x) = IF x = P THEN (IF MustWait(F) THEN 1 ELSE 0) ELSE Rest(W, x)
  BY <1>1, <1>2, DisposedFacts
<1>5. Fits(work')
  BY <1>2, <1>3, <1>4 DEF Fits
<1>. QED BY <1>1, <1>2, <1>4, <1>5, HoldersAlike, KeepsWork

LEMMA NewBufferWork ==
  ASSUME BuffersInv, NewBuffer
  PROVE  WorkInv'
<1>. USE DEF tables, base
<1>0. TimersTyped /\ TablesTyped
  BY DEF BuffersInv
<1>1. Runs("newBuf") /\ UNCHANGED <<brrt, mac, timer>>
  BY DEF NewBuffer
<1>2. P \in Bufs /\ Outside(P) = 0
  BY <1>1, HeadFacts
<1>3. CASE wait_alloc = <<>>
  <2>1. work' = Filled(W, P, Lost) /\ wait_alloc' = wait_alloc
    BY <1>3 DEF NewBuffer
  <2>2. Fits(work') /\ Leaves(work', P)
    BY <1>1, <1>2, <2>1, LosesBuffer
  <2>. QED BY <1>1, <1>2, <2>1, <2>2, HoldersAlike, KeepsWork
<1>4. CASE wait_alloc # <<>>
  <2>. DEFINE b == wait_alloc[Len(wait_alloc)]
              f == [work.buf[b] EXCEPT !.handle = "internal"]
              u == Filled(W, P, work.buf[b])
              v == Filled(u, b, f)
              c == Called(v, "frameInd", P)
              w == Called(c, "forward", b)
  <2>1. /\ wait_alloc' = SubSeq(wait_alloc, 1, Len(wait_alloc) - 1)
        /\ work' = Asked(w, "in", "newBuf") \/ work' = w
    BY <1>4 DEF NewBuffer
  <2>2. /\ \A x \in Bufs : Cardinality(InWait(x)') = Cardinality(InWait(x)) - (IF b = x THEN 1 ELSE 0)
        /\ Len(wait_alloc) \in DOMAIN wait_alloc
        /\ \A i \in DOMAIN wait_alloc' : i \in DOMAIN wait_alloc /\ wait_alloc'[i] = wait_alloc[i]
    BY <1>2, <1>4, <2>1, WaitTake
  <2>3. b \in Bufs /\ Outside(b) = 1 /\ IsFrame(work.buf[b]) /\ DOMAIN work.buf[b] = FrameFields /\ Content(work.buf[b]) /\ b # P
    <3>1. b \in Bufs /\ Outside(b) # 0 /\ IsFrame(work.buf[b])
      BY <2>2, HeldOutside DEF BuffersInv, WorkInv, FramesHeld
    <3>2. DOMAIN work.buf[b] = FrameFields /\ Content(work.buf[b])
      BY <3>1 DEF BuffersInv, WorkInv, WellMade, WorkTyped, Content
    <3>. HIDE DEF b
    <3>. QED BY <1>2, <3>1, <3>2, OneHolder
  <2>4. IsFrame(f) /\ Content(f) /\ f.kind \notin {"free", "lost"} /\ work.buf[b].kind \notin {"free", "lost"}
    BY <2>3, FrameEdit, FrameFacts DEF FrameFields
  <2>. HIDE DEF b, f, u, v, c, w
  <2>5. /\ WellMade(u) /\ u.buf[P] = work.buf[b] /\ (\A x \in Bufs : x # P => u.buf[x] = work.buf[x])
        /\ \A x \in Bufs : Rest(u, x) = IF x = P THEN 1 ELSE Outside(x)
    BY <1>1, <1>2, <2>3, <2>4, FillsBuffer DEF u
  <2>6. /\ WellMade(v) /\ v.buf[b] = f /\ (\A x \in Bufs : x # b => v.buf[x] = u.buf[x])
        /\ \A x \in Bufs : Rest(v, x) = IF x = P THEN 1 ELSE Outside(x)
    <3>1. Rest(u, b) = 1
      BY <2>3, <2>5
    <3>2. Calling(u, b) = {}
      BY <2>3, <2>5, <3>1, Uncalled
    <3>3. /\ WellMade(v) /\ v.buf[b] = f /\ (\A x \in Bufs : x # b => v.buf[x] = u.buf[x])
          /\ \A x \in Bufs : Rest(v, x) =
               IF x = b THEN (IF f.kind \in {"free", "lost"} THEN 0 ELSE 1) - Cardinality(Calling(u, x)) ELSE Rest(u, x)
      <4>1. WellMade(u) /\ b \in Bufs /\ Content(f) /\ Calling(u, b) = {}
        BY <2>3, <2>4, <2>5, <3>2
      <4>. QED BY <4>1, FilledFacts, SMTT(30) DEF v
    <3>4. Cardinality(Calling(u, b)) = 0
      BY <3>2, FS_EmptySet
    <3>. QED BY <2>3, <2>4, <2>5, <3>3, <3>4
  <2>7. /\ WellMade(c) /\ c.buf = v.buf /\ \A x \in Bufs : Rest(c, x) = Outside(x)
    <3>1. "frameInd" \in Fns /\ P # 0 /\ P \in Bufs \cup {0} /\ IsFrame(v.buf[P])
      BY <1>2, <2>3, <2>5, <2>6, BufsTyped DEF Fns
    <3>2. /\ WellMade(c) /\ c.buf = v.buf /\ \A x \in Bufs : Rest(c, x) = IF x = P THEN Rest(v, x) - 1 ELSE Rest(v, x)
      BY <2>6, <3>1, CalledFacts DEF c
    <3>. QED BY <1>2, <2>6, <3>2
  <2>8. /\ WellMade(w) /\ w.buf = v.buf /\ \A x \in Bufs : Rest(w, x) = IF x = b THEN 0 ELSE Outside(x)
    <3>1. "forward" \in Fns /\ b # 0 /\ b \in Bufs \cup {0} /\ IsFrame(c.buf[b])
      BY <2>3, <2>4, <2>6, <2>7, BufsTyped DEF Fns
    <3>2. /\ WellMade(w) /\ w.buf = c.buf /\ \A x \in Bufs : Rest(w, x) = IF x = b THEN Rest(c, x) - 1 ELSE Rest(c, x)
      BY <2>7, <3>1, CalledFacts DEF w
    <3>. QED BY <2>3, <2>7, <3>2
  <2>9. /\ WellMade(work') /\ (\A x \in Bufs : Rest(work', x) = IF x = b THEN 0 ELSE Outside(x))
        /\ \A x \in Bufs : w.buf[x] # NoBuf => work'.buf[x] = w.buf[x]
    <3>1. /\ WellMade(Asked(w, "in", "newBuf")) /\ (\A x \in Bufs : Rest(Asked(w, "in", "newBuf"), x) = Rest(w, x))
          /\ \A x \in Bufs : w.buf[x] # NoBuf => Asked(w, "in", "newBuf").buf[x] = w.buf[x]
      BY <2>8, AskedFacts DEF WaitFns
    <3>. QED BY <2>1, <2>8, <3>1
  <2>10. \A x \in Bufs : Rest(work', x) = Outside(x)'
    <3>. TAKE x \in Bufs
    <3>1. InTable(x)' = InTable(x) /\ InReports(x)' = InReports(x) /\ InMac(x)' = InMac(x)
      BY <1>1, Unchanged
    <3>2. /\ Cardinality(InTable(x)) \in Nat /\ Cardinality(InWait(x)) \in Nat /\ Cardinality(InReports(x)) \in Nat
          /\ Cardinality(InMac(x)) \in Nat /\ Outside(x) \in Nat
      BY <1>0, HoldersCounted
    <3>3. Outside(x)' = Outside(x) - (IF b = x THEN 1 ELSE 0)
      BY <2>2, <3>1, <3>2 DEF Outside
    <3>. QED BY <2>3, <2>9, <3>2, <3>3
  <2>11. FramesHeld'
    <3>1. \A x \in Bufs : Outside(x) # 0 /\ IsFrame(work.buf[x]) => IsFrame(work'.buf[x])
      BY <1>2, <2>3, <2>4, <2>5, <2>6, <2>8, <2>9, KindsApart
    <3>. QED BY <1>1, <2>2, <3>1, HeldOutside DEF FramesHeld, BuffersInv, WorkInv, Used
  <2>. QED BY <2>9, <2>10, <2>11, MovesWork
<1>. QED BY <1>3, <1>4

\* The buffers, call queue and holders through every step.
LEMMA WorkStep ==
  ASSUME BuffersInv, Next
  PROVE  WorkInv'
<1>1. CASE Environment
  BY <1>1, EnvironmentWork
<1>2. CASE Callback
  BY <1>2, SimpleWork, ForwardWork, TimeWork, TransmitWork, RequestWork, ConfirmedWork, IndicationWork, UnicastWork,
     NewBufferWork, ConflictWork, ReportWork DEF Callback
<1>3. CASE Alarm
  BY <1>3, TimeWork, ReportWork, ConflictWork DEF Alarm
<1>4. CASE Elapse
  BY <1>4, TimeWork
<1>5. ASSUME NEW b \in Bufs, MacDone(b)
      PROVE  WorkInv'
  BY <1>5, MacDoneWork
<1>. QED BY <1>1, <1>2, <1>3, <1>4, <1>5 DEF Next

LEMMA WorkStays ==
  ASSUME BuffersInv, UNCHANGED vars
  PROVE  WorkInv'
<1>1. UNCHANGED <<work, brrt, wait_alloc, timer, mac>>
  BY DEF vars
<1>2. Fits(work') /\ Leaves(work', 0)
  BY <1>1 DEF Fits, Leaves, BuffersInv, WorkInv, Owned
<1>. QED BY <1>1, <1>2, BufsTyped, HoldersAlike, KeepsWork

-----------------------------------------------------------------------------
\* The tables and their counters.

BtrEntry(e) == DOMAIN e = BtrFields /\ e.used \in BOOLEAN /\ e.exp \in 0 .. BtrSeconds
BrrEntry(e) == DOMAIN e = BrrFields /\ e.used \in BOOLEAN /\ e.due \in Nat /\ (e.used => e.buf \in Bufs)
BttSound(t, cnt) ==
  t = [i \in 1 .. BtrSize |-> t[i]] /\ (\A i \in 1 .. BtrSize : BtrEntry(t[i])) /\ cnt = Cardinality(Used(t))
BrrtSound(t, cnt) ==
  t = [i \in 1 .. BrrSize |-> t[i]] /\ (\A i \in 1 .. BrrSize : BrrEntry(t[i])) /\ cnt = Cardinality(Used(t))

LEMMA FunctionOf ==
  ASSUME NEW S, NEW t
  PROVE  /\ t = [i \in S |-> t[i]] => DOMAIN t = S
         /\ \A f : [i \in S |-> t[i]] = [i \in S |-> [j \in S |-> t[j]][i]]
         /\ \A k, e : t = [i \in S |-> t[i]] => [t EXCEPT ![k] = e] = [i \in S |-> [t EXCEPT ![k] = e][i]]
OBVIOUS

LEMMA TablesSplit ==
  TablesTyped <=>
    /\ BttSound(btt, btt_cnt) /\ BrrtSound(brrt, brrt_cnt)
    /\ wait_alloc \in Seq(Bufs) /\ Len(wait_alloc) <= WaitSize /\ mac \in Seq(Bufs)
<1>1. brrt = [i \in 1 .. BrrSize |-> brrt[i]] => DOMAIN brrt = 1 .. BrrSize
  BY FunctionOf, Zenon
<1>2. ASSUME TablesTyped
      PROVE  BttSound(btt, btt_cnt) /\ BrrtSound(brrt, brrt_cnt)
  <2>1. \A i \in 1 .. BrrSize : brrt[i].used => brrt[i].buf \in Bufs
    BY <1>1, <1>2 DEF TablesTyped, Used
  <2>. QED BY <1>2, <2>1 DEF TablesTyped, BttSound, BrrtSound, BtrEntry, BrrEntry
<1>3. ASSUME BttSound(btt, btt_cnt), BrrtSound(brrt, brrt_cnt)
      PROVE  /\ btt = [i \in 1 .. BtrSize |-> btt[i]]
             /\ \A i \in 1 .. BtrSize : DOMAIN btt[i] = BtrFields /\ btt[i].used \in BOOLEAN /\ btt[i].exp \in 0 .. BtrSeconds
             /\ brrt = [i \in 1 .. BrrSize |-> brrt[i]]
             /\ \A i \in 1 .. BrrSize : DOMAIN brrt[i] = BrrFields /\ brrt[i].used \in BOOLEAN /\ brrt[i].due \in Nat
             /\ \A i \in Used(brrt) : brrt[i].buf \in Bufs
             /\ btt_cnt = Cardinality(Used(btt)) /\ brrt_cnt = Cardinality(Used(brrt))
  BY <1>1, <1>3 DEF BttSound, BrrtSound, BtrEntry, BrrEntry, Used
<1>. QED BY <1>2, <1>3 DEF TablesTyped

\* A table with one place changed, and its counter.
LEMMA UsedEdit ==
  ASSUME NEW N \in Nat, NEW t, DOMAIN t = 1 .. N, NEW s, DOMAIN s = 1 .. N, NEW k \in 1 .. N,
         \A i \in 1 .. N : i # k => s[i].used = t[i].used
  PROVE  /\ s[k].used /\ k \notin Used(t) => Cardinality(Used(s)) = Cardinality(Used(t)) + 1
         /\ ~s[k].used /\ k \in Used(t) => Cardinality(Used(s)) = Cardinality(Used(t)) - 1
         /\ s[k].used /\ k \in Used(t) => Used(s) = Used(t)
<1>1. IsFiniteSet(Used(t)) /\ Cardinality(Used(t)) \in Nat
  <2>1. IsFiniteSet(1 .. N) /\ Used(t) \in SUBSET (1 .. N)
    BY FS_Interval DEF Used
  <2>. QED BY <2>1, FS_Subset, FS_CardinalityType
<1>2. ASSUME s[k].used, k \notin Used(t)
      PROVE  Cardinality(Used(s)) = Cardinality(Used(t)) + 1
  <2>1. Used(s) = Used(t) \cup {k}
    BY <1>2 DEF Used
  <2>2. Cardinality(Used(t) \cup {k}) = Cardinality(Used(t)) + 1
    BY <1>1, <1>2, FS_AddElement
  <2>. QED BY <2>1, <2>2
<1>3. ASSUME ~s[k].used, k \in Used(t)
      PROVE  Cardinality(Used(s)) = Cardinality(Used(t)) - 1
  <2>1. Used(s) = Used(t) \ {k}
    BY <1>3 DEF Used
  <2>2. Cardinality(Used(t) \ {k}) = Cardinality(Used(t)) - 1
    BY <1>1, <1>3, FS_RemoveElement
  <2>. QED BY <2>1, <2>2
<1>4. ASSUME s[k].used, k \in Used(t)
      PROVE  Used(s) = Used(t)
  BY <1>4 DEF Used
<1>. QED BY <1>2, <1>3, <1>4

LEMMA BtrEntries == BtrEntry(FreeBtr) /\ ~FreeBtr.used /\ \A f : BtrEntry(BtrEnt(f)) /\ BtrEnt(f).used
BY Consts DEF BtrEntry, FreeBtr, BtrEnt, BtrFields

LEMMA BrrEntries == BrrEntry(FreeBrr) /\ ~FreeBrr.used /\ \A b \in Bufs : \A f : BrrEntry(BrrEnt(b, f)) /\ BrrEnt(b, f).used
BY DEF BrrEntry, FreeBrr, BrrEnt, BrrFields

\* A broadcast is put into the transaction table.
LEMMA AddedSound ==
  ASSUME BuffersInv, NEW f, Holes(btt) # {}, AddToBtt(f)
  PROVE  BttSound(btt', btt_cnt')
<1>. DEFINE k == Min(Holes(btt))
<1>1. DOMAIN btt = 1 .. BtrSize /\ BttSound(btt, btt_cnt) /\ BtrSize \in Nat
  BY TablesFinite, TablesSplit, Consts DEF BuffersInv
<1>2. k \in 1 .. BtrSize /\ k \notin Used(btt)
  BY BttHole
<1>3. btt' = [btt EXCEPT ![k] = BtrEnt(f)] /\ btt_cnt' = btt_cnt + 1
  BY DEF AddToBtt, BttAdded
<1>. HIDE DEF k
<1>4. DOMAIN btt' = 1 .. BtrSize /\ btt'[k] = BtrEnt(f) /\ \A i \in 1 .. BtrSize : i # k => btt'[i] = btt[i]
  BY <1>1, <1>2, <1>3
<1>5. Cardinality(Used(btt')) = Cardinality(Used(btt)) + 1
  BY <1>1, <1>2, <1>4, BtrEntries, UsedEdit
<1>6. \A i \in 1 .. BtrSize : BtrEntry(btt'[i])
  BY <1>1, <1>4, BtrEntries DEF BttSound
<1>7. btt' = [i \in 1 .. BtrSize |-> btt'[i]]
  BY <1>1, <1>3, FunctionOf, Zenon DEF BttSound
<1>. QED BY <1>1, <1>3, <1>5, <1>6, <1>7 DEF BttSound

\* An entry of the retransmission table is made, kept or given up.
LEMMA EditedSound ==
  ASSUME BuffersInv, NEW k \in 1 .. BrrSize, NEW e, BrrEntry(e), NEW t, BrrtSound(t, Cardinality(Used(t))), Used(t) = Used(brrt),
         brrt' = [t EXCEPT ![k] = e],
         \/ e.used /\ k \notin Used(brrt) /\ brrt_cnt' = brrt_cnt + 1
         \/ ~e.used /\ k \in Used(brrt) /\ brrt_cnt' = brrt_cnt - 1
         \/ e.used /\ k \in Used(brrt) /\ brrt_cnt' = brrt_cnt
  PROVE  BrrtSound(brrt', brrt_cnt')
<1>1. brrt_cnt = Cardinality(Used(t)) /\ BrrSize \in Nat /\ DOMAIN t = 1 .. BrrSize
  <2>1. DOMAIN t = 1 .. BrrSize
    BY FunctionOf, Zenon DEF BrrtSound
  <2>. QED BY <2>1, TablesSplit, Consts DEF BuffersInv, BrrtSound
<1>2. DOMAIN brrt' = 1 .. BrrSize /\ brrt'[k] = e /\ \A i \in 1 .. BrrSize : i # k => brrt'[i] = t[i]
  BY <1>1
<1>3. brrt_cnt' = Cardinality(Used(brrt'))
  <2>1. /\ brrt'[k].used /\ k \notin Used(t) => Cardinality(Used(brrt')) = Cardinality(Used(t)) + 1
        /\ ~brrt'[k].used /\ k \in Used(t) => Cardinality(Used(brrt')) = Cardinality(Used(t)) - 1
        /\ brrt'[k].used /\ k \in Used(t) => Used(brrt') = Used(t)
    <3>1. PICK s : s = brrt'
      OBVIOUS
    <3>2. BrrSize \in Nat /\ DOMAIN t = 1 .. BrrSize /\ DOMAIN s = 1 .. BrrSize /\ \A i \in 1 .. BrrSize : i # k => s[i].used = t[i].used
      BY <1>1, <1>2, <3>1
    <3>3. /\ s[k].used /\ k \notin Used(t) => Cardinality(Used(s)) = Cardinality(Used(t)) + 1
          /\ ~s[k].used /\ k \in Used(t) => Cardinality(Used(s)) = Cardinality(Used(t)) - 1
          /\ s[k].used /\ k \in Used(t) => Used(s) = Used(t)
      BY <3>2, UsedEdit
    <3>. QED BY <3>1, <3>3
  <2>. QED BY <1>1, <1>2, <2>1
<1>4. \A i \in 1 .. BrrSize : BrrEntry(brrt'[i])
  BY <1>2 DEF BrrtSound
<1>5. brrt' = [i \in 1 .. BrrSize |-> brrt'[i]]
  BY FunctionOf, Zenon DEF BrrtSound
<1>. QED BY <1>3, <1>4, <1>5 DEF BrrtSound

\* Which actions change what.
LEMMA TableActions ==
  ASSUME Next
  PROVE  /\ UNCHANGED <<btt, btt_cnt>> \/ ForwardDirect \/ ForwardBroadcast \/ BroadcastIndication \/ BtrExpiry
         /\ \/ UNCHANGED <<brrt, brrt_cnt>> \/ ForwardBroadcast \/ BrNeedsBuffer \/ BrTransmit \/ BrNothing
            \/ BroadcastIndication \/ Elapse
         /\ UNCHANGED wait_alloc \/ BroadcastIndication \/ NewBuffer
         /\ UNCHANGED mac \/ DataRequest \/ \E b \in Bufs : MacDone(b)
<1>. USE DEF tables
<1>1. CASE Environment
  <2>1. UNCHANGED <<btt, btt_cnt, brrt, brrt_cnt, wait_alloc, mac>>
    BY <1>1 DEF Environment, Receive, Beacon, AppSend, SendStatus, AppGet, AppSet
  <2>. QED BY <2>1
<1>2. CASE ForwardDirect \/ ForwardBttFull \/ ForwardBroadcast \/ BrNeedsBuffer \/ BrTransmit \/ BrNothing
  BY <1>2 DEF ForwardDirect, ForwardBttFull, ForwardBroadcast, BrNeedsBuffer, BrTransmit, BrNothing
<1>3. CASE DataRequest \/ DataConfirm \/ CallBrConfirm \/ CallStatusIndication \/ NldeConfirm \/ NldeIndication \/ StatusIndication
           \/ DropIndication
  BY <1>3 DEF DataRequest, DataConfirm, CallBrConfirm, CallStatusIndication, NldeConfirm, NldeIndication, StatusIndication,
              DropIndication
<1>4. CASE BroadcastIndication \/ UnicastIndication \/ NewBuffer \/ IndicateData \/ IndicateStatus \/ IndicateReport
           \/ IndicateUpdate \/ BeaconIndication
  BY <1>4 DEF BroadcastIndication, UnicastIndication, NewBuffer, IndicateData, IndicateStatus, IndicateReport,
              IndicateUpdate, BeaconIndication
<1>5. CASE SendNwkUpdate \/ SendStatusInd \/ DoSetPanid \/ StartRequest \/ StartConfirm
           \/ DoGet \/ DoSet \/ GetConfirm \/ SetConfirm
  BY <1>5 DEF SendNwkUpdate, SendStatusInd, DoSetPanid, StartRequest, StartConfirm, DoGet, DoSet, GetConfirm, SetConfirm
<1>6. CASE Alarm
  BY <1>6 DEF Alarm, BrAlarm, BtrExpiry, SendNetworkReport, SetPanidAlarm
<1>7. CASE Elapse
  BY <1>7 DEF Elapse
<1>8. ASSUME NEW b \in Bufs, MacDone(b)
      PROVE  UNCHANGED <<btt, btt_cnt, brrt, brrt_cnt, wait_alloc>>
  BY <1>8 DEF MacDone
<1>. QED BY <1>1, <1>2, <1>3, <1>4, <1>5, <1>6, <1>7, <1>8 DEF Next, Callback

LEMMA BttStep ==
  ASSUME BuffersInv, Next
  PROVE  BttSound(btt', btt_cnt')
<1>0. BttSound(btt, btt_cnt) /\ TablesTyped /\ DOMAIN btt = 1 .. BtrSize
  BY TablesSplit, TablesFinite DEF BuffersInv
<1>1. CASE UNCHANGED <<btt, btt_cnt>>
  BY <1>0, <1>1
<1>2. CASE ForwardDirect \/ ForwardBroadcast \/ BroadcastIndication
  <2>1. UNCHANGED <<btt, btt_cnt>> \/ (Holes(btt) # {} /\ AddToBtt(F))
    BY <1>2 DEF ForwardDirect, ForwardBroadcast, BroadcastIndication, NewBroadcast
  <2>. QED BY <1>1, <2>1, AddedSound
<1>3. CASE BtrExpiry /\ ~(UNCHANGED <<btt, btt_cnt>>)
  <2>. DEFINE D == {i \in Used(btt) : ~Aged(btt[i]).used}
  <2>1. btt' = [i \in DOMAIN btt |-> Aged(btt[i])] /\ btt_cnt' = btt_cnt - Cardinality(D)
    BY <1>3 DEF BtrExpiry
  <2>2. \A e : BtrEntry(e) => BtrEntry(Aged(e)) /\ (Aged(e).used => e.used)
    <3>. SUFFICES ASSUME NEW e, BtrEntry(e) PROVE BtrEntry(Aged(e)) /\ (Aged(e).used => e.used)
      OBVIOUS
    <3>1. CASE e.used /\ e.exp > 0
      <4>1. Aged(e) = [e EXCEPT !.exp = @ - 1]
        BY <3>1 DEF Aged
      <4>2. DOMAIN e = BtrFields /\ e.used \in BOOLEAN /\ e.exp \in 0 .. BtrSeconds
        BY DEF BtrEntry
      <4>3. \A m \in Nat : \A x \in 0 .. m : x > 0 => x - 1 \in 0 .. m
        OBVIOUS
      <4>4. e.exp - 1 \in 0 .. BtrSeconds
        BY <3>1, <4>2, <4>3, Consts
      <4>5. DOMAIN Aged(e) = BtrFields /\ Aged(e).used = e.used /\ Aged(e).exp = e.exp - 1
        BY <4>1, <4>2 DEF BtrFields
      <4>. QED BY <3>1, <4>2, <4>4, <4>5 DEF BtrEntry
    <3>2. CASE ~(e.used /\ e.exp > 0)
      BY <3>2, BtrEntries DEF Aged
    <3>. QED BY <3>1, <3>2
  <2>3. /\ btt' = [i \in 1 .. BtrSize |-> btt'[i]] /\ DOMAIN btt' = 1 .. BtrSize
        /\ \A i \in 1 .. BtrSize : btt'[i] = Aged(btt[i])
    BY <1>0, <2>1
  <2>4. Used(btt') = Used(btt) \ D
    <3>1. \A i \in 1 .. BtrSize : Aged(btt[i]).used => btt[i].used
      BY <1>0, <2>2 DEF BttSound
    <3>. QED BY <1>0, <2>3, <3>1 DEF Used
  <2>5. Cardinality(Used(btt) \ D) = Cardinality(Used(btt)) - Cardinality(D)
    <3>1. IsFiniteSet(Used(btt)) /\ D \subseteq Used(btt)
      BY <1>0, TablesFinite
    <3>2. IsFiniteSet(D) /\ Used(btt) \cap D = D
      BY <3>1, FS_Subset
    <3>3. Cardinality(Used(btt) \ D) = Cardinality(Used(btt)) - Cardinality(Used(btt) \cap D)
      BY <3>1, FS_Difference
    <3>. QED BY <3>2, <3>3
  <2>6. \A i \in 1 .. BtrSize : BtrEntry(btt'[i])
    BY <1>0, <2>2, <2>3 DEF BttSound
  <2>. HIDE DEF D
  <2>. QED BY <1>0, <2>1, <2>3, <2>4, <2>5, <2>6 DEF BttSound
<1>. QED BY <1>1, <1>2, <1>3, TableActions

LEMMA SkippedSound ==
  ASSUME BuffersInv
  PROVE  BrrtSound(Skipped, brrt_cnt) /\ Used(Skipped) = Used(brrt) /\ BrrtSound(brrt, brrt_cnt)
<1>1. TablesTyped /\ BrrtSound(brrt, brrt_cnt) /\ DOMAIN brrt = 1 .. BrrSize
  BY TablesSplit, TablesFinite DEF BuffersInv
<1>2. /\ DOMAIN Skipped = 1 .. BrrSize
      /\ \A i \in 1 .. BrrSize : /\ DOMAIN Skipped[i] = BrrFields /\ Skipped[i].used = brrt[i].used /\ Skipped[i].buf = brrt[i].buf
                                 /\ Skipped[i].due = brrt[i].due
  BY <1>1, SkippedFacts
<1>3. Skipped = [i \in 1 .. BrrSize |-> Skipped[i]]
  BY <1>1 DEF Skipped
<1>4. Used(Skipped) = Used(brrt)
  BY <1>1, <1>2 DEF Used
<1>5. \A i \in 1 .. BrrSize : BrrEntry(Skipped[i])
  BY <1>1, <1>2 DEF BrrtSound, BrrEntry
<1>. QED BY <1>1, <1>3, <1>4, <1>5 DEF BrrtSound

\* Time passes to the next moment something happens.
LEMMA UpcomingFacts ==
  ASSUME BuffersInv, Upcoming # {}
  PROVE  /\ Upcoming \subseteq Nat /\ Min(Upcoming) \in Upcoming /\ Min(Upcoming) \in Nat
         /\ \A x \in Upcoming : Min(Upcoming) <= x
<1>1. /\ timer.br \in -1 .. Jitter /\ timer.exp \in -1 .. Second /\ timer.pans \in Seq(Nat) /\ timer.reports \in Seq([b : Bufs, t : Nat])
  BY DEF BuffersInv, TimersTyped
<1>2. \A i \in DOMAIN timer.reports : timer.reports[i].t \in Nat
  <2>1. \A i \in DOMAIN timer.reports : timer.reports[i] \in [b : Bufs, t : Nat]
    BY <1>1, SeqElements, Zenon
  <2>. QED BY <2>1
<1>3. Range(timer.pans) \subseteq Nat
  BY <1>1 DEF Range
<1>4. {r.t : r \in Range(timer.reports)} \subseteq Nat
  BY <1>2 DEF Range
<1>5. {t \in {timer.br, timer.exp} : t >= 0} \subseteq Nat
  BY <1>1, Consts
<1>6. {log.life[i] : i \in {j \in DOMAIN log.life : log.life[j] > 0}} \subseteq Nat
  BY Consts DEF BuffersInv, LogTyped
<1>7. Upcoming \in SUBSET Nat
  BY <1>3, <1>4, <1>5, <1>6 DEF Upcoming, Running
<1>. QED BY <1>7, MinIn

LEMMA BrrtStep ==
  ASSUME BuffersInv, Next
  PROVE  BrrtSound(brrt', brrt_cnt')
<1>. USE DEF tables
<1>0. TablesTyped /\ BrrtSound(brrt, brrt_cnt) /\ DOMAIN brrt = 1 .. BrrSize /\ BrrtSound(brrt, Cardinality(Used(brrt)))
  BY TablesSplit, TablesFinite DEF BuffersInv, BrrtSound
<1>1. CASE UNCHANGED <<brrt, brrt_cnt>>
  BY <1>0, <1>1
<1>2. CASE ForwardBroadcast /\ ~(UNCHANGED <<brrt, brrt_cnt>>)
  <2>. DEFINE k == Min(Holes(brrt))
  <2>1. brrt_cnt < BrrSize /\ brrt' = [brrt EXCEPT ![k] = BrrEnt(P, F)] /\ brrt_cnt' = brrt_cnt + 1 /\ Runs("forward")
    BY <1>2 DEF ForwardBroadcast
  <2>2. k \in 1 .. BrrSize /\ k \notin Used(brrt) /\ P \in Bufs
    BY <2>1, BrrHole, HeadFacts
  <2>3. BrrEntry(BrrEnt(P, F)) /\ BrrEnt(P, F).used
    BY <2>2, BrrEntries
  <2>. HIDE DEF k
  <2>. QED BY <1>0, <2>1, <2>2, <2>3, EditedSound
<1>3. CASE BrNeedsBuffer \/ BrNothing
  BY <1>3, SkippedSound DEF BrNeedsBuffer, BrNothing
<1>4. CASE BrTransmit
  <2>. DEFINE i == Chosen.i
              e == Served(Skipped[i], Chosen.child)
  <2>1. /\ brrt' = [Skipped EXCEPT ![i] = IF LastOne(e) THEN FreeBrr ELSE e]
        /\ brrt_cnt' = IF LastOne(e) THEN brrt_cnt - 1 ELSE brrt_cnt
        /\ i # 0
    BY <1>4 DEF BrTransmit
  <2>2. i \in Used(brrt) /\ i \in 1 .. BrrSize
    BY <1>0, <2>1, ChosenFacts
  <2>3. BrrtSound(Skipped, Cardinality(Used(Skipped))) /\ Used(Skipped) = Used(brrt)
    BY SkippedSound DEF BrrtSound
  <2>4. BrrEntry(Skipped[i]) /\ Skipped[i].used
    <3>1. Skipped[i].used = brrt[i].used
      BY <1>0, <2>2, SkippedFacts
    <3>. QED BY <2>2, <2>3, <3>1 DEF BrrtSound, Used
  <2>5. BrrEntry(e) /\ e.used
    <3>1. DOMAIN e = BrrFields /\ e.used = Skipped[i].used /\ e.buf = Skipped[i].buf /\ e.due \in Nat
      BY <2>4, ServedFacts DEF BrrEntry
    <3>. QED BY <2>4, <3>1 DEF BrrEntry
  <2>. HIDE DEF i, e
  <2>6. CASE LastOne(e)
    <3>1. brrt' = [Skipped EXCEPT ![i] = FreeBrr] /\ brrt_cnt' = brrt_cnt - 1
      BY <2>1, <2>6
    <3>. QED BY <2>2, <2>3, <3>1, BrrEntries, EditedSound
  <2>7. CASE ~LastOne(e)
    <3>1. brrt' = [Skipped EXCEPT ![i] = e] /\ brrt_cnt' = brrt_cnt
      BY <2>1, <2>7
    <3>. QED BY <2>2, <2>3, <2>5, <3>1, EditedSound
  <2>. QED BY <2>6, <2>7
<1>5. CASE BroadcastIndication /\ AckedEnts(F) # {}
  <2>. DEFINE i == Min(AckedEnts(F))
              e == Marked(F)
  <2>1. /\ brrt' = [brrt EXCEPT ![i] = IF AllAcked(e) THEN FreeBrr ELSE e]
        /\ brrt_cnt' = IF AllAcked(e) THEN brrt_cnt - 1 ELSE brrt_cnt
    BY <1>5 DEF BroadcastIndication, PassiveAck
  <2>2. i \in Used(brrt) /\ i \in 1 .. BrrSize /\ BrrEntry(e) /\ e.used
    <3>1. /\ i \in Used(brrt) /\ i \in 1 .. BrrSize
          /\ DOMAIN e = BrrFields /\ e.used /\ e.used = brrt[i].used /\ e.buf = brrt[i].buf /\ e.due = brrt[i].due /\ brrt[i].buf \in Bufs
      BY <1>5, MarkedFacts
    <3>. HIDE DEF i, e
    <3>2. brrt[i].due \in Nat /\ brrt[i].used
      BY <1>0, <3>1 DEF TablesTyped, Used
    <3>3. e.used \in BOOLEAN
      BY <1>0, <3>1 DEF TablesTyped
    <3>. QED BY <3>1, <3>2, <3>3 DEF BrrEntry
  <2>. HIDE DEF i, e
  <2>3. CASE AllAcked(e)
    <3>1. brrt' = [brrt EXCEPT ![i] = FreeBrr] /\ brrt_cnt' = brrt_cnt - 1
      BY <2>1, <2>3
    <3>. QED BY <1>0, <2>2, <3>1, BrrEntries, EditedSound
  <2>4. CASE ~AllAcked(e)
    <3>1. brrt' = [brrt EXCEPT ![i] = e] /\ brrt_cnt' = brrt_cnt
      BY <2>1, <2>4
    <3>. QED BY <1>0, <2>2, <3>1, EditedSound
  <2>. QED BY <2>3, <2>4
<1>6. CASE BroadcastIndication /\ AckedEnts(F) = {}
  <2>1. UNCHANGED <<brrt, brrt_cnt>>
    BY <1>6 DEF BroadcastIndication, PassiveAck
  <2>. QED BY <1>1, <2>1
<1>7. CASE Elapse
  <2>1. PICK d : brrt' = [i \in DOMAIN brrt |-> [brrt[i] EXCEPT !.due = Minus(brrt[i].due, d)]] /\ d \in Int /\ d >= 0
    <3>. DEFINE m == Min(Upcoming)
    <3>1. Upcoming # {} /\ brrt' = [i \in DOMAIN brrt |-> [brrt[i] EXCEPT !.due = Minus(brrt[i].due, m)]]
      BY <1>7 DEF Elapse
    <3>2. m \in Nat
      BY <3>1, UpcomingFacts
    <3>. HIDE DEF m
    <3>3. m \in Int /\ m >= 0
      BY <3>2
    <3>. QED BY <3>1, <3>3
  <2>2. brrt_cnt' = brrt_cnt
    BY <1>7 DEF Elapse
  <2>3. \A x \in Nat : Minus(x, d) \in Nat
    BY <2>1 DEF Minus
  <2>4. DOMAIN brrt' = 1 .. BrrSize /\ brrt' = [i \in 1 .. BrrSize |-> brrt'[i]]
        /\ \A i \in 1 .. BrrSize : brrt'[i] = [brrt[i] EXCEPT !.due = Minus(brrt[i].due, d)]
    BY <1>0, <2>1
  <2>5. \A i \in 1 .. BrrSize : BrrEntry(brrt[i])
    BY <1>0 DEF BrrtSound
  <2>6. \A i \in 1 .. BrrSize : BrrEntry(brrt'[i]) /\ brrt'[i].used = brrt[i].used
    BY <2>3, <2>4, <2>5 DEF BrrEntry, BrrFields
  <2>7. Used(brrt') = Used(brrt)
    BY <1>0, <2>4, <2>6 DEF Used
  <2>. QED BY <1>0, <2>2, <2>4, <2>6, <2>7 DEF BrrtSound
<1>. QED BY <1>1, <1>2, <1>3, <1>4, <1>5, <1>6, <1>7, TableActions

LEMMA QueuesStep ==
  ASSUME BuffersInv, Next
  PROVE  wait_alloc' \in Seq(Bufs) /\ Len(wait_alloc') <= WaitSize /\ mac' \in Seq(Bufs)
<1>. USE DEF tables
<1>0. wait_alloc \in Seq(Bufs) /\ Len(wait_alloc) <= WaitSize /\ mac \in Seq(Bufs)
  BY DEF BuffersInv, TablesTyped
<1>1. CASE BroadcastIndication
  <2>1. wait_alloc' = Waits(F) \/ wait_alloc' = wait_alloc
    BY <1>1 DEF BroadcastIndication
  <2>2. P \in Bufs
    BY <1>1, HeadFacts DEF BroadcastIndication
  <2>3. wait_alloc' = wait_alloc \/ (Len(wait_alloc) < WaitSize /\ wait_alloc' = Append(wait_alloc, P))
    BY <2>1 DEF Waits
  <2>4. mac' = mac
    BY <1>1 DEF BroadcastIndication
  <2>5. CASE wait_alloc' = wait_alloc
    BY <1>0, <2>4, <2>5
  <2>6. CASE Len(wait_alloc) < WaitSize /\ wait_alloc' = Append(wait_alloc, P)
    <3>1. wait_alloc' \in Seq(Bufs) /\ Len(wait_alloc') = Len(wait_alloc) + 1
      BY <1>0, <2>2, <2>6
    <3>2. \A k, m \in Nat : k < m => k + 1 <= m
      OBVIOUS
    <3>3. Len(wait_alloc) \in Nat /\ WaitSize \in Nat
      BY <1>0, Consts
    <3>. QED BY <1>0, <2>4, <2>6, <3>1, <3>2, <3>3, Zenon
  <2>. QED BY <2>3, <2>5, <2>6
<1>2. CASE NewBuffer
  <2>1. CASE wait_alloc' = wait_alloc
    BY <1>0, <1>2, <2>1 DEF NewBuffer
  <2>2. CASE wait_alloc # <<>> /\ wait_alloc' = SubSeq(wait_alloc, 1, Len(wait_alloc) - 1)
    <3>1. Len(wait_alloc') = Len(wait_alloc) - 1 /\ wait_alloc' \in Seq(Bufs)
      BY <1>0, <2>2, CountFront
    <3>2. mac' = mac
      BY <1>2 DEF NewBuffer
    <3>. QED BY <1>0, <3>1, <3>2, Consts
  <2>. QED BY <1>2, <2>1, <2>2 DEF NewBuffer
<1>3. CASE DataRequest
  <2>1. P \in Bufs
    BY <1>3, HeadFacts DEF DataRequest
  <2>. QED BY <1>0, <1>3, <2>1 DEF DataRequest
<1>4. ASSUME NEW b \in Bufs, MacDone(b)
      PROVE  mac' \in Seq(Bufs)
  <2>1. PICK k \in DOMAIN mac : mac' = RemoveAt(mac, k)
    BY <1>4 DEF MacDone
  <2>. QED BY <1>0, <2>1, CountRemoved
<1>. QED BY <1>0, <1>1, <1>2, <1>3, <1>4, TableActions

LEMMA TablesStep ==
  ASSUME BuffersInv, Next
  PROVE  TablesTyped'
<1>1. BttSound(btt', btt_cnt') /\ BrrtSound(brrt', brrt_cnt')
  BY BttStep, BrrtStep
<1>2. wait_alloc' \in Seq(Bufs) /\ Len(wait_alloc') <= WaitSize /\ mac' \in Seq(Bufs)
  BY QueuesStep
<1>3. DOMAIN brrt' = 1 .. BrrSize
  BY <1>1, FunctionOf, Zenon DEF BrrtSound
<1>4. /\ btt' = [i \in 1 .. BtrSize |-> btt'[i]]
      /\ \A i \in 1 .. BtrSize : DOMAIN btt'[i] = BtrFields /\ btt'[i].used \in BOOLEAN /\ btt'[i].exp \in 0 .. BtrSeconds
      /\ btt_cnt' = Cardinality(Used(btt'))
  BY <1>1 DEF BttSound, BtrEntry
<1>5. /\ brrt' = [i \in 1 .. BrrSize |-> brrt'[i]]
      /\ \A i \in 1 .. BrrSize : DOMAIN brrt'[i] = BrrFields /\ brrt'[i].used \in BOOLEAN /\ brrt'[i].due \in Nat
      /\ \A i \in Used(brrt') : brrt'[i].buf \in Bufs
      /\ brrt_cnt' = Cardinality(Used(brrt'))
  BY <1>1, <1>3 DEF BrrtSound, BrrEntry, Used
<1>. QED BY <1>2, <1>4, <1>5 DEF TablesTyped

-----------------------------------------------------------------------------
\* The alarms.

TimerTypes == [br : -1 .. Jitter, exp : -1 .. Second, pans : Seq(Nat), reports : Seq([b : Bufs, t : Nat])]

LEMMA RecordEdit ==
  ASSUME NEW A, NEW B, NEW C, NEW D, NEW r \in [br : A, exp : B, pans : C, reports : D]
  PROVE  /\ \A x \in A : [r EXCEPT !.br = x] \in [br : A, exp : B, pans : C, reports : D]
         /\ \A x \in B : [r EXCEPT !.exp = x] \in [br : A, exp : B, pans : C, reports : D]
         /\ \A x \in C : [r EXCEPT !.pans = x] \in [br : A, exp : B, pans : C, reports : D]
         /\ \A x \in D : [r EXCEPT !.reports = x] \in [br : A, exp : B, pans : C, reports : D]
         /\ r.br \in A /\ r.exp \in B /\ r.pans \in C /\ r.reports \in D
OBVIOUS

LEMMA TimerFits ==
  ASSUME BuffersInv
  PROVE  /\ timer \in TimerTypes
         /\ \A r \in TimerTypes : [r EXCEPT !.br = -1] \in TimerTypes
         /\ \A x \in -1 .. Jitter : [timer EXCEPT !.br = x] \in TimerTypes
         /\ \A x \in -1 .. Second : [timer EXCEPT !.exp = x] \in TimerTypes
         /\ \A x \in Seq(Nat) : [timer EXCEPT !.pans = x] \in TimerTypes
         /\ \A x \in Seq([b : Bufs, t : Nat]) : [timer EXCEPT !.reports = x] \in TimerTypes
         /\ timer.br \in -1 .. Jitter /\ timer.exp \in -1 .. Second /\ timer.pans \in Seq(Nat)
         /\ timer.reports \in Seq([b : Bufs, t : Nat])
         /\ \A cnt : StartExpiry(timer, cnt) \in TimerTypes
         /\ [timer EXCEPT !.pans = Append(@, PanDelay)] \in TimerTypes
<1>1. timer \in TimerTypes /\ -1 \in -1 .. Jitter /\ Second \in -1 .. Second
  BY Consts DEF BuffersInv, TimersTyped, TimerTypes
<1>2. /\ \A x \in -1 .. Jitter : [timer EXCEPT !.br = x] \in TimerTypes
      /\ \A x \in -1 .. Second : [timer EXCEPT !.exp = x] \in TimerTypes
      /\ \A x \in Seq(Nat) : [timer EXCEPT !.pans = x] \in TimerTypes
      /\ \A x \in Seq([b : Bufs, t : Nat]) : [timer EXCEPT !.reports = x] \in TimerTypes
      /\ timer.br \in -1 .. Jitter /\ timer.exp \in -1 .. Second /\ timer.pans \in Seq(Nat)
      /\ timer.reports \in Seq([b : Bufs, t : Nat])
  BY <1>1, RecordEdit, Zenon DEF TimerTypes
<1>3. \A r \in TimerTypes : [r EXCEPT !.br = -1] \in TimerTypes
  BY <1>1, RecordEdit, Zenon DEF TimerTypes
<1>4. \A cnt : StartExpiry(timer, cnt) \in TimerTypes
  BY <1>1, <1>2 DEF StartExpiry
<1>5. [timer EXCEPT !.pans = Append(@, PanDelay)] \in TimerTypes
  <2>1. Append(timer.pans, PanDelay) \in Seq(Nat)
    BY <1>2, Consts
  <2>. QED BY <1>2, <2>1, Zenon
<1>. QED BY <1>1, <1>2, <1>3, <1>4, <1>5, Zenon

LEMMA NextExecutionType ==
  ASSUME BuffersInv
  PROVE  NextExecution \in -1 .. Jitter
<1>. DEFINE S == {Jitter} \cup {brrt[i].due : i \in {j \in Used(brrt) : brrt[j].retries < MaxRetries}}
<1>1. S \in SUBSET Nat
  <2>1. TablesTyped /\ Used(brrt) \subseteq 1 .. BrrSize
    BY TablesFinite DEF BuffersInv
  <2>. QED BY <2>1, Consts DEF TablesTyped
<1>2. Jitter \in S /\ NextExecution = Min(S)
  BY DEF NextExecution
<1>. HIDE DEF S
<1>3. Min(S) \in S /\ Min(S) <= Jitter
  BY <1>1, <1>2, MinIn
<1>4. Min(S) \in Nat
  BY <1>1, <1>3
<1>. QED BY <1>2, <1>3, <1>4, Consts

LEMMA TimerActions ==
  ASSUME Next
  PROVE  \/ UNCHANGED timer
         \/ ForwardDirect \/ ForwardBroadcast \/ BrNothing \/ BroadcastIndication \/ IndicateReport \/ IndicateUpdate
         \/ BeaconIndication \/ Alarm \/ Elapse
<1>1. CASE Environment
  <2>1. UNCHANGED timer
    BY <1>1 DEF Environment, Receive, Beacon, AppSend, SendStatus, AppGet, AppSet
  <2>. QED BY <2>1
<1>2. CASE ForwardBttFull \/ BrNeedsBuffer \/ BrTransmit
           \/ DataRequest \/ DataConfirm \/ CallBrConfirm \/ CallStatusIndication \/ NldeConfirm \/ NldeIndication
  BY <1>2 DEF ForwardBttFull, BrNeedsBuffer, BrTransmit, DataRequest, DataConfirm, CallBrConfirm, CallStatusIndication,
              NldeConfirm, NldeIndication
<1>3. CASE StatusIndication \/ DropIndication \/ UnicastIndication \/ NewBuffer \/ IndicateData \/ IndicateStatus
  BY <1>3 DEF StatusIndication, DropIndication, UnicastIndication, NewBuffer, IndicateData, IndicateStatus
<1>4. CASE SendNwkUpdate \/ SendStatusInd \/ DoSetPanid \/ StartRequest \/ StartConfirm \/ DoGet \/ DoSet \/ GetConfirm \/ SetConfirm
  BY <1>4 DEF SendNwkUpdate, SendStatusInd, DoSetPanid, StartRequest, StartConfirm, DoGet, DoSet, GetConfirm, SetConfirm
<1>5. ASSUME NEW b \in Bufs, MacDone(b)
      PROVE  UNCHANGED timer
  BY <1>5 DEF MacDone
<1>. QED BY <1>1, <1>2, <1>3, <1>4, <1>5 DEF Next, Callback

LEMMA TimersStep ==
  ASSUME BuffersInv, Next
  PROVE  TimersTyped'
<1>0. TimersTyped' <=> timer' \in TimerTypes
  BY DEF TimersTyped, TimerTypes
<1>1. CASE UNCHANGED timer
  BY <1>0, <1>1, TimerFits
<1>2. CASE ForwardDirect \/ BroadcastIndication
  <2>1. timer' = timer \/ timer' = StartExpiry(timer, btt_cnt + 1)
    BY <1>2 DEF ForwardDirect, BroadcastIndication
  <2>. QED BY <1>0, <2>1, TimerFits
<1>3. CASE ForwardBroadcast
  <2>. DEFINE t == IF btt' = btt THEN timer ELSE StartExpiry(timer, btt_cnt')
  <2>1. timer' = t \/ timer' = [t EXCEPT !.br = -1]
    BY <1>3 DEF ForwardBroadcast
  <2>2. t \in TimerTypes
    BY TimerFits
  <2>. HIDE DEF t
  <2>3. [t EXCEPT !.br = -1] \in TimerTypes
    BY <2>2, TimerFits, Zenon
  <2>. QED BY <1>0, <2>1, <2>2, <2>3
<1>4. CASE BrNothing
  <2>1. timer' = timer \/ timer' = [timer EXCEPT !.br = NextExecution]
    BY <1>4 DEF BrNothing
  <2>2. [timer EXCEPT !.br = NextExecution] \in TimerTypes
    BY TimerFits, NextExecutionType, Zenon
  <2>. QED BY <1>0, <2>1, <2>2, TimerFits
<1>5. CASE IndicateReport \/ IndicateUpdate \/ BeaconIndication
  <2>1. \/ timer' = timer \/ timer' = [timer EXCEPT !.pans = Append(@, PanDelay)]
        \/ P \in Bufs /\ timer' = [timer EXCEPT !.reports = Append(@, [b |-> P, t |-> ReportDelay])]
    <3>1. CASE IndicateReport
      BY <3>1 DEF IndicateReport, Announce
    <3>2. CASE IndicateUpdate
      BY <3>2 DEF IndicateUpdate
    <3>3. CASE BeaconIndication
      <4>1. P \in Bufs
        BY <3>3, HeadFacts DEF BeaconIndication
      <4>. QED BY <3>3, <4>1 DEF BeaconIndication, Announce
    <3>. QED BY <1>5, <3>1, <3>2, <3>3
  <2>2. ASSUME P \in Bufs
        PROVE  [timer EXCEPT !.reports = Append(@, [b |-> P, t |-> ReportDelay])] \in TimerTypes
    <3>1. [b |-> P, t |-> ReportDelay] \in [b : Bufs, t : Nat]
      BY <2>2, Consts
    <3>2. \A S, q, e : q \in Seq(S) /\ e \in S => Append(q, e) \in Seq(S)
      OBVIOUS
    <3>3. Append(timer.reports, [b |-> P, t |-> ReportDelay]) \in Seq([b : Bufs, t : Nat])
      BY <3>1, <3>2, TimerFits, Zenon
    <3>. QED BY <3>3, TimerFits, Zenon
  <2>. QED BY <1>0, <2>1, <2>2, TimerFits
<1>6. CASE Alarm
  <2>1. CASE BrAlarm
    <3>1. timer' = [timer EXCEPT !.br = -1]
      BY <2>1 DEF BrAlarm
    <3>. QED BY <1>0, <3>1, TimerFits, Zenon
  <2>2. CASE BtrExpiry
    <3>1. timer' = [timer EXCEPT !.exp = Second] \/ timer' = [timer EXCEPT !.exp = -1]
      BY <2>2 DEF BtrExpiry
    <3>2. Second \in -1 .. Second /\ -1 \in -1 .. Second
      BY Consts
    <3>. QED BY <1>0, <3>1, <3>2, TimerFits, Zenon
  <2>3. CASE SendNetworkReport
    <3>1. timer.reports # <<>> /\ timer' = [timer EXCEPT !.reports = Tail(timer.reports)]
      BY <2>3 DEF SendNetworkReport
    <3>2. Tail(timer.reports) \in Seq([b : Bufs, t : Nat])
      BY <3>1, TimerFits, HeadOfSeq, Zenon
    <3>. QED BY <1>0, <3>1, <3>2, TimerFits, Zenon
  <2>4. CASE SetPanidAlarm
    <3>1. timer.pans # <<>> /\ timer' = [timer EXCEPT !.pans = Tail(timer.pans)]
      BY <2>4 DEF SetPanidAlarm
    <3>2. Tail(timer.pans) \in Seq(Nat)
      BY <3>1, TimerFits, HeadOfSeq, Zenon
    <3>. QED BY <1>0, <3>1, <3>2, TimerFits, Zenon
  <2>. QED BY <1>6, <2>1, <2>2, <2>3, <2>4 DEF Alarm
<1>7. CASE Elapse
  <2>. DEFINE d == Min(Upcoming)
              pans == [i \in DOMAIN timer.pans |-> timer.pans[i] - d]
              reports == [i \in DOMAIN timer.reports |-> [timer.reports[i] EXCEPT !.t = @ - d]]
  <2>1. /\ timer' = [br |-> Minus(timer.br, d), exp |-> Minus(timer.exp, d), pans |-> pans, reports |-> reports]
        /\ Upcoming # {}
    BY <1>7 DEF Elapse
  <2>2. d \in Nat /\ \A x \in Upcoming : d <= x /\ x \in Nat
    BY <2>1, UpcomingFacts
  <2>. HIDE DEF d
  <2>3. \A m \in Nat \ {0} : \A x \in -1 .. m : Minus(x, d) \in -1 .. m
    BY <2>2 DEF Minus
  <2>4. Minus(timer.br, d) \in -1 .. Jitter /\ Minus(timer.exp, d) \in -1 .. Second
    BY <2>3, TimerFits, Consts, Zenon
  <2>5. pans \in Seq(Nat)
    <3>1. timer.pans \in Seq(Nat)
      BY TimerFits
    <3>2. \A i \in DOMAIN timer.pans : timer.pans[i] \in Upcoming
      BY DEF Upcoming, Running, Range
    <3>3. \A i \in DOMAIN timer.pans : timer.pans[i] - d \in Nat
      BY <2>2, <3>2
    <3>4. DOMAIN timer.pans = 1 .. Len(timer.pans) /\ Len(timer.pans) \in Nat
      BY <3>1
    <3>5. pans \in [1 .. Len(timer.pans) -> Nat]
      BY <3>3, <3>4
    <3>. HIDE DEF pans
    <3>. QED BY <3>4, <3>5
  <2>6. reports \in Seq([b : Bufs, t : Nat])
    <3>1. timer.reports \in Seq([b : Bufs, t : Nat])
      BY TimerFits
    <3>2. \A i \in DOMAIN timer.reports : timer.reports[i] \in [b : Bufs, t : Nat]
      BY <3>1, SeqElements, Zenon
    <3>3. \A i \in DOMAIN timer.reports : timer.reports[i].t \in Upcoming
      BY DEF Upcoming, Running, Range
    <3>4. \A i \in DOMAIN timer.reports : timer.reports[i].t - d \in Nat
      BY <2>2, <3>3
    <3>5. \A i \in DOMAIN timer.reports : [timer.reports[i] EXCEPT !.t = @ - d] \in [b : Bufs, t : Nat]
      BY <3>2, <3>4
    <3>6. DOMAIN timer.reports = 1 .. Len(timer.reports) /\ Len(timer.reports) \in Nat
      <4>1. \A S : \A q \in Seq(S) : DOMAIN q = 1 .. Len(q) /\ Len(q) \in Nat
        OBVIOUS
      <4>. QED BY <3>1, <4>1, Zenon
    <3>7. reports \in [1 .. Len(timer.reports) -> [b : Bufs, t : Nat]]
      BY <3>5, <3>6
    <3>8. \A S : \A k \in Nat : \A q \in [1 .. k -> S] : q \in Seq(S)
      OBVIOUS
    <3>. HIDE DEF reports
    <3>. QED BY <3>6, <3>7, <3>8, Zenon
  <2>. HIDE DEF pans, reports
  <2>7. timer' \in TimerTypes
    BY <2>1, <2>4, <2>5, <2>6 DEF TimerTypes
  <2>. QED BY <1>0, <2>7
<1>. QED BY <1>1, <1>2, <1>3, <1>4, <1>5, <1>6, <1>7, TimerActions

-----------------------------------------------------------------------------
\* The information base and the state of the resolution.

PcTyped(h) ==
  DOMAIN h = {"conflict", "state", "new", "known"} /\ h.state \in {"idle", "resolution"} /\ h.conflict \in BOOLEAN
AttrTyped(at) == DOMAIN at = Attrs

LEMMA PcEdits ==
  ASSUME NEW h, PcTyped(h)
  PROVE  /\ \A id : PcTyped(NetworkUpdate(h, id)) /\ PcTyped(ScheduleReport(h, id))
         /\ \A ids : PcTyped(Reported(h, ids))
         /\ PcTyped(ConflictAtManager(h)) /\ PcTyped(ConflictOver(h)) /\ PcTyped(SetPanid(h))
         /\ PcTyped([h EXCEPT !.state = "idle"])
BY DEF PcTyped, NetworkUpdate, ScheduleReport, Reported, ConflictAtManager, ConflictOver, SetPanid

LEMMA AttrEdits ==
  ASSUME NEW at, AttrTyped(at)
  PROVE  /\ AttrTyped(NextSeq(at)) /\ AttrTyped(BeaconPayloadUpdated(at))
         /\ \A req : AttrTyped(PibUpdated(at, req))
         /\ \A a, v : AttrTyped([at EXCEPT ![a] = v])
BY DEF AttrTyped, NextSeq, BeaconPayloadUpdated, PibUpdated

LEMMA SetKeepsDomain ==
  ASSUME AttrTyped(attr), NEW layer, NEW a, NEW v
  PROVE  AttrTyped(SetRequest(layer, a, v))
<1>1. /\ AttrTyped(MlmeSetRequest(a, v)) /\ AttrTyped(NlmeSetRequest(a, v)) /\ AttrTyped(ApsmeSetRequest(a, v))
  BY AttrEdits DEF MlmeSetRequest, NlmeSetRequest, ApsmeSetRequest
<1>. QED BY <1>1 DEF SetRequest

LEMMA MixStays ==
  ASSUME Next
  PROVE  mix' = mix
<1>1. CASE Environment
  <2>1. UNCHANGED mix
    BY <1>1 DEF Environment, Receive, Beacon, AppSend, SendStatus, AppGet, AppSet, Stay
  <2>. QED BY <2>1
<1>2. CASE ForwardDirect \/ ForwardBttFull \/ ForwardBroadcast \/ BrNeedsBuffer \/ BrTransmit \/ BrNothing
           \/ DataRequest \/ DataConfirm \/ CallBrConfirm \/ CallStatusIndication \/ NldeConfirm \/ NldeIndication
  BY <1>2 DEF ForwardDirect, ForwardBttFull, ForwardBroadcast, BrNeedsBuffer, BrTransmit, BrNothing,
              DataRequest, DataConfirm, CallBrConfirm, CallStatusIndication, NldeConfirm, NldeIndication, Stay
<1>3. CASE StatusIndication \/ DropIndication \/ BroadcastIndication \/ UnicastIndication \/ NewBuffer
           \/ IndicateData \/ IndicateStatus \/ IndicateReport \/ IndicateUpdate \/ BeaconIndication
  BY <1>3 DEF StatusIndication, DropIndication, BroadcastIndication, UnicastIndication, NewBuffer,
              IndicateData, IndicateStatus, IndicateReport, IndicateUpdate, BeaconIndication, Stay
<1>4. CASE SendNwkUpdate \/ SendStatusInd \/ DoSetPanid \/ StartRequest \/ StartConfirm \/ DoGet \/ DoSet \/ GetConfirm \/ SetConfirm
  BY <1>4 DEF SendNwkUpdate, SendStatusInd, DoSetPanid, StartRequest, StartConfirm, DoGet, DoSet, GetConfirm, SetConfirm, Stay
<1>5. CASE Alarm \/ Elapse
  BY <1>5 DEF Alarm, BrAlarm, BtrExpiry, SendNetworkReport, SetPanidAlarm, Elapse, Stay
<1>6. ASSUME NEW b \in Bufs, MacDone(b)
      PROVE  mix' = mix
  BY <1>6 DEF MacDone, Stay
<1>. QED BY <1>1, <1>2, <1>3, <1>4, <1>5, <1>6 DEF Next, Callback

LEMMA BaseActions ==
  ASSUME Next
  PROVE  \/ UNCHANGED <<attr, pc>>
         \/ IndicateReport \/ IndicateUpdate \/ BeaconIndication \/ SendNetworkReport \/ SendNwkUpdate \/ SendStatusInd
         \/ DoSetPanid \/ StartRequest \/ StartConfirm \/ DoSet
         \/ (attr' = NextSeq(attr) /\ pc' = pc)
<1>1. CASE Environment
  <2>1. UNCHANGED <<attr, pc>> \/ (attr' = NextSeq(attr) /\ pc' = pc)
    BY <1>1 DEF Environment, Receive, Beacon, AppSend, SendStatus, AppGet, AppSet, base
  <2>. QED BY <2>1
<1>2. CASE ForwardDirect \/ ForwardBttFull \/ ForwardBroadcast \/ BrNeedsBuffer \/ BrTransmit \/ BrNothing
           \/ DataRequest \/ DataConfirm \/ CallBrConfirm \/ CallStatusIndication \/ NldeConfirm \/ NldeIndication
  BY <1>2 DEF ForwardDirect, ForwardBttFull, ForwardBroadcast, BrNeedsBuffer, BrTransmit, BrNothing,
              DataRequest, DataConfirm, CallBrConfirm, CallStatusIndication, NldeConfirm, NldeIndication, base
<1>3. CASE StatusIndication \/ DropIndication \/ BroadcastIndication \/ UnicastIndication \/ NewBuffer
           \/ IndicateData \/ IndicateStatus \/ DoGet \/ GetConfirm \/ SetConfirm
  BY <1>3 DEF StatusIndication, DropIndication, BroadcastIndication, UnicastIndication, NewBuffer,
              IndicateData, IndicateStatus, DoGet, GetConfirm, SetConfirm, base
<1>4. CASE BrAlarm \/ BtrExpiry \/ SetPanidAlarm \/ Elapse
  BY <1>4 DEF BrAlarm, BtrExpiry, SetPanidAlarm, Elapse, base
<1>5. ASSUME NEW b \in Bufs, MacDone(b)
      PROVE  UNCHANGED <<attr, pc>>
  BY <1>5 DEF MacDone, base
<1>. QED BY <1>1, <1>2, <1>3, <1>4, <1>5 DEF Next, Callback, Alarm

LEMMA BaseStep ==
  ASSUME BuffersInv, Next
  PROVE  BaseTyped'
<1>0. mix \in Mixes /\ AttrTyped(attr) /\ PcTyped(pc) /\ mix' = mix
  BY MixStays DEF BuffersInv, BaseTyped, AttrTyped, PcTyped
<1>a. \A h : PcTyped(h) =>
        /\ \A id : PcTyped(NetworkUpdate(h, id)) /\ PcTyped(ScheduleReport(h, id))
        /\ \A ids : PcTyped(Reported(h, ids))
        /\ PcTyped(ConflictAtManager(h)) /\ PcTyped(ConflictOver(h)) /\ PcTyped(SetPanid(h))
        /\ PcTyped([h EXCEPT !.state = "idle"])
  BY PcEdits
<1>b. ASSUME NEW b, NEW h, PcTyped(h), Announce(b, h)
      PROVE  AttrTyped(attr') /\ PcTyped(pc')
  <2>1. PICK id \in Drawn(h.known) : pc' = NetworkUpdate(h, id) /\ attr' = BeaconPayloadUpdated(attr)
    BY <1>b DEF Announce
  <2>. QED BY <1>0, <1>a, <1>b, <2>1, AttrEdits
<1>s. AttrTyped(attr') /\ PcTyped(pc') => BaseTyped'
  BY <1>0 DEF BaseTyped, AttrTyped, PcTyped
<1>1. CASE UNCHANGED <<attr, pc>>
  BY <1>0, <1>1, <1>s
<1>2. CASE attr' = NextSeq(attr) /\ pc' = pc
  BY <1>0, <1>2, <1>s, AttrEdits
<1>3. CASE IndicateReport
  <2>1. (attr' = attr /\ pc' = pc) \/ Announce(P, Reported(pc, F.pl.ids))
    BY <1>3 DEF IndicateReport, base
  <2>. QED BY <1>0, <1>a, <1>b, <1>s, <2>1
<1>4. CASE IndicateUpdate
  <2>1. \/ attr' = attr /\ pc' = pc
        \/ attr' = UpdateReceived(F.pl) /\ pc' = NetworkUpdate(pc, F.pl.pan)
    BY <1>4 DEF IndicateUpdate, base
  <2>2. AttrTyped(UpdateReceived(F.pl))
    <3>1. \A at : AttrTyped(at) => AttrTyped(BeaconPayloadUpdated(at)) /\ \A a, v : AttrTyped([at EXCEPT ![a] = v])
      BY AttrEdits
    <3>. QED BY <1>0, <3>1 DEF UpdateReceived
  <2>. QED BY <1>0, <1>a, <1>s, <2>1, <2>2
<1>5. CASE BeaconIndication
  <2>1. \/ attr' = attr /\ pc' = pc
        \/ Announce(P, ConflictAtManager(pc))
        \/ attr' = attr /\ pc' = ScheduleReport(pc, F.pan)
    BY <1>5 DEF BeaconIndication, base
  <2>. QED BY <1>0, <1>a, <1>b, <1>s, <2>1
<1>6. CASE SendNetworkReport
  <2>1. pc' = pc /\ (attr' = NextSeq(attr) \/ attr' = attr)
    BY <1>6 DEF SendNetworkReport
  <2>. QED BY <1>0, <1>s, <2>1, AttrEdits
<1>7. CASE SendNwkUpdate
  BY <1>0, <1>7, <1>s, AttrEdits DEF SendNwkUpdate
<1>8. CASE SendStatusInd \/ DoSetPanid
  <2>1. attr' = attr /\ (pc' = ConflictOver(pc) \/ pc' = SetPanid(pc))
    BY <1>8 DEF SendStatusInd, DoSetPanid
  <2>. QED BY <1>0, <1>a, <1>s, <2>1
<1>9. CASE StartRequest
  <2>1. pc' = pc /\ attr' = PibUpdated(attr, F.req)
    BY <1>9 DEF StartRequest
  <2>. QED BY <1>0, <1>s, <2>1, AttrEdits
<1>10. CASE StartConfirm
  <2>1. attr' = attr /\ (pc' = pc \/ pc' = [pc EXCEPT !.state = "idle"])
    BY <1>10 DEF StartConfirm
  <2>. QED BY <1>0, <1>a, <1>s, <2>1
<1>11. CASE DoSet
  <2>1. pc' = pc /\ attr' = SetRequest(F.layer, F.attr, F.value)
    BY <1>11 DEF DoSet
  <2>. QED BY <1>0, <1>s, <2>1, SetKeepsDomain
<1>. QED BY <1>1, <1>2, <1>3, <1>4, <1>5, <1>6, <1>7, <1>8, <1>9, <1>10, <1>11, BaseActions

-----------------------------------------------------------------------------
\* The history.

LogFits(lg) ==
  /\ DOMAIN lg = LogFields /\ lg.own \in Nat
  /\ \A id \in DOMAIN lg.life : lg.life[id] \in 0 .. BtrSeconds * Second
  /\ \A f \in lg.sent : DOMAIN f = FrameFields /\ IsFrame(f)

LEMMA LogEdits ==
  ASSUME NEW lg, LogFits(lg)
  PROVE  /\ \A x \in LogFields \ {"own", "life", "sent"} : \A v : LogFits([lg EXCEPT ![x] = v])
         /\ LogFits(OwnId(lg))
         /\ \A id : LogFits([lg EXCEPT !.life = IF id \in DOMAIN @ THEN @ ELSE Updated(@, id, BtrSeconds * Second)])
<1>1. \A x \in LogFields \ {"own", "life", "sent"} : \A v : LogFits([lg EXCEPT ![x] = v])
  BY DEF LogFits, LogFields
<1>2. LogFits(OwnId(lg))
  BY DEF LogFits, LogFields, OwnId
<1>3. ASSUME NEW id
      PROVE  LogFits([lg EXCEPT !.life = IF id \in DOMAIN @ THEN @ ELSE Updated(@, id, BtrSeconds * Second)])
  <2>. DEFINE v == IF id \in DOMAIN lg.life THEN lg.life ELSE Updated(lg.life, id, BtrSeconds * Second)
  <2>1. \A m, k \in Nat : m * k \in 0 .. m * k
    OBVIOUS
  <2>2. \A j \in DOMAIN v : v[j] \in 0 .. BtrSeconds * Second
    BY <2>1, Consts DEF Updated, LogFits
  <2>. HIDE DEF v
  <2>3. LogFits([lg EXCEPT !.life = v])
    BY <2>2 DEF LogFits, LogFields
  <2>. QED BY <2>3 DEF v
<1>. QED BY <1>1, <1>2, <1>3

LEMMA HistoryEdits ==
  ASSUME NEW lg, LogFits(lg)
  PROVE  /\ \A v : LogFits([lg EXCEPT !.dropped = v]) /\ LogFits([lg EXCEPT !.started = v])
         /\ \A v : LogFits([lg EXCEPT !.acked = v]) /\ LogFits([lg EXCEPT !.conf = v]) /\ LogFits([lg EXCEPT !.ind = v])
         /\ \A v : LogFits([lg EXCEPT !.overtaken = v]) /\ LogFits([lg EXCEPT !.set = v])
         /\ \A v, w : LogFits([lg EXCEPT !.pan = v, !.overtaken = w])
BY DEF LogFits, LogFields

Tells == IndicateReport \/ IndicateUpdate \/ BeaconIndication
Setting == \E g \in mix.sets : AppSet(g[1], g[2], g[3])

LEMMA LogActions ==
  ASSUME Next
  PROVE  \/ UNCHANGED log \/ log' = OwnId(log) \/ DataRequest \/ Elapse
         \/ \E f \in Foreign \cup Repeated, k \in DOMAIN Nbt : Receive(f, k)
         \/ \E v : \/ log' = [log EXCEPT !.dropped = v] \/ log' = [log EXCEPT !.started = v] \/ log' = [log EXCEPT !.acked = v]
                   \/ log' = [log EXCEPT !.conf = v] \/ (NldeIndication /\ log' = [log EXCEPT !.ind = v])
                   \/ (Tells /\ log' = [log EXCEPT !.overtaken = v]) \/ (Setting /\ log' = [log EXCEPT !.set = v])
                   \/ (Tells /\ \E w : log' = [log EXCEPT !.pan = v, !.overtaken = w])
<1>1. CASE Environment
  <2>1. CASE \E d \in mix.dsts, r \in mix.radii : AppSend(d, r)
    BY <2>1 DEF AppSend
  <2>2. CASE \E d \in mix.dsts : SendStatus(d)
    BY <2>2 DEF SendStatus
  <2>3. CASE \E pan \in mix.pans : Beacon(pan)
    BY <2>3 DEF Beacon
  <2>4. CASE \E g \in mix.gets : AppGet(g[1], g[2])
    BY <2>4 DEF AppGet
  <2>5. CASE \E g \in mix.sets : AppSet(g[1], g[2], g[3])
    <3>1. PICK a, v : log' = [log EXCEPT !.set = Updated(@, a, v)] \/ log' = log
      BY <2>5 DEF AppSet
    <3>2. Setting
      BY <2>5 DEF Setting
    <3>. QED BY <3>1, <3>2
  <2>. QED BY <1>1, <2>1, <2>2, <2>3, <2>4, <2>5 DEF Environment
<1>2. CASE ForwardDirect \/ BrNeedsBuffer \/ BrTransmit \/ BrNothing
           \/ DataConfirm \/ CallBrConfirm \/ CallStatusIndication
  BY <1>2 DEF ForwardDirect, BrNeedsBuffer, BrTransmit, BrNothing, DataConfirm, CallBrConfirm, CallStatusIndication
<1>3. CASE ForwardBttFull \/ ForwardBroadcast \/ NldeConfirm \/ NldeIndication \/ BroadcastIndication
  <2>1. CASE ForwardBttFull
    BY <2>1 DEF ForwardBttFull
  <2>2. CASE ForwardBroadcast
    BY <2>2 DEF ForwardBroadcast
  <2>3. CASE NldeConfirm
    BY <2>3 DEF NldeConfirm
  <2>4. CASE NldeIndication
    BY <2>4 DEF NldeIndication
  <2>5. CASE BroadcastIndication
    BY <2>5 DEF BroadcastIndication
  <2>. QED BY <1>3, <2>1, <2>2, <2>3, <2>4, <2>5
<1>4. CASE StatusIndication \/ DropIndication \/ UnicastIndication \/ NewBuffer \/ IndicateData \/ IndicateStatus
           \/ SendStatusInd \/ DoSetPanid \/ StartRequest \/ StartConfirm \/ DoGet \/ DoSet \/ GetConfirm \/ SetConfirm
  BY <1>4 DEF StatusIndication, DropIndication, UnicastIndication, NewBuffer, IndicateData, IndicateStatus,
              SendStatusInd, DoSetPanid, StartRequest, StartConfirm, DoGet, DoSet, GetConfirm, SetConfirm
<1>5. CASE IndicateReport \/ IndicateUpdate \/ BeaconIndication
  <2>1. CASE IndicateReport
    BY <2>1 DEF IndicateReport, Announce, Tells
  <2>2. CASE IndicateUpdate
    BY <2>2 DEF IndicateUpdate, Tells
  <2>3. CASE BeaconIndication
    BY <2>3 DEF BeaconIndication, Announce, Tells
  <2>. QED BY <1>5, <2>1, <2>2, <2>3
<1>6. CASE SendNwkUpdate \/ SendNetworkReport
  BY <1>6 DEF SendNwkUpdate, SendNetworkReport
<1>7. CASE BrAlarm \/ BtrExpiry \/ SetPanidAlarm
  BY <1>7 DEF BrAlarm, BtrExpiry, SetPanidAlarm
<1>8. ASSUME NEW b \in Bufs, MacDone(b)
      PROVE  UNCHANGED log
  BY <1>8 DEF MacDone
<1>. QED BY <1>1, <1>2, <1>3, <1>4, <1>5, <1>6, <1>7, <1>8 DEF Next, Callback, Alarm

LEMMA RequestLog ==
  ASSUME LogFits(log), DataRequest, DOMAIN F = FrameFields, IsFrame(F)
  PROVE  LogFits(log')
<1>. DEFINE life == IF F.id \in DOMAIN log.life THEN log.life ELSE Updated(log.life, F.id, BtrSeconds * Second)
            tx == log.tx (+) SetToBag({<<F.id, F.mdst>>})
            late == IF F.id \in DOMAIN log.life \/ Remembered(F) THEN log.late ELSE log.late \cup {F.id}
            c == [F EXCEPT !.mdst = F.dst, !.handle = "internal"]
            sent == log.sent \cup {c}
<1>1. log' = [log EXCEPT !.tx = tx, !.life = life, !.late = late, !.sent = sent]
  BY DEF DataRequest
<1>2. LogFits([log EXCEPT !.life = life])
  BY LogEdits
<1>3. DOMAIN c = FrameFields /\ IsFrame(c)
  BY DEF IsFrame, FrameFields
<1>4. \A f \in sent : DOMAIN f = FrameFields /\ IsFrame(f)
  BY <1>3 DEF LogFits
<1>5. \A id \in DOMAIN life : life[id] \in 0 .. BtrSeconds * Second
  <2>. HIDE DEF life
  <2>. QED BY <1>2 DEF LogFits, LogFields
<1>. HIDE DEF life, tx, late, sent
<1>. QED BY <1>1, <1>4, <1>5 DEF LogFits, LogFields

LEMMA LogStep ==
  ASSUME BuffersInv, Next
  PROVE  LogTyped'
<1>0. LogFits(log) /\ (LogFits(log') <=> LogTyped')
  BY DEF BuffersInv, LogTyped, LogFits
<1>1. CASE UNCHANGED log \/ log' = OwnId(log)
  BY <1>0, <1>1, LogEdits
<1>2. CASE DataRequest
  <2>1. DOMAIN F = FrameFields /\ IsFrame(F)
    BY <1>2, HeadFacts DEF DataRequest, FrameFns
  <2>. QED BY <1>0, <1>2, <2>1, RequestLog
<1>3. ASSUME NEW f, NEW k, Receive(f, k)
      PROVE  LogFits(log')
  <2>1. log' = [log EXCEPT !.life = IF f.id \in DOMAIN @ THEN @ ELSE Updated(@, f.id, BtrSeconds * Second)]
    BY <1>3 DEF Receive
  <2>. QED BY <1>0, <2>1, LogEdits
<1>4. CASE Elapse
  <2>. DEFINE d == Min(Upcoming)
              life == [i \in DOMAIN log.life |-> Minus(log.life[i], d)]
  <2>1. log' = [log EXCEPT !.life = life] /\ Upcoming # {}
    BY <1>4 DEF Elapse
  <2>2. d \in Nat
    BY <2>1, UpcomingFacts
  <2>. HIDE DEF d
  <2>3. \A m \in Nat : \A x \in 0 .. m : Minus(x, d) \in 0 .. m
    BY <2>2 DEF Minus
  <2>4. \A m, k \in Nat : m * k \in Nat
    OBVIOUS
  <2>5. BtrSeconds * Second \in Nat
    BY <2>4, Consts
  <2>6. \A i \in DOMAIN life : life[i] \in 0 .. BtrSeconds * Second
    BY <1>0, <2>3, <2>5 DEF LogFits
  <2>. HIDE DEF life
  <2>. QED BY <1>0, <2>1, <2>6 DEF LogFits, LogFields
<1>5. ASSUME NEW v,
             \/ log' = [log EXCEPT !.dropped = v] \/ log' = [log EXCEPT !.started = v] \/ log' = [log EXCEPT !.acked = v]
             \/ log' = [log EXCEPT !.conf = v] \/ log' = [log EXCEPT !.ind = v] \/ log' = [log EXCEPT !.overtaken = v]
             \/ log' = [log EXCEPT !.set = v] \/ \E w : log' = [log EXCEPT !.pan = v, !.overtaken = w]
      PROVE  LogFits(log')
  <2>0. /\ LogFits([log EXCEPT !.dropped = v]) /\ LogFits([log EXCEPT !.started = v])
        /\ LogFits([log EXCEPT !.acked = v]) /\ LogFits([log EXCEPT !.conf = v]) /\ LogFits([log EXCEPT !.ind = v])
        /\ LogFits([log EXCEPT !.overtaken = v]) /\ LogFits([log EXCEPT !.set = v])
        /\ \A w : LogFits([log EXCEPT !.pan = v, !.overtaken = w])
    BY <1>0, HistoryEdits
  <2>1. CASE log' = [log EXCEPT !.dropped = v] \/ log' = [log EXCEPT !.started = v] \/ log' = [log EXCEPT !.acked = v]
    BY <2>0, <2>1, Zenon
  <2>2. CASE log' = [log EXCEPT !.conf = v] \/ log' = [log EXCEPT !.ind = v] \/ log' = [log EXCEPT !.overtaken = v]
    BY <2>0, <2>2, Zenon
  <2>3. CASE log' = [log EXCEPT !.set = v] \/ \E w : log' = [log EXCEPT !.pan = v, !.overtaken = w]
    BY <2>0, <2>3, Zenon
  <2>. QED BY <1>5, <2>1, <2>2, <2>3
<1>. QED BY <1>0, <1>1, <1>2, <1>3, <1>4, <1>5, LogActions

-----------------------------------------------------------------------------
\* The invariant.

LEMMA Remains ==
  ASSUME BuffersInv, UNCHANGED vars
  PROVE  BuffersInv'
<1>1. WorkInv'
  BY WorkStays
<1>2. TablesTyped' /\ TimersTyped' /\ BaseTyped' /\ LogTyped'
  BY DEF BuffersInv, vars, TablesTyped, TimersTyped, BaseTyped, LogTyped, Used, Me
<1>. QED BY <1>1, <1>2 DEF BuffersInv

LEMMA Steps ==
  ASSUME BuffersInv, [Next]_vars
  PROVE  BuffersInv'
<1>1. CASE Next
  <2>1. WorkInv' /\ TablesTyped' /\ TimersTyped' /\ BaseTyped' /\ LogTyped'
    BY <1>1, WorkStep, TablesStep, TimersStep, BaseStep, LogStep
  <2>. QED BY <2>1 DEF BuffersInv
<1>2. CASE UNCHANGED vars
  BY <1>2, Remains
<1>. QED BY <1>1, <1>2

LEMMA Starts0 ==
  ASSUME Init
  PROVE  BuffersInv
<1>. USE DEF Init
<1>e. Cardinality({}) = 0
  BY FS_EmptySet
<1>1. Used(btt) = {} /\ Used(brrt) = {}
  BY DEF Used, FreeBtr, FreeBrr
<1>d. DOMAIN wait_alloc = {} /\ DOMAIN mac = {} /\ DOMAIN timer.reports = {}
  OBVIOUS
<1>2. /\ work.buf = [b \in Bufs |-> NoBuf] /\ work.cb = <<>> /\ work.wait = [d \in {"in", "out"} |-> <<>>]
      /\ work = [buf |-> work.buf, cb |-> work.cb, wait |-> work.wait]
  OBVIOUS
<1>3. WellMade(work)
  <2>1. \A b \in Bufs : Content(work.buf[b])
    BY <1>2, KindsApart
  <2>2. work.cb \in Seq(Calls)
    BY <1>2
  <2>3. work.wait \in [{"in", "out"} -> Seq(WaitFns)]
    BY <1>2
  <2>4. DOMAIN work.cb = {}
    BY <1>2
  <2>5. work.buf = [b \in Bufs |-> work.buf[b]]
    BY <1>2
  <2>. QED BY <1>2, <2>1, <2>2, <2>3, <2>4, <2>5 DEF WellMade, WorkTyped, CallsMeant
<1>4. Owned
  <2>. SUFFICES ASSUME NEW b \in Bufs PROVE Rest(work, b) = Outside(b)
    BY DEF Owned
  <2>1. Calling(work, b) = {}
    BY <1>2 DEF Calling
  <2>2. Want(work, b) = 0
    BY <1>2, KindsApart DEF Want
  <2>3. InTable(b) = {} /\ InWait(b) = {} /\ InReports(b) = {} /\ InMac(b) = {}
    <3>. HIDE DEF Init
    <3>. QED BY <1>1, <1>d DEF InTable, InWait, InReports, InMac
  <2>. HIDE DEF Init
  <2>. QED BY <1>e, <2>1, <2>2, <2>3 DEF Rest, Outside
<1>5. FramesHeld
  <2>. HIDE DEF Init
  <2>. QED BY <1>1, <1>d DEF FramesHeld
<1>6. TablesTyped
  <2>1. BtrEntry(FreeBtr) /\ BrrEntry(FreeBrr) /\ ~FreeBrr.used
    BY BtrEntries, BrrEntries
  <2>2. BttSound(btt, btt_cnt) /\ BrrtSound(brrt, brrt_cnt)
    BY <1>1, <1>e, <2>1 DEF BttSound, BrrtSound
  <2>3. wait_alloc \in Seq(Bufs) /\ Len(wait_alloc) <= WaitSize /\ mac \in Seq(Bufs)
    BY Consts
  <2>. QED BY <2>2, <2>3, TablesSplit
<1>7. TimersTyped
  <2>1. -1 \in -1 .. Jitter /\ -1 \in -1 .. Second
    BY Consts
  <2>. QED BY <2>1 DEF TimersTyped
<1>8. BaseTyped
  <2>1. DOMAIN attr = Attrs
    BY DEF InitAttr, Defaults
  <2>. QED BY <2>1 DEF BaseTyped, InitConflict
<1>9. LogTyped
  BY DEF LogTyped, LogFields
<1>. QED BY <1>3, <1>4, <1>5, <1>6, <1>7, <1>8, <1>9 DEF BuffersInv, WorkInv

(* What the buffers, tables, alarms and histories keep in every step: a    *)
(* buffer in use has one holder, who holds a frame (nwk_main.c:488-1110).  *)
THEOREM BuffersInductive == Spec => []BuffersInv
BY Starts0, Steps, PTL DEF Spec

LEMMA BuffersInvSound == BuffersInv => BuffersSound
<1>. SUFFICES ASSUME BuffersInv PROVE BuffersSound
  OBVIOUS
<1>1. TypeOK
  <2>1. \A i \in DOMAIN work.cb : work.cb[i].p \in Bufs \cup {0}
    <3>1. work.cb \in Seq(Calls)
      BY DEF BuffersInv, WorkInv, WellMade, WorkTyped
    <3>2. \A i \in DOMAIN work.cb : work.cb[i] \in Calls
      BY <3>1, SeqElements, Zenon
    <3>. QED BY <3>2 DEF Calls
  <2>2. timer.br \in -1 .. Jitter /\ timer.exp \in -1 .. Second
    BY TimerFits
  <2>3. Range(mac) \subseteq Bufs
    <3>1. mac \in Seq(Bufs)
      BY DEF BuffersInv, TablesTyped
    <3>. QED BY <3>1, SeqElements DEF Range
  <2>. QED BY <2>1, <2>2, <2>3 DEF TypeOK, BuffersInv, TablesTyped, BaseTyped
<1>2. BuffersOwned
  <2>. SUFFICES ASSUME NEW b \in Bufs PROVE Holders(b) = Want(work, b)
    BY DEF BuffersOwned, Want
  <2>1. Outside(b) + Cardinality(Calling(work, b)) = Want(work, b)
    BY OneHolder
  <2>2. /\ Cardinality(InTable(b)) \in Nat /\ Cardinality(InWait(b)) \in Nat
        /\ Cardinality(InReports(b)) \in Nat /\ Cardinality(InMac(b)) \in Nat
    BY HoldersCounted DEF BuffersInv
  <2>3. Cardinality(Calling(work, b)) \in Nat
    BY CallingPlaces DEF BuffersInv, WorkInv, WellMade, WorkTyped
  <2>4. Holders(b) = Cardinality(Calling(work, b)) + Cardinality(InTable(b)) + Cardinality(InWait(b))
                     + Cardinality(InReports(b)) + Cardinality(InMac(b))
    BY DEF Holders, Calling, InTable, InWait, InReports, InMac
  <2>. QED BY <2>1, <2>2, <2>3, <2>4 DEF Outside
<1>. QED BY <1>1, <1>2 DEF BuffersSound

(* Counters and tables agree, and no order of copies, acknowledgements,    *)
(* timeouts and shortages of buffers gives a buffer two holders            *)
(* (nwk_main.c:488-1110).                                                  *)
THEOREM BuffersAreSound == Spec => []BuffersSound
BY BuffersInductive, BuffersInvSound, PTL

-----------------------------------------------------------------------------
\* What the operations on the buffers and the queue leave of the frames and of
\* the calls that hand them up.

Shaped(w) ==
  /\ w = [buf |-> w.buf, cb |-> w.cb, wait |-> w.wait] /\ w.buf = [b \in Bufs |-> w.buf[b]]
  /\ w.cb \in Seq(Calls) /\ w.wait \in [{"in", "out"} -> Seq(WaitFns)]

LEMMA CalledSays ==
  ASSUME NEW v, Shaped(v), NEW fn \in Fns, NEW p \in Bufs \cup {0}
  PROVE  /\ Shaped(Called(v, fn, p)) /\ Called(v, fn, p).buf = v.buf /\ Called(v, fn, p).wait = v.wait
         /\ \A f, b : Says(Called(v, fn, p), f, b) <=> Says(v, f, b) \/ (f = fn /\ b = p)
<1>. DEFINE u == Called(v, fn, p)
            c == [fn |-> fn, p |-> p]
<1>1. v = [buf |-> v.buf, cb |-> v.cb, wait |-> v.wait] /\ v.cb \in Seq(Calls)
  BY DEF Shaped
<1>2. u = [v EXCEPT !.cb = Append(v.cb, c)]
  BY DEF Called
<1>3. c \in Calls /\ c.fn = fn /\ c.p = p
  BY DEF Calls
<1>. HIDE DEF u, c
<1>4. u = [buf |-> v.buf, cb |-> Append(v.cb, c), wait |-> v.wait]
  BY <1>1, <1>2, WorkEdits, Zenon
<1>5. u.buf = v.buf /\ u.wait = v.wait /\ u.cb = Append(v.cb, c)
  BY <1>4, WorkParts, Zenon
<1>6. /\ Append(v.cb, c) \in Seq(Calls) /\ DOMAIN Append(v.cb, c) = 1 .. Len(v.cb) + 1 /\ DOMAIN v.cb = 1 .. Len(v.cb)
      /\ Len(v.cb) \in Nat /\ Append(v.cb, c)[Len(v.cb) + 1] = c /\ \A i \in 1 .. Len(v.cb) : Append(v.cb, c)[i] = v.cb[i]
  BY <1>1, <1>3
<1>7. Shaped(u)
  BY <1>4, <1>5, <1>6 DEF Shaped
<1>8. ASSUME NEW f, NEW b
      PROVE  Says(u, f, b) <=> Says(v, f, b) \/ (f = fn /\ b = p)
  <2>1. ASSUME NEW i \in DOMAIN u.cb, u.cb[i].fn = f /\ u.cb[i].p = b
        PROVE  Says(v, f, b) \/ (f = fn /\ b = p)
    <3>1. i \in 1 .. Len(v.cb) \/ i = Len(v.cb) + 1
      BY <1>5, <1>6
    <3>. QED BY <1>3, <1>5, <1>6, <2>1, <3>1 DEF Says
  <2>2. ASSUME NEW i \in DOMAIN v.cb, v.cb[i].fn = f /\ v.cb[i].p = b
        PROVE  Says(u, f, b)
    <3>1. i \in DOMAIN u.cb /\ u.cb[i] = v.cb[i]
      BY <1>5, <1>6
    <3>. QED BY <2>2, <3>1 DEF Says
  <2>3. Says(u, fn, p)
    <3>1. Len(v.cb) + 1 \in DOMAIN u.cb /\ u.cb[Len(v.cb) + 1] = c
      BY <1>5, <1>6
    <3>. QED BY <1>3, <3>1 DEF Says
  <2>. QED BY <2>1, <2>2, <2>3 DEF Says
<1>. QED BY <1>5, <1>7, <1>8 DEF u

LEMMA FilledSays ==
  ASSUME NEW v, Shaped(v), NEW b \in Bufs, NEW c
  PROVE  /\ Shaped(Filled(v, b, c)) /\ Filled(v, b, c).wait = v.wait
         /\ Filled(v, b, c).buf[b] = c /\ \A x \in Bufs : x # b => Filled(v, b, c).buf[x] = v.buf[x]
         /\ \A f, x : Says(Filled(v, b, c), f, x) <=> Says(v, f, x)
<1>. DEFINE u == Filled(v, b, c)
<1>1. v = [buf |-> v.buf, cb |-> v.cb, wait |-> v.wait] /\ v.buf = [x \in Bufs |-> v.buf[x]]
  BY DEF Shaped
<1>2. u = [v EXCEPT !.buf[b] = c]
  BY DEF Filled
<1>. HIDE DEF u
<1>3. u = [buf |-> [v.buf EXCEPT ![b] = c], cb |-> v.cb, wait |-> v.wait]
  BY <1>1, <1>2, WorkEdits, Zenon
<1>4. u.buf = [v.buf EXCEPT ![b] = c] /\ u.cb = v.cb /\ u.wait = v.wait
  BY <1>3, WorkParts, Zenon
<1>5. u.buf[b] = c /\ (\A x \in Bufs : x # b => u.buf[x] = v.buf[x]) /\ u.buf = [x \in Bufs |-> u.buf[x]]
  <2>1. \A g, h : g = [x \in Bufs |-> g[x]] /\ h = [g EXCEPT ![b] = c] =>
          h[b] = c /\ (\A x \in Bufs : x # b => h[x] = g[x]) /\ h = [x \in Bufs |-> h[x]]
    OBVIOUS
  <2>. QED BY <2>1, <1>1, <1>4, Zenon
<1>6. Shaped(u)
  BY <1>3, <1>4, <1>5 DEF Shaped
<1>. QED BY <1>4, <1>5, <1>6 DEF u, Says

LEMMA WaitedSays ==
  ASSUME NEW v, Shaped(v), NEW d \in {"in", "out"}, NEW q \in Seq(WaitFns)
  PROVE  Shaped(Waited(v, d, q)) /\ Waited(v, d, q).buf = v.buf /\ \A f, x : Says(Waited(v, d, q), f, x) <=> Says(v, f, x)
<1>. DEFINE u == Waited(v, d, q)
<1>1. v = [buf |-> v.buf, cb |-> v.cb, wait |-> v.wait] /\ v.wait \in [{"in", "out"} -> Seq(WaitFns)]
  BY DEF Shaped
<1>2. u = [v EXCEPT !.wait[d] = q]
  BY DEF Waited
<1>. HIDE DEF u
<1>3. u = [buf |-> v.buf, cb |-> v.cb, wait |-> [v.wait EXCEPT ![d] = q]]
  BY <1>1, <1>2, WorkEdits, Zenon
<1>4. u.buf = v.buf /\ u.cb = v.cb /\ u.wait = [v.wait EXCEPT ![d] = q]
  BY <1>3, WorkParts, Zenon
<1>5. u.wait \in [{"in", "out"} -> Seq(WaitFns)]
  <2>1. \A g \in [{"in", "out"} -> Seq(WaitFns)] : [g EXCEPT ![d] = q] \in [{"in", "out"} -> Seq(WaitFns)]
    OBVIOUS
  <2>. QED BY <2>1, <1>1, <1>4, Zenon
<1>6. Shaped(u)
  BY <1>3, <1>4, <1>5 DEF Shaped
<1>. QED BY <1>4, <1>6 DEF u, Says

LEMMA FreedSays ==
  ASSUME NEW v, Shaped(v), NEW b \in Bufs
  PROVE  /\ Shaped(Freed(v, b))
         /\ \A x \in Bufs : IsFrame(Freed(v, b).buf[x]) => x # b /\ Freed(v, b).buf[x] = v.buf[x]
         /\ \A f \in Loud : \A x : Says(Freed(v, b), f, x) <=> Says(v, f, x)
<1>. DEFINE d == Dir(b)
            q == v.wait[d]
<1>1. d \in {"in", "out"} /\ q \in Seq(WaitFns)
  BY DirOf DEF Shaped
<1>2. CASE q = <<>>
  <2>1. Freed(v, b) = Filled(v, b, NoBuf)
    BY <1>2 DEF Freed, Filled
  <2>. QED BY <2>1, KindsApart, FilledSays
<1>3. CASE q # <<>>
  <2>. DEFINE u == Filled(v, b, Fresh)
              w == Waited(u, d, Tail(q))
              fn == Head(q)
  <2>1. /\ Shaped(u) /\ u.buf[b] = Fresh /\ (\A x \in Bufs : x # b => u.buf[x] = v.buf[x])
        /\ \A f, x : Says(u, f, x) <=> Says(v, f, x)
    BY FilledSays
  <2>2. fn \in WaitFns /\ Tail(q) \in Seq(WaitFns) /\ fn \in Fns /\ fn \notin Loud
    <3>1. fn \in WaitFns /\ Tail(q) \in Seq(WaitFns)
      BY <1>1, <1>3
    <3>. QED BY <3>1 DEF WaitFns, Fns, Loud, Up
  <2>3. Freed(v, b) = Called([v EXCEPT !.buf[b] = Fresh, !.wait[d] = Tail(q)], fn, b)
    BY <1>3 DEF Freed
  <2>4. [v EXCEPT !.buf[b] = Fresh, !.wait[d] = Tail(q)] = w
    BY DEF Filled, Waited
  <2>. HIDE DEF d, q, fn, u, w
  <2>5. Shaped(w) /\ w.buf = u.buf /\ \A f, x : Says(w, f, x) <=> Says(u, f, x)
    <3>1. d \in {"in", "out"} /\ Tail(q) \in Seq(WaitFns) /\ Shaped(u)
      BY <1>1, <2>1, <2>2
    <3>. QED BY <3>1, WaitedSays DEF w
  <2>6. b \in Bufs \cup {0}
    OBVIOUS
  <2>7. /\ Shaped(Called(w, fn, b)) /\ Called(w, fn, b).buf = w.buf
        /\ \A f, x : Says(Called(w, fn, b), f, x) <=> Says(w, f, x) \/ (f = fn /\ x = b)
    BY <2>2, <2>5, <2>6, CalledSays
  <2>. QED BY <2>1, <2>2, <2>3, <2>4, <2>5, <2>7, KindsApart
<1>. QED BY <1>2, <1>3

LEMMA AskedSays ==
  ASSUME NEW v, Shaped(v), NEW d \in {"in", "out"}, NEW fn \in WaitFns
  PROVE  /\ Shaped(Asked(v, d, fn))
         /\ \A x \in Bufs : IsFrame(Asked(v, d, fn).buf[x]) => Asked(v, d, fn).buf[x] = v.buf[x]
         /\ \A f \in Loud : \A x : Says(Asked(v, d, fn), f, x) <=> Says(v, f, x)
<1>0. v.wait[d] \in Seq(WaitFns) /\ fn \in Fns /\ fn \notin Loud
  BY DEF Shaped, WaitFns, Fns, Loud, Up
<1>1. CASE FreeOf(v, d) = {}
  <2>1. Asked(v, d, fn) = Waited(v, d, Append(v.wait[d], fn))
    BY <1>1 DEF Asked, Waited
  <2>2. Append(v.wait[d], fn) \in Seq(WaitFns)
    BY <1>0
  <2>. DEFINE w == Waited(v, d, Append(v.wait[d], fn))
  <2>3. Shaped(w) /\ w.buf = v.buf /\ \A f, x : Says(w, f, x) <=> Says(v, f, x)
    BY <2>2, WaitedSays
  <2>. HIDE DEF w
  <2>. QED BY <2>1, <2>3 DEF w
<1>2. CASE FreeOf(v, d) # {}
  <2>. DEFINE b == Min(FreeOf(v, d))
              u == Filled(v, b, Fresh)
  <2>1. b \in Bufs
    <3>1. FreeOf(v, d) \in SUBSET Nat
      BY BufsTyped DEF FreeOf, Of
    <3>2. b \in FreeOf(v, d)
      BY <3>1, <1>2, MinIn
    <3>. QED BY <3>2 DEF FreeOf, Of
  <2>2. Asked(v, d, fn) = Called(u, fn, b)
    BY <1>2 DEF Asked, Filled
  <2>. HIDE DEF b, u
  <2>3. /\ Shaped(u) /\ u.buf[b] = Fresh /\ (\A x \in Bufs : x # b => u.buf[x] = v.buf[x])
        /\ \A f, x : Says(u, f, x) <=> Says(v, f, x)
    BY <2>1, FilledSays DEF u
  <2>4. /\ Shaped(Called(u, fn, b)) /\ Called(u, fn, b).buf = u.buf
        /\ \A f, x : Says(Called(u, fn, b), f, x) <=> Says(u, f, x) \/ (f = fn /\ x = b)
    BY <1>0, <2>1, <2>3, CalledSays
  <2>. QED BY <1>0, <2>2, <2>3, <2>4, KindsApart
<1>. QED BY <1>1, <1>2

-----------------------------------------------------------------------------
\* A new value of the work has no frames and no calls that hand a frame up but
\* those there were; only the buffer X may have another frame, alike to g.

Echo(v, X, g) ==
  /\ Shaped(v)
  /\ \A x \in Bufs : IsFrame(v.buf[x]) =>
       IF x = X THEN IsFrame(g) /\ Alike(v.buf[x], g) ELSE IsFrame(work.buf[x]) /\ Alike(v.buf[x], work.buf[x])
  /\ \A fn \in Loud : \A x \in Bufs : x # X /\ Says(v, fn, x) => Says(work, fn, x)
Mute(v, X) == X \in Bufs => \A fn \in Loud : ~Says(v, fn, X)
Quiet(v, X, g) == Echo(v, X, g) /\ Mute(v, X)

LEMMA EchoCalls ==
  ASSUME NEW v, NEW X, NEW g, Echo(v, X, g), NEW fn \in Fns, NEW p \in Bufs \cup {0}, fn \in Loud => p = X
  PROVE  Echo(Called(v, fn, p), X, g) /\ (fn \notin Loud /\ Mute(v, X) => Mute(Called(v, fn, p), X))
<1>. DEFINE u == Called(v, fn, p)
<1>1. Shaped(u) /\ u.buf = v.buf /\ \A f, b : Says(u, f, b) <=> Says(v, f, b) \/ (f = fn /\ b = p)
  BY CalledSays DEF Echo
<1>. HIDE DEF u
<1>. QED BY <1>1 DEF Echo, Mute, u

LEMMA EchoFills ==
  ASSUME NEW v, NEW X, NEW g, Echo(v, X, g), NEW b \in Bufs, NEW c
  PROVE  /\ b = X => Echo(Filled(v, b, c), X, c)
         /\ b # X /\ (IsFrame(c) => IsFrame(v.buf[b]) /\ Alike(c, v.buf[b])) => Echo(Filled(v, b, c), X, g)
         /\ Mute(v, X) => Mute(Filled(v, b, c), X)
<1>. DEFINE u == Filled(v, b, c)
<1>1. /\ Shaped(u) /\ u.buf[b] = c /\ (\A x \in Bufs : x # b => u.buf[x] = v.buf[x])
      /\ \A f, x : Says(u, f, x) <=> Says(v, f, x)
  BY FilledSays DEF Echo
<1>. HIDE DEF u
<1>2. Alike(c, c)
  BY DEF Alike
<1>3. ASSUME b # X, IsFrame(c) => IsFrame(v.buf[b]) /\ Alike(c, v.buf[b])
      PROVE  Echo(u, X, g)
  <2>1. IsFrame(c) => IsFrame(work.buf[b]) /\ Alike(c, work.buf[b])
    BY <1>3 DEF Echo, Alike
  <2>. QED BY <1>1, <1>3, <2>1 DEF Echo
<1>4. b = X => Echo(u, X, c)
  BY <1>1, <1>2 DEF Echo
<1>. QED BY <1>1, <1>3, <1>4 DEF Mute, u

LEMMA EchoFrees ==
  ASSUME NEW v, NEW X, NEW g, Echo(v, X, g), NEW b \in Bufs
  PROVE  Echo(Freed(v, b), X, g) /\ (Mute(v, X) => Mute(Freed(v, b), X))
<1>. DEFINE u == Freed(v, b)
<1>1. /\ Shaped(u) /\ (\A x \in Bufs : IsFrame(u.buf[x]) => x # b /\ u.buf[x] = v.buf[x])
      /\ \A f \in Loud : \A x : Says(u, f, x) <=> Says(v, f, x)
  BY FreedSays DEF Echo
<1>. HIDE DEF u
<1>. QED BY <1>1 DEF Echo, Mute, u

LEMMA EchoAsks ==
  ASSUME NEW v, NEW X, NEW g, Echo(v, X, g), NEW d \in {"in", "out"}, NEW fn \in WaitFns
  PROVE  Echo(Asked(v, d, fn), X, g) /\ (Mute(v, X) => Mute(Asked(v, d, fn), X))
<1>. DEFINE u == Asked(v, d, fn)
<1>1. /\ Shaped(u) /\ (\A x \in Bufs : IsFrame(u.buf[x]) => u.buf[x] = v.buf[x])
      /\ \A f \in Loud : \A x : Says(u, f, x) <=> Says(v, f, x)
  BY AskedSays DEF Echo
<1>. HIDE DEF u
<1>. QED BY <1>1 DEF Echo, Mute, u

\* Where every step starts from.
LEMMA EchoWork ==
  ASSUME BuffersInv
  PROVE  /\ Quiet(work, 0, NoBuf)
         /\ \A x \in Bufs : Echo(work, x, work.buf[x]) /\ (Calling(work, x) = {} => Mute(work, x))
<1>1. Shaped(work)
  BY DEF BuffersInv, WorkInv, WellMade, WorkTyped, Shaped
<1>2. 0 \notin Bufs
  BY BufsTyped
<1>3. \A x \in Bufs : Alike(work.buf[x], work.buf[x])
  BY DEF Alike
<1>4. \A x \in Bufs : Calling(work, x) = {} => Mute(work, x)
  BY DEF Mute, Says, Calling
<1>. QED BY <1>1, <1>2, <1>3, <1>4 DEF Echo, Mute, Quiet

LEMMA EchoRuns ==
  ASSUME BuffersInv, NEW fn, Runs(fn)
  PROVE  (P \in Bufs => Quiet(W, P, F)) /\ (P \notin Bufs => P = 0 /\ Quiet(W, 0, NoBuf))
<1>1. /\ WellMade(W) /\ W.buf = work.buf /\ W.cb = Tail(work.cb) /\ work.cb \in Seq(Calls) /\ work.cb # <<>>
      /\ P \in Bufs \cup {0} /\ (P \in Bufs => Calling(W, P) = {})
  BY HeadFacts
<1>2. \A i \in DOMAIN W.cb : i + 1 \in DOMAIN work.cb /\ W.cb[i] = work.cb[i + 1]
  BY <1>1
<1>3. \A f, x : Says(W, f, x) => Says(work, f, x)
  BY <1>2 DEF Says
<1>4. Shaped(W)
  BY <1>1 DEF WellMade, WorkTyped, Shaped
<1>5. P \in Bufs => Mute(W, P)
  BY <1>1 DEF Mute, Says, Calling
<1>6. 0 \notin Bufs
  BY BufsTyped
<1>7. \A x \in Bufs : Alike(work.buf[x], work.buf[x])
  BY DEF Alike
<1>8. P \in Bufs => Echo(W, P, F)
  BY <1>1, <1>3, <1>4, <1>7 DEF Echo, F
<1>9. Quiet(W, 0, NoBuf)
  BY <1>1, <1>3, <1>4, <1>6, <1>7 DEF Echo, Mute, Quiet
<1>. QED BY <1>1, <1>5, <1>8, <1>9 DEF Quiet

-----------------------------------------------------------------------------
\* Steps that hand up nothing new: no frame comes, no broadcast rises, and
\* nothing is heard that was not there.

FromHeld(g) == \E h : Held(h) /\ Alike(g, h)
HeldKept == \A f : Held(f)' => FromHeld(f)
RisingKept == \A b : Rising(b)' => Rising(b) /\ Alike(work'.buf[b], work.buf[b])
HeardKept == \A b \in Bufs : Says(work', "dataInd", b) => Says(work, "dataInd", b) /\ Alike(work'.buf[b], work.buf[b])
Steady == HeldKept /\ RisingKept /\ HeardKept

LEMMA EchoStep ==
  ASSUME NEW X, NEW g, Echo(work', X, g)
  PROVE  /\ \A f : Held(f)' => (IsFrame(g) /\ Alike(f, g)) \/ FromHeld(f)
         /\ (\A b : b # X /\ Waiting(b)' => Waiting(b)) => \A b : b # X /\ Rising(b)' => Rising(b) /\ Alike(work'.buf[b], work.buf[b])
<1>1. \A x \in Bufs : IsFrame(work'.buf[x]) =>
        IF x = X THEN IsFrame(g) /\ Alike(work'.buf[x], g) ELSE IsFrame(work.buf[x]) /\ Alike(work'.buf[x], work.buf[x])
  BY DEF Echo
<1>2. ASSUME NEW f, Held(f)'
      PROVE  (IsFrame(g) /\ Alike(f, g)) \/ FromHeld(f)
  <2>1. PICK b \in Bufs : work'.buf[b] = f /\ IsFrame(f)
    BY <1>2 DEF Held
  <2>2. CASE b = X
    BY <1>1, <2>1, <2>2
  <2>3. CASE b # X
    BY <1>1, <2>1, <2>3 DEF FromHeld, Held
  <2>. QED BY <2>2, <2>3
<1>3. ASSUME \A b : b # X /\ Waiting(b)' => Waiting(b), NEW b, b # X, Rising(b)'
      PROVE  Rising(b) /\ Alike(work'.buf[b], work.buf[b])
  <2>1. b \in Bufs /\ IsFrame(work'.buf[b]) /\ IsBroadcast(work'.buf[b].dst)
    BY <1>3 DEF Rising
  <2>2. IsFrame(work.buf[b]) /\ Alike(work'.buf[b], work.buf[b]) /\ IsBroadcast(work.buf[b].dst)
    BY <1>1, <1>3, <2>1 DEF Alike
  <2>3. Waiting(b) \/ \E fn \in Up : Says(work', fn, b)
    BY <1>3 DEF Rising
  <2>4. Waiting(b) \/ \E fn \in Up : Says(work, fn, b)
    BY <1>3, <2>1, <2>3 DEF Echo, Loud
  <2>. QED BY <2>1, <2>2, <2>4 DEF Rising
<1>. QED BY <1>2, <1>3

LEMMA HeardStep ==
  ASSUME BuffersInv', NEW X, NEW g, Echo(work', X, g), NEW b \in Bufs, b # X, Says(work', "dataInd", b)
  PROVE  Says(work, "dataInd", b) /\ Alike(work'.buf[b], work.buf[b])
<1>1. IsFrame(work'.buf[b])
  <2>1. CallsMeant(work')
    BY DEF BuffersInv, WorkInv, WellMade
  <2>. QED BY <2>1 DEF CallsMeant, Says, FrameFns
<1>. QED BY <1>1 DEF Echo, Loud

LEMMA QuietStep ==
  ASSUME BuffersInv', NEW X, NEW g, Quiet(work', X, g), ~Waiting(X), wait_alloc' = wait_alloc
  PROVE  /\ \A f : Held(f)' => (IsFrame(g) /\ Alike(f, g)) \/ FromHeld(f)
         /\ RisingKept /\ HeardKept
<1>1. Echo(work', X, g) /\ Mute(work', X)
  BY DEF Quiet
<1>a. \A b : Waiting(b)' => Waiting(b)
  BY DEF Waiting
<1>2. /\ \A f : Held(f)' => (IsFrame(g) /\ Alike(f, g)) \/ FromHeld(f)
      /\ \A b : b # X /\ Rising(b)' => Rising(b) /\ Alike(work'.buf[b], work.buf[b])
  BY <1>1, <1>a, EchoStep
<1>3. ~Rising(X)'
  <2>1. ~Waiting(X)'
    BY DEF Waiting
  <2>. QED BY <1>1, <2>1 DEF Rising, Mute, Loud
<1>4. RisingKept
  BY <1>2, <1>3 DEF RisingKept
<1>5. HeardKept
  <2>1. ASSUME NEW b \in Bufs, Says(work', "dataInd", b)
        PROVE  Says(work, "dataInd", b) /\ Alike(work'.buf[b], work.buf[b])
    <3>1. b # X
      BY <1>1, <2>1 DEF Mute, Loud
    <3>. QED BY <1>1, <2>1, <3>1, HeardStep
  <2>. QED BY <2>1 DEF HeardKept
<1>. QED BY <1>2, <1>4, <1>5

LEMMA NotWaiting ==
  ASSUME BuffersInv
  PROVE  ~Waiting(0) /\ \A x \in Bufs : Outside(x) = 0 => ~Waiting(x)
<1>1. \A i \in DOMAIN wait_alloc : wait_alloc[i] \in Bufs /\ Outside(wait_alloc[i]) # 0
  BY HeldOutside
<1>. QED BY <1>1, BufsTyped DEF Waiting

LEMMA PlainStep ==
  ASSUME BuffersInv', NEW X, NEW g, Quiet(work', X, g), ~Waiting(X), wait_alloc' = wait_alloc, IsFrame(g) => FromHeld(g)
  PROVE  Steady
<1>1. /\ \A f : Held(f)' => (IsFrame(g) /\ Alike(f, g)) \/ FromHeld(f)
      /\ RisingKept /\ HeardKept
  BY QuietStep
<1>2. HeldKept
  BY <1>1 DEF HeldKept, FromHeld, Alike
<1>. QED BY <1>1, <1>2 DEF Steady

\* The steps without a buffer of their own, and those of a buffer called with.
LEMMA WithoutBuffer ==
  ASSUME BuffersInv, BuffersInv', Quiet(work', 0, NoBuf), wait_alloc' = wait_alloc
  PROVE  Steady
BY PlainStep, NotWaiting, KindsApart

LEMMA WithBuffer ==
  ASSUME BuffersInv, BuffersInv', NEW fn, Runs(fn), P \in Bufs, NEW g, Quiet(work', P, g), wait_alloc' = wait_alloc,
         IsFrame(g) => IsFrame(F) /\ Alike(g, F)
  PROVE  Steady
<1>1. PICK p : p = P
  OBVIOUS
<1>2. p \in Bufs /\ Quiet(work', p, g) /\ Outside(p) = 0
  BY <1>1, HeadFacts
<1>3. IsFrame(g) => FromHeld(g)
  BY <1>1, <1>2 DEF FromHeld, Held, F
<1>. QED BY <1>2, <1>3, PlainStep, NotWaiting

LEMMA WithFree ==
  ASSUME BuffersInv, BuffersInv', NEW d, FreeOf(work, d) # {}, NEW c, ~IsFrame(c), NEW fn \in Fns \ Loud,
         work' = Called(Filled(work, Min(FreeOf(work, d)), c), fn, Min(FreeOf(work, d))), wait_alloc' = wait_alloc
  PROVE  Steady
<1>1. PICK b : b = Min(FreeOf(work, d))
  OBVIOUS
<1>2. b \in Bufs /\ work.buf[b] = NoBuf /\ work' = Called(Filled(work, b, c), fn, b)
  BY <1>1, FreeFacts
<1>3. Outside(b) = 0 /\ Calling(work, b) = {}
  BY <1>2, KindsApart, OneHolder
<1>4. Echo(work, b, work.buf[b]) /\ Mute(work, b)
  BY <1>2, <1>3, EchoWork
<1>5. Echo(Filled(work, b, c), b, c) /\ Mute(Filled(work, b, c), b)
  BY <1>2, <1>4, EchoFills
<1>6. Quiet(work', b, c)
  BY <1>2, <1>5, EchoCalls DEF Quiet
<1>. QED BY <1>2, <1>3, <1>6, PlainStep, NotWaiting

\* A buffer called with is given back, kept, or called with again.
LEMMA SteadyForms ==
  ASSUME BuffersInv, BuffersInv', NEW g, Runs(g), P \in Bufs, wait_alloc' = wait_alloc
  PROVE  /\ work' = W => Steady
         /\ work' = Freed(W, P) => Steady
         /\ \A fn \in Fns \ Loud : work' = Called(W, fn, P) => Steady
         /\ \A fn \in Fns \ Loud : \A fm \in WaitFns : work' = Asked(Called(W, fn, P), "in", fm) => Steady
         /\ \A fn \in Fns \ Loud : \A c :
              (IsFrame(c) => IsFrame(F) /\ Alike(c, F)) /\ work' = Called(Filled(W, P, c), fn, P) => Steady
         /\ \A fm \in WaitFns : \A c :
              (IsFrame(c) => IsFrame(F) /\ Alike(c, F)) /\ work' = Asked(Filled(W, P, c), "out", fm) => Steady
<1>0. Echo(W, P, F) /\ Mute(W, P) /\ P \in Bufs \cup {0}
  BY EchoRuns DEF Quiet
<1>a. \A h : Quiet(work', P, h) /\ (IsFrame(h) => IsFrame(F) /\ Alike(h, F)) => Steady
  BY WithBuffer
<1>b. Alike(F, F)
  BY DEF Alike
<1>c. ASSUME NEW c
      PROVE  Echo(Filled(W, P, c), P, c) /\ Mute(Filled(W, P, c), P)
  BY <1>0, EchoFills
<1>1. work' = W => Steady
  BY <1>0, <1>a, <1>b DEF Quiet
<1>2. work' = Freed(W, P) => Steady
  <2>1. Echo(Freed(W, P), P, F) /\ Mute(Freed(W, P), P)
    BY <1>0, EchoFrees
  <2>. QED BY <1>a, <1>b, <2>1 DEF Quiet
<1>3. ASSUME NEW fn \in Fns \ Loud
      PROVE  Echo(Called(W, fn, P), P, F) /\ Mute(Called(W, fn, P), P)
  BY <1>0, EchoCalls
<1>4. ASSUME NEW fn \in Fns \ Loud, work' = Called(W, fn, P)
      PROVE  Steady
  BY <1>a, <1>b, <1>3, <1>4 DEF Quiet
<1>5. ASSUME NEW fn \in Fns \ Loud, NEW fm \in WaitFns, work' = Asked(Called(W, fn, P), "in", fm)
      PROVE  Steady
  <2>. DEFINE v == Called(W, fn, P)
  <2>1. Echo(v, P, F) /\ Mute(v, P) /\ "in" \in {"in", "out"}
    BY <1>3
  <2>. HIDE DEF v
  <2>2. Echo(Asked(v, "in", fm), P, F) /\ Mute(Asked(v, "in", fm), P)
    BY <2>1, EchoAsks
  <2>. QED BY <1>a, <1>b, <1>5, <2>2 DEF Quiet, v
<1>6. ASSUME NEW fn \in Fns \ Loud, NEW c, IsFrame(c) => IsFrame(F) /\ Alike(c, F), work' = Called(Filled(W, P, c), fn, P)
      PROVE  Steady
  <2>. DEFINE v == Filled(W, P, c)
  <2>1. Echo(v, P, c) /\ Mute(v, P)
    BY <1>c
  <2>. HIDE DEF v
  <2>2. Echo(Called(v, fn, P), P, c) /\ Mute(Called(v, fn, P), P)
    BY <1>0, <2>1, EchoCalls
  <2>. QED BY <1>a, <1>6, <2>2 DEF Quiet, v
<1>7. ASSUME NEW fm \in WaitFns, NEW c, IsFrame(c) => IsFrame(F) /\ Alike(c, F), work' = Asked(Filled(W, P, c), "out", fm)
      PROVE  Steady
  <2>. DEFINE v == Filled(W, P, c)
  <2>1. Echo(v, P, c) /\ Mute(v, P) /\ "out" \in {"in", "out"}
    BY <1>c
  <2>. HIDE DEF v
  <2>2. Echo(Asked(v, "out", fm), P, c) /\ Mute(Asked(v, "out", fm), P)
    BY <2>1, EchoAsks
  <2>. QED BY <1>a, <1>7, <2>2 DEF Quiet, v
<1>. QED BY <1>1, <1>2, <1>4, <1>5, <1>6, <1>7

LEMMA MdstAlike ==
  ASSUME NEW c, DOMAIN c = FrameFields, IsFrame(c), NEW x \in {"mdst", "handle", "st", "radius", "from"}, NEW e
  PROVE  IsFrame([c EXCEPT ![x] = e]) /\ Alike([c EXCEPT ![x] = e], c) /\ DOMAIN [c EXCEPT ![x] = e] = FrameFields
BY DEF IsFrame, Alike, FrameFields

LEMMA SimpleSteady ==
  ASSUME BuffersInv, BuffersInv',
         \/ ForwardDirect \/ ForwardBttFull \/ DropIndication
         \/ CallStatusIndication \/ NldeConfirm \/ NldeIndication \/ StatusIndication \/ IndicateStatus
         \/ SendStatusInd \/ StartRequest \/ GetConfirm \/ SetConfirm \/ DoSetPanid \/ DoGet \/ DoSet
  PROVE  Steady
<1>. USE DEF tables
<1>1. CASE ForwardDirect
  <2>1. Runs("forward") /\ P \in Bufs /\ IsFrame(F) /\ DOMAIN F = FrameFields
    BY <1>1, HeadFacts DEF ForwardDirect, FrameFns
  <2>. DEFINE c == [F EXCEPT !.mdst = CalcDestination(F)]
  <2>2. IsFrame(c) /\ Alike(c, F)
    BY <2>1, MdstAlike
  <2>3. work' = Called(Filled(W, P, c), "dataReq", P) /\ wait_alloc' = wait_alloc
    BY <1>1 DEF ForwardDirect
  <2>4. "dataReq" \in Fns \ Loud
    BY DEF Fns, Loud, Up
  <2>. HIDE DEF c
  <2>. QED BY <2>1, <2>2, <2>3, <2>4, SteadyForms
<1>2. CASE ForwardBttFull \/ DropIndication \/ NldeConfirm \/ NldeIndication \/ StatusIndication \/ GetConfirm \/ SetConfirm
  <2>1. PICK g : Runs(g) /\ g # "brTrans" /\ work' = Freed(W, P) /\ wait_alloc' = wait_alloc
    BY <1>2 DEF ForwardBttFull, DropIndication, NldeConfirm, NldeIndication, StatusIndication, GetConfirm, SetConfirm
  <2>2. P \in Bufs
    BY <2>1, HeadFacts
  <2>. QED BY <2>1, <2>2, SteadyForms
<1>3. CASE CallStatusIndication \/ IndicateStatus \/ SendStatusInd \/ StartRequest
  <2>1. PICK g, fn : Runs(g) /\ g # "brTrans" /\ fn \in {"statusInd", "startConf"} /\ work' = Called(W, fn, P) /\ wait_alloc' = wait_alloc
    BY <1>3 DEF CallStatusIndication, IndicateStatus, SendStatusInd, StartRequest
  <2>2. P \in Bufs
    BY <2>1, HeadFacts
  <2>3. fn \in Fns \ Loud
    BY <2>1 DEF Fns, Loud, Up
  <2>. QED BY <2>1, <2>2, <2>3, SteadyForms
<1>4. CASE DoSetPanid \/ DoGet \/ DoSet
  <2>1. PICK g, fn, c : /\ Runs(g) /\ g # "brTrans" /\ fn \in {"startReq", "getConf", "setConf"} /\ c.kind \in {"start", "conf"}
                        /\ work' = Called(Filled(W, P, c), fn, P) /\ wait_alloc' = wait_alloc
    <3>1. CASE DoSetPanid
      BY <3>1 DEF DoSetPanid
    <3>2. CASE DoGet
      BY <3>2 DEF DoGet
    <3>3. CASE DoSet
      BY <3>3 DEF DoSet
    <3>. QED BY <1>4, <3>1, <3>2, <3>3
  <2>2. P \in Bufs
    BY <2>1, HeadFacts
  <2>3. fn \in Fns \ Loud /\ ~IsFrame(c)
    BY <2>1 DEF Fns, Loud, Up, IsFrame, Kinds
  <2>. QED BY <2>1, <2>2, <2>3, SteadyForms
<1>. QED BY <1>1, <1>2, <1>3, <1>4

LEMMA ConfirmedSteady ==
  ASSUME BuffersInv, BuffersInv', DataConfirm \/ CallBrConfirm
  PROVE  Steady
<1>1. PICK g \in {"dataConf", "brConf"} : Runs(g)
  BY DEF DataConfirm, CallBrConfirm
<1>2. work' = Confirmed(W, P, F) /\ wait_alloc' = wait_alloc
  BY DEF DataConfirm, CallBrConfirm, tables
<1>3. P \in Bufs
  BY <1>1, HeadFacts
<1>4. \/ work' = Freed(W, P) \/ work' = Called(W, "statusInd", P) \/ work' = Called(W, "nldeConf", P)
      \/ work' = Asked(Called(W, "nldeConf", P), "in", "callStatus")
  BY <1>2 DEF Confirmed
<1>5. {"statusInd", "nldeConf"} \subseteq Fns \ Loud /\ "callStatus" \in WaitFns
  BY DEF Fns, Loud, Up, WaitFns
<1>. QED BY <1>1, <1>2, <1>3, <1>4, <1>5, SteadyForms

\* A buffer called with may go on rising.
LEMMA LoudStep ==
  ASSUME BuffersInv', NEW p, NEW g, Echo(work', p, g), IsFrame(g) => FromHeld(g), wait_alloc' = wait_alloc,
         ~Says(work', "dataInd", p), Rising(p)' => Rising(p) /\ Alike(work'.buf[p], work.buf[p])
  PROVE  Steady
<1>a. \A b : Waiting(b)' => Waiting(b)
  BY DEF Waiting
<1>1. /\ \A f : Held(f)' => (IsFrame(g) /\ Alike(f, g)) \/ FromHeld(f)
      /\ \A b : b # p /\ Rising(b)' => Rising(b) /\ Alike(work'.buf[b], work.buf[b])
  BY <1>a, EchoStep
<1>2. HeldKept
  BY <1>1 DEF HeldKept, FromHeld, Alike
<1>3. RisingKept
  BY <1>1 DEF RisingKept
<1>4. HeardKept
  <2>1. ASSUME NEW b \in Bufs, Says(work', "dataInd", b)
        PROVE  Says(work, "dataInd", b) /\ Alike(work'.buf[b], work.buf[b])
    BY <2>1, HeardStep
  <2>. QED BY <2>1 DEF HeardKept
<1>. QED BY <1>2, <1>3, <1>4 DEF Steady

LEMMA DataSteady ==
  ASSUME BuffersInv, BuffersInv', IndicateData
  PROVE  Steady
<1>1. PICK p : p = P
  OBVIOUS
<1>2. Runs("frameInd") /\ work' = Called(W, "nldeInd", p) /\ wait_alloc' = wait_alloc
  BY <1>1 DEF IndicateData, tables
<1>3. p \in Bufs /\ Quiet(W, p, work.buf[p]) /\ IsFrame(work.buf[p]) /\ W.buf = work.buf
  BY <1>1, <1>2, HeadFacts, EchoRuns DEF F, FrameFns
<1>4. Echo(work', p, work.buf[p])
  BY <1>2, <1>3, EchoCalls DEF Fns, Quiet
<1>5. work'.buf = work.buf /\ \A f, b : Says(work', f, b) <=> Says(W, f, b) \/ (f = "nldeInd" /\ b = p)
  <2>1. "nldeInd" \in Fns /\ Shaped(W) /\ p \in Bufs \cup {0}
    BY <1>3 DEF Fns, Quiet, Echo
  <2>2. /\ Called(W, "nldeInd", p).buf = W.buf
        /\ \A f, b : Says(Called(W, "nldeInd", p), f, b) <=> Says(W, f, b) \/ (f = "nldeInd" /\ b = p)
    BY <2>1, CalledSays
  <2>. QED BY <1>2, <1>3, <2>2
<1>6. ~Says(work', "dataInd", p)
  BY <1>3, <1>5 DEF Quiet, Mute, Loud
<1>7. Says(work, "frameInd", p)
  <2>1. 1 \in DOMAIN work.cb /\ work.cb[1].fn = "frameInd" /\ work.cb[1] = Head(work.cb)
    BY <1>2, HeadFacts
  <2>. QED BY <1>1, <2>1 DEF Says, P
<1>8. ASSUME Rising(p)'
      PROVE  Rising(p) /\ Alike(work'.buf[p], work.buf[p])
  <2>1. IsBroadcast(work'.buf[p].dst)
    BY <1>8 DEF Rising
  <2>. QED BY <1>3, <1>5, <1>7, <2>1 DEF Rising, Alike, Up
<1>9. FromHeld(work.buf[p])
  BY <1>3 DEF FromHeld, Held, Alike
<1>. QED BY <1>2, <1>4, <1>6, <1>8, <1>9, LoudStep

LEMMA UnicastSteady ==
  ASSUME BuffersInv, BuffersInv', UnicastIndication
  PROVE  Steady
<1>1. PICK p : p = P
  OBVIOUS
<1>. DEFINE g == [F EXCEPT !.radius = @ - 1]
            v == Filled(W, p, g)
<1>2. Runs("dataInd") /\ ~IsBroadcast(F.dst) /\ work' = Disposed(F, W) /\ wait_alloc' = wait_alloc
  BY DEF UnicastIndication, tables
<1>3. p \in Bufs /\ p \in Bufs \cup {0} /\ IsFrame(F) /\ DOMAIN F = FrameFields /\ Quiet(W, p, F)
  BY <1>1, <1>2, HeadFacts, EchoRuns DEF FrameFns
<1>4. work' = Called(v, "forward", p) \/ work' = Called(v, "frameInd", p) \/ work' = Freed(v, p)
  <2>1. ~(Indicate(F) /\ Retransmit(F))
    BY <1>2 DEF Indicate, Retransmit
  <2>. QED BY <1>1, <1>2, <2>1 DEF Disposed
<1>5. IsFrame(g) /\ Alike(g, F) /\ DOMAIN g = FrameFields
  BY <1>3, MdstAlike
<1>. HIDE DEF g
<1>6. Echo(v, p, g) /\ Mute(v, p) /\ Shaped(v) /\ v.buf[p] = g
  <2>1. Echo(v, p, g) /\ Mute(v, p)
    BY <1>3, EchoFills DEF Quiet
  <2>2. v.buf[p] = g
    BY <1>3, FilledSays DEF Quiet, Echo
  <2>. QED BY <2>1, <2>2 DEF Echo
<1>. HIDE DEF v
<1>7. Echo(work', p, g)
  <2>1. "forward" \in Fns /\ "frameInd" \in Fns
    BY DEF Fns
  <2>2. Echo(Called(v, "forward", p), p, g) /\ Echo(Called(v, "frameInd", p), p, g)
    BY <1>3, <1>6, <2>1, EchoCalls
  <2>3. Echo(Freed(v, p), p, g)
    BY <1>3, <1>6, EchoFrees
  <2>. QED BY <1>4, <2>2, <2>3
<1>8. ~Says(work', "dataInd", p)
  <2>1. ~Says(v, "dataInd", p)
    BY <1>3, <1>6 DEF Mute, Loud
  <2>2. CASE work' = Freed(v, p)
    <3>1. \A f \in Loud : \A x : Says(Freed(v, p), f, x) <=> Says(v, f, x)
      BY <1>3, <1>6, FreedSays
    <3>. QED BY <2>1, <2>2, <3>1 DEF Loud
  <2>3. ASSUME NEW fn \in {"forward", "frameInd"}, work' = Called(v, fn, p)
        PROVE  ~Says(work', "dataInd", p)
    <3>1. \A f, b : Says(Called(v, fn, p), f, b) <=> Says(v, f, b) \/ (f = fn /\ b = p)
      <4>1. fn \in Fns
        BY DEF Fns
      <4>. QED BY <1>3, <1>6, <4>1, CalledSays
    <3>. QED BY <2>1, <2>3, <3>1
  <2>. QED BY <1>4, <2>2, <2>3
<1>9. ~Rising(p)'
  <2>1. IsFrame(work'.buf[p]) => Alike(work'.buf[p], g)
    BY <1>3, <1>7 DEF Echo
  <2>. QED BY <1>2, <1>5, <2>1 DEF Rising, Alike
<1>10. FromHeld(g)
  BY <1>1, <1>3, <1>5 DEF FromHeld, Held, F
<1>. QED BY <1>2, <1>7, <1>8, <1>9, <1>10, LoudStep

LEMMA ConflictSteady ==
  ASSUME BuffersInv, BuffersInv', IndicateReport \/ IndicateUpdate \/ BeaconIndication \/ StartConfirm
  PROVE  Steady
<1>1. PICK g : Runs(g) /\ g # "brTrans" /\ wait_alloc' = wait_alloc
  BY DEF IndicateReport, IndicateUpdate, BeaconIndication, StartConfirm, tables
<1>2. P \in Bufs
  BY <1>1, HeadFacts
<1>3. \/ work' = W \/ work' = Freed(W, P) \/ work' = Called(W, "sendUpdate", P) \/ work' = work
      \/ work' = Asked(Filled(W, P, Lost), "out", "sendStatus")
  <2>1. CASE IndicateReport
    BY <2>1 DEF IndicateReport, Announce
  <2>2. CASE IndicateUpdate
    BY <2>2 DEF IndicateUpdate
  <2>3. CASE BeaconIndication
    BY <2>3 DEF BeaconIndication, Announce
  <2>4. CASE StartConfirm
    BY <2>4 DEF StartConfirm
  <2>. QED BY <2>1, <2>2, <2>3, <2>4
<1>4. "sendUpdate" \in Fns \ Loud /\ "sendStatus" \in WaitFns /\ ~IsFrame(Lost)
  BY KindsApart DEF Fns, Loud, Up, WaitFns
<1>5. CASE work' = work
  <2>1. Quiet(work', 0, NoBuf)
    BY <1>5, EchoWork
  <2>. QED BY <1>1, <2>1, WithoutBuffer
<1>. QED BY <1>1, <1>2, <1>3, <1>4, <1>5, SteadyForms

LEMMA EnvironmentSteady ==
  ASSUME BuffersInv, BuffersInv',
         \/ \E pan \in mix.pans : Beacon(pan)
         \/ \E g \in mix.gets : AppGet(g[1], g[2])
         \/ \E g \in mix.sets : AppSet(g[1], g[2], g[3])
  PROVE  Steady
<1>1. PICK d, c, fn : /\ FreeOf(work, d) # {} /\ c.kind \in {"beacon", "get", "set"} /\ fn \in {"beaconInd", "getReq", "setReq"}
                      /\ work' = Called(Filled(work, Min(FreeOf(work, d)), c), fn, Min(FreeOf(work, d))) /\ wait_alloc' = wait_alloc
  <2>1. CASE \E pan \in mix.pans : Beacon(pan)
    BY <2>1 DEF Beacon, tables
  <2>2. CASE \E g \in mix.gets : AppGet(g[1], g[2])
    BY <2>2 DEF AppGet, tables
  <2>3. CASE \E g \in mix.sets : AppSet(g[1], g[2], g[3])
    BY <2>3 DEF AppSet, tables
  <2>. QED BY <2>1, <2>2, <2>3
<1>2. fn \in Fns \ Loud /\ ~IsFrame(c)
  BY <1>1 DEF Fns, Loud, Up, IsFrame, Kinds
<1>. QED BY <1>1, <1>2, WithFree

LEMMA TimeSteady ==
  ASSUME BuffersInv, BuffersInv', BrAlarm \/ BtrExpiry \/ Elapse \/ SetPanidAlarm \/ BrNeedsBuffer \/ BrNothing \/ DataRequest
  PROVE  Steady
<1>. USE DEF tables
<1>0. /\ Echo(work, 0, NoBuf) /\ Mute(work, 0) /\ "brTrans" \in Fns \ Loud /\ {"brTrans", "setPanid"} \subseteq WaitFns
      /\ "out" \in {"in", "out"} /\ 0 \in Bufs \cup {0} /\ 0 \notin Bufs
  BY EchoWork, BufsTyped DEF Quiet, Fns, Loud, Up, WaitFns
<1>1. CASE BrAlarm
  <2>1. work' = Called(work, "brTrans", 0) /\ wait_alloc' = wait_alloc
    BY <1>1 DEF BrAlarm
  <2>2. Quiet(work', 0, NoBuf)
    BY <1>0, <2>1, EchoCalls DEF Quiet
  <2>. QED BY <2>1, <2>2, WithoutBuffer
<1>2. CASE BtrExpiry \/ Elapse
  <2>1. work' = work /\ wait_alloc' = wait_alloc
    BY <1>2 DEF BtrExpiry, Elapse
  <2>2. Quiet(work', 0, NoBuf)
    BY <2>1, EchoWork
  <2>. QED BY <2>1, <2>2, WithoutBuffer
<1>3. CASE SetPanidAlarm
  <2>1. work' = Asked(work, "out", "setPanid") /\ wait_alloc' = wait_alloc
    BY <1>3 DEF SetPanidAlarm
  <2>2. Quiet(work', 0, NoBuf)
    BY <1>0, <2>1, EchoAsks DEF Quiet
  <2>. QED BY <2>1, <2>2, WithoutBuffer
<1>4. CASE BrNeedsBuffer
  <2>1. Runs("brTrans") /\ P = 0 /\ work' = Asked(W, "out", "brTrans") /\ wait_alloc' = wait_alloc
    BY <1>4 DEF BrNeedsBuffer
  <2>2. Echo(W, 0, NoBuf) /\ Mute(W, 0)
    BY <1>0, <2>1, EchoRuns DEF Quiet
  <2>3. Quiet(work', 0, NoBuf)
    BY <1>0, <2>1, <2>2, EchoAsks DEF Quiet
  <2>. QED BY <2>1, <2>3, WithoutBuffer
<1>5. CASE BrNothing
  <2>1. Runs("brTrans") /\ work' = (IF P = 0 THEN W ELSE Freed(W, P)) /\ wait_alloc' = wait_alloc
    BY <1>5 DEF BrNothing
  <2>2. CASE P = 0
    <3>1. Quiet(work', 0, NoBuf)
      BY <1>0, <2>1, <2>2, EchoRuns
    <3>. QED BY <2>1, <3>1, WithoutBuffer
  <2>3. CASE P # 0
    <3>1. P \in Bufs
      BY <2>1, <2>3, HeadFacts
    <3>. QED BY <2>1, <2>3, <3>1, SteadyForms
  <2>. QED BY <2>2, <2>3
<1>6. CASE DataRequest
  <2>1. Runs("dataReq") /\ work' = W /\ wait_alloc' = wait_alloc
    BY <1>6 DEF DataRequest
  <2>2. P \in Bufs
    BY <2>1, HeadFacts
  <2>. QED BY <2>1, <2>2, SteadyForms
<1>. QED BY <1>1, <1>2, <1>3, <1>4, <1>5, <1>6

LEMMA MacSteady ==
  ASSUME BuffersInv, BuffersInv', NEW b \in Bufs, MacDone(b)
  PROVE  Steady
<1>1. wait_alloc' = wait_alloc /\ "dataConf" \in Fns \ Loud /\ b \in Bufs \cup {0} /\ b # 0
  BY BufsTyped DEF MacDone, tables, Fns, Loud, Up
<1>2. Echo(work, 0, NoBuf) /\ Mute(work, 0)
  BY EchoWork DEF Quiet
<1>3. CASE work' = Called(work, "dataConf", b)
  <2>1. Quiet(work', 0, NoBuf)
    BY <1>1, <1>2, <1>3, EchoCalls DEF Quiet
  <2>. QED BY <1>1, <2>1, WithoutBuffer
<1>4. CASE work' = Called(Filled(work, b, [work.buf[b] EXCEPT !.st = "fail"]), "dataConf", b)
  <2>. DEFINE c == [work.buf[b] EXCEPT !.st = "fail"]
              v == Filled(work, b, c)
  <2>1. IsFrame(work.buf[b]) /\ DOMAIN work.buf[b] = FrameFields
    <3>1. PICK k \in DOMAIN mac : mac[k] = b
      BY DEF MacDone
    <3>. QED BY <3>1 DEF BuffersInv, WorkInv, FramesHeld, WellMade, WorkTyped, Content
  <2>2. IsFrame(c) => IsFrame(work.buf[b]) /\ Alike(c, work.buf[b])
    BY <2>1, MdstAlike
  <2>3. work' = Called(v, "dataConf", b)
    BY <1>4
  <2>. HIDE DEF c
  <2>4. Echo(v, 0, NoBuf) /\ Mute(v, 0)
    BY <1>1, <1>2, <2>2, EchoFills
  <2>. HIDE DEF v
  <2>5. Quiet(work', 0, NoBuf)
    BY <1>1, <2>3, <2>4, EchoCalls DEF Quiet
  <2>. QED BY <1>1, <2>5, WithoutBuffer
<1>. QED BY <1>3, <1>4 DEF MacDone

LEMMA ForwardSteady ==
  ASSUME BuffersInv, BuffersInv', ForwardBroadcast
  PROVE  Steady
<1>1. Runs("forward") /\ wait_alloc' = wait_alloc
  BY DEF ForwardBroadcast
<1>2. P \in Bufs /\ IsFrame(F) /\ DOMAIN F = FrameFields
  BY <1>1, HeadFacts DEF FrameFns
<1>. DEFINE c == [F EXCEPT !.mdst = All]
<1>3. IsFrame(c) /\ Alike(c, F) /\ "brTrans" \in WaitFns
  BY <1>2, MdstAlike DEF WaitFns
<1>4. work' = Asked(Filled(W, P, c), "out", "brTrans") \/ work' = Freed(W, P)
  BY DEF ForwardBroadcast
<1>. HIDE DEF c
<1>. QED BY <1>1, <1>2, <1>3, <1>4, SteadyForms

LEMMA TransmitSteady ==
  ASSUME BuffersInv, BuffersInv', BrTransmit
  PROVE  Steady
<1>1. Runs("brTrans") /\ P # 0 /\ wait_alloc' = wait_alloc /\ Chosen.i # 0
  BY DEF BrTransmit
<1>2. PICK p : p = P
  OBVIOUS
<1>. DEFINE i == Chosen.i
            child == Chosen.child
            e == Served(Skipped[i], child)
            y == e.buf
            mdst == IF child THEN Nbt[brrt[i].it].addr ELSE All
            cnt == IF LastOne(e) THEN brrt_cnt - 1 ELSE brrt_cnt
            c == [work.buf[y] EXCEPT !.mdst = mdst]
            k == [work.buf[y] EXCEPT !.mdst = mdst, !.handle = "internal"]
            last == Called(Filled(Freed(W, P), y, c), "dataReq", y)
            copy == Called(Filled(W, P, k), "dataReq", P)
<1>3. work' = BrAgain(last, cnt) \/ work' = BrAgain(copy, cnt)
  BY DEF BrTransmit
<1>4. y \in Bufs /\ Outside(y) # 0 /\ IsFrame(work.buf[y]) /\ DOMAIN work.buf[y] = FrameFields
  <2>0. i \in Used(brrt) /\ i \in 1 .. BrrSize
    BY <1>1, ChosenFacts DEF BuffersInv
  <2>1. DOMAIN Skipped[i] = BrrFields /\ Skipped[i].buf = brrt[i].buf /\ Skipped[i].due \in Nat
    BY <2>0, SkippedFacts DEF BuffersInv, TablesTyped
  <2>2. y = brrt[i].buf
    BY <2>1, ServedFacts
  <2>3. y \in Bufs /\ Outside(y) # 0 /\ IsFrame(work.buf[y])
    BY <2>0, <2>2, HeldOutside DEF BuffersInv, WorkInv, FramesHeld
  <2>. QED BY <2>3 DEF BuffersInv, WorkInv, WellMade, WorkTyped, Content
<1>. HIDE DEF y, cnt, mdst, i, e
<1>5. /\ IsFrame(c) /\ Alike(c, work.buf[y])
      /\ IsFrame(k) /\ Alike(k, work.buf[y])
  <2>1. IsFrame(c) /\ Alike(c, work.buf[y]) /\ DOMAIN c = FrameFields
    BY <1>4, MdstAlike
  <2>2. k = [c EXCEPT !.handle = "internal"]
    BY <1>4 DEF FrameFields
  <2>. HIDE DEF c, k
  <2>3. IsFrame(k) /\ Alike(k, c)
    BY <2>1, <2>2, MdstAlike
  <2>. QED BY <2>1, <2>3 DEF Alike
<1>6. /\ p \in Bufs /\ p # y /\ Outside(p) = 0 /\ Echo(W, p, F) /\ Mute(W, p)
      /\ "dataReq" \in Fns \ Loud /\ "brTrans" \in Fns \ Loud /\ 0 \in Bufs \cup {0} /\ p \in Bufs \cup {0} /\ y \in Bufs \cup {0}
  BY <1>1, <1>2, <1>4, HeadFacts, EchoRuns DEF Quiet, Fns, Loud, Up
<1>. HIDE DEF c, k, last, copy
<1>7. ASSUME NEW v, NEW g, Echo(v, p, g), Mute(v, p)
      PROVE  Quiet(BrAgain(v, cnt), p, g)
  <2>1. Echo(Called(v, "brTrans", 0), p, g) /\ Mute(Called(v, "brTrans", 0), p)
    BY <1>6, <1>7, EchoCalls
  <2>. QED BY <1>7, <2>1 DEF BrAgain, Quiet
<1>8. CASE work' = BrAgain(copy, cnt)
  <2>. DEFINE u == Filled(W, p, k)
  <2>1. Echo(u, p, k) /\ Mute(u, p)
    BY <1>6, EchoFills
  <2>. HIDE DEF u
  <2>2. Echo(Called(u, "dataReq", p), p, k) /\ Mute(Called(u, "dataReq", p), p)
    BY <1>6, <2>1, EchoCalls
  <2>3. copy = Called(u, "dataReq", p)
    BY <1>2 DEF copy, u
  <2>4. Quiet(work', p, k)
    BY <1>7, <1>8, <2>2, <2>3
  <2>5. FromHeld(k)
    BY <1>4, <1>5 DEF FromHeld, Held
  <2>. QED BY <1>1, <1>6, <2>4, <2>5, PlainStep, NotWaiting
<1>9. CASE work' = BrAgain(last, cnt)
  <2>. DEFINE u == Freed(W, p)
              v == Filled(u, y, c)
  <2>1. Echo(u, p, F) /\ Mute(u, p) /\ u.buf[y] = work.buf[y]
    <3>1. Leaves(u, p)
      BY <1>1, <1>2, <1>6, FreesBuffer
    <3>. QED BY <1>4, <1>6, <3>1, EchoFrees DEF Leaves
  <2>. HIDE DEF u
  <2>2. Echo(v, p, F) /\ Mute(v, p)
    BY <1>4, <1>5, <1>6, <2>1, EchoFills
  <2>. HIDE DEF v
  <2>3. Echo(Called(v, "dataReq", y), p, F) /\ Mute(Called(v, "dataReq", y), p)
    BY <1>6, <2>2, EchoCalls
  <2>4. last = Called(v, "dataReq", y)
    BY <1>2 DEF last, u, v
  <2>5. Quiet(work', P, F)
    BY <1>2, <1>7, <1>9, <2>3, <2>4
  <2>6. Alike(F, F) /\ P \in Bufs
    BY <1>2, <1>6 DEF Alike
  <2>. QED BY <1>1, <2>5, <2>6, WithBuffer
<1>. QED BY <1>3, <1>8, <1>9

\* The steps that begin a frame of our own.
Begun == \E g : /\ g.id = log.own + 1 /\ RisingKept /\ HeardKept
                /\ \A f : Held(f)' => Alike(f, g) \/ FromHeld(f)

LEMMA BegunStep ==
  ASSUME BuffersInv', NEW X, NEW g, Quiet(work', X, g), ~Waiting(X), wait_alloc' = wait_alloc, g.id = log.own + 1
  PROVE  Begun
<1>1. /\ \A f : Held(f)' => (IsFrame(g) /\ Alike(f, g)) \/ FromHeld(f)
      /\ RisingKept /\ HeardKept
  BY QuietStep
<1>. QED BY <1>1 DEF Begun

LEMMA SendBegins ==
  ASSUME BuffersInv, BuffersInv', (\E d \in mix.dsts, r \in mix.radii : AppSend(d, r)) \/ (\E d \in mix.dsts : SendStatus(d))
  PROVE  Begun
<1>1. PICK c : /\ FreeOf(work, "out") # {} /\ c.id = log.own + 1 /\ wait_alloc' = wait_alloc
               /\ work' = Called(Filled(work, Min(FreeOf(work, "out")), c), "forward", Min(FreeOf(work, "out")))
  <2>1. ASSUME NEW d, NEW r, AppSend(d, r)
        PROVE  \E c : /\ FreeOf(work, "out") # {} /\ c.id = log.own + 1 /\ wait_alloc' = wait_alloc
                      /\ work' = Called(Filled(work, Min(FreeOf(work, "out")), c), "forward", Min(FreeOf(work, "out")))
    <3>. DEFINE q == IF r = 0 THEN 2 * attr["MaxDepth"] ELSE r
                h == Header(d, "data", q, 0)
                c == [h EXCEPT !.handle = "aps"]
    <3>1. h.id = log.own + 1 /\ DOMAIN h = FrameFields
      BY HeaderFrame DEF Kinds
    <3>2. c.id = log.own + 1
      <4>. HIDE DEF h
      <4>. QED BY <3>1 DEF FrameFields
    <3>3. FreeOf(work, "out") # {} /\ wait_alloc' = wait_alloc
          /\ work' = Called(Filled(work, Min(FreeOf(work, "out")), c), "forward", Min(FreeOf(work, "out")))
      BY <2>1 DEF AppSend, tables
    <3>. HIDE DEF c
    <3>. QED BY <3>2, <3>3
  <2>2. ASSUME NEW d, SendStatus(d)
        PROVE  \E c : /\ FreeOf(work, "out") # {} /\ c.id = log.own + 1 /\ wait_alloc' = wait_alloc
                      /\ work' = Called(Filled(work, Min(FreeOf(work, "out")), c), "forward", Min(FreeOf(work, "out")))
    <3>. DEFINE c == Header(d, "status", 1, 0)
    <3>1. c.id = log.own + 1
      BY HeaderFrame DEF Kinds
    <3>2. FreeOf(work, "out") # {} /\ wait_alloc' = wait_alloc
          /\ work' = Called(Filled(work, Min(FreeOf(work, "out")), c), "forward", Min(FreeOf(work, "out")))
      BY <2>2 DEF SendStatus, tables
    <3>. HIDE DEF c
    <3>. QED BY <3>1, <3>2
  <2>. QED BY <2>1, <2>2
<1>2. PICK b : b = Min(FreeOf(work, "out"))
  OBVIOUS
<1>3. b \in Bufs /\ b \in Bufs \cup {0} /\ work.buf[b] = NoBuf /\ work' = Called(Filled(work, b, c), "forward", b)
  BY <1>1, <1>2, FreeFacts
<1>4. Outside(b) = 0 /\ Calling(work, b) = {}
  BY <1>3, KindsApart, OneHolder
<1>5. Echo(work, b, work.buf[b]) /\ Mute(work, b)
  BY <1>3, <1>4, EchoWork
<1>6. Echo(Filled(work, b, c), b, c) /\ Mute(Filled(work, b, c), b)
  BY <1>3, <1>5, EchoFills
<1>7. Quiet(work', b, c)
  BY <1>3, <1>6, EchoCalls DEF Quiet, Fns, Loud, Up
<1>. QED BY <1>1, <1>3, <1>4, <1>7, BegunStep, NotWaiting

LEMMA UpdateBegins ==
  ASSUME BuffersInv, BuffersInv', SendNwkUpdate
  PROVE  Begun
<1>. DEFINE c == Header(All, "update", 2 * attr["MaxDepth"], UpdateCmd(pc))
<1>1. Runs("sendUpdate") /\ wait_alloc' = wait_alloc /\ work' = Asked(Called(Filled(W, P, c), "forward", P), "out", "sendStatus")
  BY DEF SendNwkUpdate, tables
<1>2. c.id = log.own + 1
  BY HeaderFrame DEF Kinds
<1>. HIDE DEF c
<1>3. PICK p : p = P
  OBVIOUS
<1>4. p \in Bufs /\ p \in Bufs \cup {0} /\ Outside(p) = 0 /\ Echo(W, p, F) /\ Mute(W, p)
  BY <1>1, <1>3, HeadFacts, EchoRuns DEF Quiet
<1>. DEFINE u == Filled(W, p, c)
            v == Called(u, "forward", p)
<1>5. Echo(u, p, c) /\ Mute(u, p)
  BY <1>4, EchoFills
<1>. HIDE DEF u
<1>6. Echo(v, p, c) /\ Mute(v, p)
  BY <1>4, <1>5, EchoCalls DEF Fns, Loud, Up
<1>. HIDE DEF v
<1>7. Quiet(Asked(v, "out", "sendStatus"), p, c)
  BY <1>6, EchoAsks DEF Quiet, WaitFns
<1>8. Quiet(work', p, c)
  BY <1>1, <1>3, <1>7 DEF u, v
<1>. QED BY <1>1, <1>2, <1>4, <1>8, BegunStep, NotWaiting

LEMMA ReportBegins ==
  ASSUME BuffersInv, BuffersInv', SendNetworkReport
  PROVE  (ReportNeeded(pc) => Begun) /\ (~ReportNeeded(pc) => Steady)
<1>1. timer.reports # <<>> /\ wait_alloc' = wait_alloc
  BY DEF SendNetworkReport, tables
<1>2. PICK b : b = Head(timer.reports).b
  OBVIOUS
<1>3. b \in Bufs /\ InReports(b) # {}
  <2>1. timer.reports \in Seq([b : Bufs, t : Nat])
    BY ReportsTyped DEF BuffersInv
  <2>2. Head(timer.reports) \in [b : Bufs, t : Nat] /\ 1 \in DOMAIN timer.reports /\ Head(timer.reports) = timer.reports[1]
    BY <1>1, <2>1, HeadOfSeq, Zenon
  <2>. QED BY <1>2, <2>2 DEF InReports
<1>4. Outside(b) = 1 /\ Calling(work, b) = {} /\ ~Waiting(b)
  <2>1. Outside(b) # 0
    BY <1>3, NotOutside DEF BuffersInv
  <2>2. Outside(b) = 1 /\ Calling(work, b) = {}
    BY <1>3, <2>1, OneHolder
  <2>3. InWait(b) = {}
    BY <1>3, <2>2, OnlyOutside DEF BuffersInv
  <2>. QED BY <2>2, <2>3 DEF InWait, Waiting
<1>5. Echo(work, b, work.buf[b]) /\ Mute(work, b)
  BY <1>3, <1>4, EchoWork
<1>6. CASE ReportNeeded(pc)
  <2>. DEFINE c == Header(attr["ManagerAddr"], "report", 2 * attr["MaxDepth"], [ours |-> TRUE, ids |-> ReportCmd(pc)])
  <2>1. work' = Called(Filled(work, b, c), "forward", b)
    BY <1>2, <1>6 DEF SendNetworkReport
  <2>2. c.id = log.own + 1
    BY HeaderFrame DEF Kinds
  <2>. HIDE DEF c
  <2>3. Echo(Filled(work, b, c), b, c) /\ Mute(Filled(work, b, c), b)
    BY <1>3, <1>5, EchoFills
  <2>4. Quiet(work', b, c)
    BY <1>3, <2>1, <2>3, EchoCalls DEF Quiet, Fns, Loud, Up
  <2>. QED BY <1>1, <1>4, <1>6, <2>2, <2>4, BegunStep
<1>7. CASE ~ReportNeeded(pc)
  <2>1. work' = Freed(work, b)
    BY <1>2, <1>7 DEF SendNetworkReport
  <2>2. Quiet(work', 0, NoBuf)
    BY <1>3, <2>1, EchoWork, EchoFrees DEF Quiet
  <2>. QED BY <1>1, <1>7, <2>2, WithoutBuffer
<1>. QED BY <1>6, <1>7

-----------------------------------------------------------------------------
\* The table of transactions remembers what it covers.

LEMMA ExpEdits ==
  ASSUME NEW t \in TimerTypes, NEW x
  PROVE  /\ [t EXCEPT !.br = x].exp = t.exp /\ [t EXCEPT !.pans = x].exp = t.exp /\ [t EXCEPT !.reports = x].exp = t.exp
         /\ [t EXCEPT !.exp = x].exp = x
         /\ \A cnt : StartExpiry(t, cnt).exp = (IF cnt = 1 THEN Second ELSE t.exp) /\ [StartExpiry(t, cnt) EXCEPT !.br = x].exp = StartExpiry(t, cnt).exp
BY DEF TimerTypes, StartExpiry

LEMMA AddedEntry ==
  ASSUME BuffersInv, NEW f, Holes(btt) # {}, AddToBtt(f)
  PROVE  \E k \in 1 .. BtrSize :
           /\ k \notin Used(btt) /\ DOMAIN btt' = 1 .. BtrSize /\ DOMAIN btt = 1 .. BtrSize /\ btt'[k] = BtrEnt(f) /\ btt' # btt
           /\ \A i \in 1 .. BtrSize : i # k => btt'[i] = btt[i]
<1>. DEFINE k == Min(Holes(btt))
<1>1. k \in 1 .. BtrSize /\ k \notin Used(btt) /\ DOMAIN btt = 1 .. BtrSize
  BY BttHole, TablesFinite DEF BuffersInv
<1>2. btt' = [btt EXCEPT ![k] = BtrEnt(f)]
  BY DEF AddToBtt, BttAdded
<1>. HIDE DEF k
<1>3. DOMAIN btt' = 1 .. BtrSize /\ btt'[k] = BtrEnt(f) /\ \A i \in 1 .. BtrSize : i # k => btt'[i] = btt[i]
  BY <1>1, <1>2
<1>4. btt' # btt
  BY <1>1, <1>3, BtrEntries DEF Used
<1>. QED BY <1>1, <1>3, <1>4

LEMMA TableKinds ==
  ASSUME BuffersInv, Next, ~BtrExpiry, ~Elapse
  PROVE  \/ btt' = btt /\ timer'.exp = timer.exp
         \/ \E f : Holes(btt) # {} /\ AddToBtt(f) /\ timer'.exp = IF btt_cnt + 1 = 1 THEN Second ELSE timer.exp
<1>0. /\ timer \in TimerTypes
      /\ \A x : /\ [timer EXCEPT !.br = x].exp = timer.exp /\ [timer EXCEPT !.pans = x].exp = timer.exp
                /\ [timer EXCEPT !.reports = x].exp = timer.exp
                /\ \A cnt : /\ StartExpiry(timer, cnt).exp = (IF cnt = 1 THEN Second ELSE timer.exp)
                            /\ [StartExpiry(timer, cnt) EXCEPT !.br = x].exp = StartExpiry(timer, cnt).exp
  BY TimerFits, ExpEdits
<1>1. CASE ForwardDirect \/ BroadcastIndication
  <2>1. (btt' = btt /\ timer' = timer) \/ (Holes(btt) # {} /\ AddToBtt(F) /\ timer' = StartExpiry(timer, btt_cnt + 1))
    BY <1>1 DEF ForwardDirect, BroadcastIndication, NewBroadcast
  <2>2. StartExpiry(timer, btt_cnt + 1).exp = (IF btt_cnt + 1 = 1 THEN Second ELSE timer.exp)
    BY <1>0
  <2>. QED BY <2>1, <2>2
<1>2. CASE ForwardBroadcast
  <2>. DEFINE t == IF btt' = btt THEN timer ELSE StartExpiry(timer, btt_cnt')
  <2>1. /\ btt' = btt \/ (Holes(btt) # {} /\ AddToBtt(F))
        /\ timer' = t \/ timer' = [t EXCEPT !.br = -1]
    BY <1>2 DEF ForwardBroadcast
  <2>2. CASE btt' = btt
    BY <1>0, <2>1, <2>2
  <2>3. CASE btt' # btt
    <3>1. Holes(btt) # {} /\ AddToBtt(F) /\ btt_cnt' = btt_cnt + 1 /\ t = StartExpiry(timer, btt_cnt + 1)
      BY <2>1, <2>3 DEF AddToBtt
    <3>a. timer' = StartExpiry(timer, btt_cnt + 1) \/ timer' = [StartExpiry(timer, btt_cnt + 1) EXCEPT !.br = -1]
      BY <2>1, <3>1
    <3>b. [StartExpiry(timer, btt_cnt + 1) EXCEPT !.br = -1].exp = StartExpiry(timer, btt_cnt + 1).exp
      BY <1>0
    <3>2. timer'.exp = StartExpiry(timer, btt_cnt + 1).exp
      BY <3>a, <3>b, Zenon
    <3>3. StartExpiry(timer, btt_cnt + 1).exp = (IF btt_cnt + 1 = 1 THEN Second ELSE timer.exp)
      BY <1>0
    <3>. QED BY <3>1, <3>2, <3>3
  <2>. QED BY <2>2, <2>3
<1>3. CASE UNCHANGED <<btt, btt_cnt>> /\ ~(ForwardDirect \/ ForwardBroadcast \/ BroadcastIndication)
  <2>1. \/ UNCHANGED timer \/ BrNothing \/ IndicateReport \/ IndicateUpdate \/ BeaconIndication \/ Alarm
    BY <1>3, TimerActions
  <2>2. CASE BrNothing \/ IndicateReport \/ IndicateUpdate \/ BeaconIndication \/ Alarm
    <3>1. \E x : timer' = timer \/ timer' = [timer EXCEPT !.br = x] \/ timer' = [timer EXCEPT !.pans = x] \/ timer' = [timer EXCEPT !.reports = x]
      <4>1. CASE BrNothing
        BY <4>1 DEF BrNothing
      <4>2. CASE IndicateReport
        BY <4>2 DEF IndicateReport, Announce
      <4>3. CASE IndicateUpdate
        BY <4>3 DEF IndicateUpdate
      <4>4. CASE BeaconIndication
        BY <4>4 DEF BeaconIndication, Announce
      <4>5. CASE Alarm
        BY <4>5 DEF Alarm, BrAlarm, SendNetworkReport, SetPanidAlarm
      <4>. QED BY <2>2, <4>1, <4>2, <4>3, <4>4, <4>5
    <3>. QED BY <1>0, <1>3, <3>1
  <2>. QED BY <1>3, <2>1, <2>2
<1>. QED BY <1>1, <1>2, <1>3, TableActions

CoverStays ==
  \A src, seq : \A l \in Nat : l > 0 /\ Covers(btt, timer.exp, src, seq, l) => Covers(btt', timer'.exp, src, seq, l)

LEMMA UsedCounted ==
  ASSUME BuffersInv
  PROVE  btt_cnt \in Nat /\ (btt_cnt = 0 <=> Used(btt) = {}) /\ timer.exp \in -1 .. Second /\ timer.exp \in Int
<1>1. IsFiniteSet(Used(btt)) /\ btt_cnt = Cardinality(Used(btt)) /\ btt_cnt \in Nat
  BY TablesFinite DEF BuffersInv, TablesTyped
<1>2. timer.exp \in -1 .. Second
  BY TimerFits
<1>. QED BY <1>1, <1>2, FS_EmptySet, Consts

LEMMA AddCovers ==
  ASSUME BuffersInv, ExpiryRuns, NEW f, Holes(btt) # {}, AddToBtt(f), timer'.exp = IF btt_cnt + 1 = 1 THEN Second ELSE timer.exp
  PROVE  /\ CoverStays /\ ExpiryRuns'
         /\ \A l \in Nat : l <= BtrSeconds * Second => Covers(btt', timer'.exp, f.src, f.seq, l)
<1>1. btt_cnt \in Nat /\ (btt_cnt = 0 <=> Used(btt) = {}) /\ timer.exp \in Int /\ Second \in Nat
  BY UsedCounted, Consts
<1>2. PICK k \in 1 .. BtrSize :
        /\ k \notin Used(btt) /\ DOMAIN btt' = 1 .. BtrSize /\ DOMAIN btt = 1 .. BtrSize /\ btt'[k] = BtrEnt(f)
        /\ \A i \in 1 .. BtrSize : i # k => btt'[i] = btt[i]
  BY AddedEntry
<1>3. timer'.exp >= 0 /\ timer'.exp \in Int
  BY <1>1 DEF ExpiryRuns
<1>4. ASSUME NEW src, NEW seq, NEW l \in Nat, Covers(btt, timer.exp, src, seq, l)
      PROVE  Covers(btt', timer'.exp, src, seq, l)
  <2>1. PICK i \in Find(btt, src, seq) : l <= timer.exp + btt[i].exp * Second
    BY <1>4 DEF Covers
  <2>2. i \in Used(btt) /\ i \in 1 .. BtrSize /\ i # k /\ btt'[i] = btt[i]
    BY <1>2, <2>1 DEF Find, Used
  <2>3. timer'.exp = timer.exp
    BY <1>1, <2>2
  <2>4. i \in Find(btt', src, seq)
    BY <1>2, <2>1, <2>2 DEF Find, Used
  <2>. QED BY <2>1, <2>2, <2>3, <2>4 DEF Covers
<1>5. ASSUME NEW l \in Nat, l <= BtrSeconds * Second
      PROVE  Covers(btt', timer'.exp, f.src, f.seq, l)
  <2>1. k \in Find(btt', f.src, f.seq) /\ btt'[k].exp = BtrSeconds
    BY <1>2 DEF Find, Used, BtrEnt
  <2>2. \A m \in Nat : \A x \in Int : x >= 0 /\ l <= m => l <= x + m
    OBVIOUS
  <2>3. BtrSeconds * Second \in Nat
    <3>1. \A m, j \in Nat : m * j \in Nat
      OBVIOUS
    <3>. QED BY <3>1, Consts
  <2>4. l <= timer'.exp + BtrSeconds * Second
    BY <1>3, <1>5, <2>2, <2>3
  <2>. QED BY <2>1, <2>4 DEF Covers
<1>6. ExpiryRuns'
  BY <1>3 DEF ExpiryRuns
<1>. QED BY <1>4, <1>5, <1>6 DEF CoverStays

LEMMA ExpiryCovers ==
  ASSUME BuffersInv, ExpiryRuns, BtrExpiry
  PROVE  CoverStays /\ ExpiryRuns'
<1>1. btt_cnt \in Nat /\ (btt_cnt = 0 <=> Used(btt) = {}) /\ timer.exp = 0 /\ Second \in Nat /\ timer \in TimerTypes
  BY UsedCounted, Consts, TimerFits DEF BtrExpiry
<1>2. CASE btt_cnt = 0
  <2>1. btt' = btt /\ Used(btt) = {}
    BY <1>1, <1>2 DEF BtrExpiry
  <2>. QED BY <2>1 DEF CoverStays, ExpiryRuns, Covers, Find
<1>3. CASE btt_cnt > 0
  <2>1. btt' = [i \in DOMAIN btt |-> Aged(btt[i])] /\ timer' = [timer EXCEPT !.exp = Second]
    BY <1>3 DEF BtrExpiry
  <2>2. timer'.exp = Second
    BY <1>1, <2>1, ExpEdits, ZenonT(40)
  <2>3. DOMAIN btt = 1 .. BtrSize /\ \A i \in 1 .. BtrSize : DOMAIN btt[i] = BtrFields /\ btt[i].exp \in 0 .. BtrSeconds
    BY TablesFinite DEF BuffersInv, TablesTyped
  <2>4. ASSUME NEW src, NEW seq, NEW l \in Nat, l > 0, Covers(btt, timer.exp, src, seq, l)
        PROVE  Covers(btt', timer'.exp, src, seq, l)
    <3>1. PICK i \in Find(btt, src, seq) : l <= timer.exp + btt[i].exp * Second
      BY <2>4 DEF Covers
    <3>2. i \in 1 .. BtrSize /\ btt[i].used /\ btt[i].src = src /\ btt[i].seq = seq /\ btt[i].exp \in Nat
      BY <2>3, <3>1, Consts DEF Find, Used
    <3>3. btt[i].exp > 0
      <4>1. \A e \in Nat : l <= 0 + e * Second => e # 0
        BY <1>1, <2>4
      <4>. QED BY <1>1, <3>1, <3>2, <4>1
    <3>4. btt'[i] = [btt[i] EXCEPT !.exp = @ - 1]
      BY <2>1, <2>3, <3>2, <3>3 DEF Aged
    <3>5. i \in Find(btt', src, seq) /\ btt'[i].exp = btt[i].exp - 1
      BY <2>1, <2>3, <3>2, <3>4 DEF Find, Used, BtrFields
    <3>6. \A e \in Nat : e > 0 /\ l <= 0 + e * Second => l <= Second + (e - 1) * Second
      BY <1>1
    <3>7. l <= Second + (btt[i].exp - 1) * Second
      BY <1>1, <3>1, <3>2, <3>3, <3>6
    <3>. QED BY <2>2, <3>5, <3>7 DEF Covers
  <2>5. ExpiryRuns'
    BY <1>1, <2>2 DEF ExpiryRuns
  <2>. QED BY <2>4, <2>5 DEF CoverStays
<1>. QED BY <1>1, <1>2, <1>3

LEMMA CoverStep ==
  ASSUME BuffersInv, ExpiryRuns, Next, ~Elapse
  PROVE  CoverStays /\ ExpiryRuns'
<1>1. CASE BtrExpiry
  BY <1>1, ExpiryCovers
<1>2. CASE btt' = btt /\ timer'.exp = timer.exp
  BY <1>2 DEF CoverStays, ExpiryRuns, Used
<1>3. CASE \E f : Holes(btt) # {} /\ AddToBtt(f) /\ timer'.exp = IF btt_cnt + 1 = 1 THEN Second ELSE timer.exp
  BY <1>3, AddCovers
<1>. QED BY <1>1, <1>2, <1>3, TableKinds

\* Time passes: what is remembered lasts as long as before.
LEMMA ElapseCovers ==
  ASSUME BuffersInv, ExpiryRuns, Elapse
  PROVE  /\ ExpiryRuns' /\ btt' = btt /\ DOMAIN log'.life = DOMAIN log.life
         /\ \A id \in DOMAIN log.life : log'.life[id] > 0 =>
              /\ log.life[id] > 0
              /\ \A src, seq : Covers(btt, timer.exp, src, seq, log.life[id]) => Covers(btt', timer'.exp, src, seq, log'.life[id])
<1>. DEFINE d == Min(Upcoming)
            life == [i \in DOMAIN log.life |-> Minus(log.life[i], d)]
<1>1. /\ log' = [log EXCEPT !.life = life] /\ Upcoming # {} /\ 0 \notin Running /\ btt' = btt
      /\ timer' = [br |-> Minus(timer.br, d), exp |-> Minus(timer.exp, d), pans |-> [i \in DOMAIN timer.pans |-> timer.pans[i] - d],
                   reports |-> [i \in DOMAIN timer.reports |-> [timer.reports[i] EXCEPT !.t = @ - d]]]
  BY DEF Elapse
<1>2. d \in Nat /\ \A x \in Upcoming : d <= x
  BY <1>1, UpcomingFacts
<1>3. timer.exp >= 0 => timer.exp \in Upcoming
  BY DEF Upcoming, Running
<1>4. log'.life = life
  BY <1>1 DEF BuffersInv, LogTyped, LogFields
<1>5. timer'.exp = Minus(timer.exp, d) /\ timer.exp \in Int /\ Second \in Nat
  BY <1>1, UsedCounted, Consts
<1>. HIDE DEF d
<1>6. timer.exp >= 0 => timer'.exp = timer.exp - d /\ timer'.exp \in Nat
  BY <1>2, <1>3, <1>5 DEF Minus
<1>7. ExpiryRuns'
  BY <1>1, <1>5, <1>6 DEF ExpiryRuns, Used
<1>8. ASSUME NEW id \in DOMAIN log.life, life[id] > 0
      PROVE  log.life[id] > 0 /\ life[id] = log.life[id] - d /\ log.life[id] \in Nat
  <2>1. log.life[id] \in Nat
    <3>1. \A m, j \in Nat : 0 .. m * j \subseteq Nat
      OBVIOUS
    <3>. QED BY <3>1, Consts DEF BuffersInv, LogTyped
  <2>. QED BY <1>2, <1>8, <2>1 DEF Minus
<1>9. ASSUME NEW id \in DOMAIN log.life, life[id] > 0, NEW src, NEW seq, Covers(btt, timer.exp, src, seq, log.life[id])
      PROVE  Covers(btt', timer'.exp, src, seq, life[id])
  <2>1. PICK i \in Find(btt, src, seq) : log.life[id] <= timer.exp + btt[i].exp * Second
    BY <1>9 DEF Covers
  <2>2. i \in Used(btt) /\ i \in 1 .. BtrSize /\ btt[i].exp \in Nat
    <3>1. \A m \in Nat : 0 .. m \subseteq Nat
      OBVIOUS
    <3>. QED BY <2>1, <3>1, TablesFinite, Consts DEF Find, BuffersInv, TablesTyped
  <2>3. timer.exp >= 0 /\ timer'.exp = timer.exp - d
    BY <1>6, <2>2 DEF ExpiryRuns
  <2>4. \A a, x, m \in Int : a <= x + m => a - d <= (x - d) + m
    BY <1>2
  <2>a. btt[i].exp * Second \in Int
    <3>1. \A a, b \in Nat : a * b \in Int
      OBVIOUS
    <3>. QED BY <3>1, <1>5, <2>2
  <2>b. log.life[id] \in Int
    BY <1>8, <1>9
  <2>5. log.life[id] - d <= (timer.exp - d) + btt[i].exp * Second
    BY <1>5, <2>1, <2>4, <2>a, <2>b
  <2>. QED BY <1>1, <1>8, <1>9, <2>1, <2>3, <2>5 DEF Covers
<1>. QED BY <1>1, <1>4, <1>7, <1>8, <1>9

-----------------------------------------------------------------------------
\* The steps that hear a frame, hand one up, or give it a second buffer.

LEMMA ReceiveStep ==
  ASSUME BuffersInv, BuffersInv', NEW f \in Foreign \cup Repeated, NEW k, Receive(f, k)
  PROVE  /\ \A h : Held(h)' => Alike(h, f) \/ FromHeld(h)
         /\ RisingKept
         /\ \A b \in Bufs : Says(work', "dataInd", b) =>
              (Says(work, "dataInd", b) /\ Alike(work'.buf[b], work.buf[b])) \/ work'.buf[b].id = f.id
<1>. DEFINE c == [f EXCEPT !.from = Nbt[k].addr]
<1>1. DOMAIN f = FrameFields /\ IsFrame(f)
  BY HeardFrames
<1>2. IsFrame(c) /\ Alike(c, f)
  BY <1>1, MdstAlike
<1>3. /\ FreeOf(work, "in") # {} /\ wait_alloc' = wait_alloc
      /\ work' = Called(Filled(work, Min(FreeOf(work, "in")), c), "dataInd", Min(FreeOf(work, "in")))
  BY DEF Receive, tables
<1>. HIDE DEF c
<1>4. PICK b : b = Min(FreeOf(work, "in"))
  OBVIOUS
<1>. DEFINE v == Filled(work, b, c)
<1>5. b \in Bufs /\ b \in Bufs \cup {0} /\ work.buf[b] = NoBuf /\ work' = Called(v, "dataInd", b)
  BY <1>3, <1>4, FreeFacts
<1>6. Outside(b) = 0 /\ Calling(work, b) = {}
  BY <1>5, KindsApart, OneHolder
<1>7. Echo(work, b, work.buf[b]) /\ Mute(work, b)
  BY <1>5, <1>6, EchoWork
<1>8. Echo(v, b, c) /\ Mute(v, b) /\ v.buf[b] = c /\ Shaped(v)
  <2>1. Echo(v, b, c) /\ Mute(v, b)
    BY <1>5, <1>7, EchoFills
  <2>2. Shaped(work)
    BY <1>7 DEF Echo
  <2>3. v.buf[b] = c
    BY <1>5, <2>2, FilledSays
  <2>. QED BY <2>1, <2>3 DEF Echo
<1>. HIDE DEF v
<1>9. /\ work'.buf = v.buf /\ \A g, x : Says(work', g, x) <=> Says(v, g, x) \/ (g = "dataInd" /\ x = b)
      /\ Echo(work', b, c)
  <2>1. "dataInd" \in Fns
    BY DEF Fns
  <2>. QED BY <1>5, <1>8, <2>1, CalledSays, EchoCalls
<1>10. \A x : Waiting(x)' => Waiting(x)
  BY <1>3 DEF Waiting
<1>11. /\ \A h : Held(h)' => (IsFrame(c) /\ Alike(h, c)) \/ FromHeld(h)
       /\ \A x : x # b /\ Rising(x)' => Rising(x) /\ Alike(work'.buf[x], work.buf[x])
  BY <1>9, <1>10, EchoStep
<1>12. ~Rising(b)'
  <2>1. ~Waiting(b)'
    BY <1>5, <1>6, <1>10, NotWaiting
  <2>2. \A fn \in Up : ~Says(work', fn, b)
    BY <1>5, <1>8, <1>9 DEF Mute, Loud, Up
  <2>. QED BY <2>1, <2>2 DEF Rising
<1>13. RisingKept
  BY <1>11, <1>12 DEF RisingKept
<1>14. ASSUME NEW x \in Bufs, Says(work', "dataInd", x)
       PROVE  (Says(work, "dataInd", x) /\ Alike(work'.buf[x], work.buf[x])) \/ work'.buf[x].id = f.id
  <2>1. CASE x = b
    BY <1>2, <1>8, <1>9, <2>1 DEF Alike
  <2>2. CASE x # b
    BY <1>9, <1>14, <2>2, HeardStep
  <2>. QED BY <2>1, <2>2
<1>. QED BY <1>2, <1>11, <1>13, <1>14 DEF Alike

\* What the work is before a received frame is disposed of.
LEMMA AckSays ==
  ASSUME BuffersInv, Runs("dataInd"), NEW p, p = P, NEW r, r = PassiveAck(F, W)
  PROVE  Echo(r.w, p, F) /\ Mute(r.w, p) /\ p \in Bufs /\ IsFrame(F) /\ DOMAIN F = FrameFields /\ ~Waiting(p)
<1>1. p \in Bufs /\ IsFrame(F) /\ DOMAIN F = FrameFields /\ Outside(p) = 0 /\ Echo(W, p, F) /\ Mute(W, p)
  BY HeadFacts, EchoRuns DEF FrameFns, Quiet
<1>2. ~Waiting(p)
  BY <1>1, NotWaiting
<1>3. CASE r.w = W
  BY <1>1, <1>2, <1>3
<1>4. CASE AckedEnts(F) # {} /\ r.w = Called(W, "brConf", Marked(F).buf)
  <2>1. Marked(F).buf \in Bufs \cup {0}
    BY <1>4, MarkedFacts
  <2>2. "brConf" \in Fns \ Loud
    BY DEF Fns, Loud, Up
  <2>3. Echo(r.w, p, F) /\ Mute(r.w, p)
    BY <1>1, <1>4, <2>1, <2>2, EchoCalls
  <2>. QED BY <1>1, <1>2, <2>3
<1>. QED BY <1>3, <1>4 DEF PassiveAck

LEMMA DisposedSays ==
  ASSUME BuffersInv, Runs("dataInd"), NEW p, p = P, NEW w, Echo(w, p, F), Mute(w, p), p \in Bufs, IsFrame(F), DOMAIN F = FrameFields,
         NEW v, v = Disposed(F, w)
  PROVE  \E g : IsFrame(g) /\ Alike(g, F) /\ Echo(v, p, g) /\ ~Says(v, "dataInd", p)
<1>. DEFINE g == [F EXCEPT !.radius = @ - 1]
            u == Filled(w, p, g)
<1>1. IsFrame(g) /\ Alike(g, F)
  BY MdstAlike
<1>2. v \in {Asked(u, "in", "newBuf"), Called(u, "frameInd", p), Called(u, "forward", p), Freed(u, p)}
  BY DEF Disposed
<1>. HIDE DEF g
<1>3. Echo(u, p, g) /\ Mute(u, p)
  BY EchoFills
<1>. HIDE DEF u
<1>4. Shaped(u) /\ ~Says(u, "dataInd", p) /\ p \in Bufs \cup {0} /\ "newBuf" \in WaitFns /\ "in" \in {"in", "out"}
  BY <1>3 DEF Echo, Mute, Loud, WaitFns
<1>5. Echo(Asked(u, "in", "newBuf"), p, g) /\ ~Says(Asked(u, "in", "newBuf"), "dataInd", p)
  <2>1. \A f \in Loud : \A x : Says(Asked(u, "in", "newBuf"), f, x) <=> Says(u, f, x)
    BY <1>4, AskedSays
  <2>2. Echo(Asked(u, "in", "newBuf"), p, g)
    BY <1>3, <1>4, EchoAsks
  <2>. QED BY <1>4, <2>1, <2>2 DEF Loud
<1>6. Echo(Freed(u, p), p, g) /\ ~Says(Freed(u, p), "dataInd", p)
  <2>1. \A f \in Loud : \A x : Says(Freed(u, p), f, x) <=> Says(u, f, x)
    BY <1>4, FreedSays
  <2>. QED BY <1>3, <1>4, <2>1, EchoFrees DEF Loud
<1>7. ASSUME NEW fn \in {"frameInd", "forward"}
      PROVE  Echo(Called(u, fn, p), p, g) /\ ~Says(Called(u, fn, p), "dataInd", p)
  <2>1. fn \in Fns
    BY DEF Fns
  <2>2. \A f, b : Says(Called(u, fn, p), f, b) <=> Says(u, f, b) \/ (f = fn /\ b = p)
    BY <1>4, <2>1, CalledSays
  <2>3. Echo(Called(u, fn, p), p, g)
    BY <1>3, <1>4, <2>1, EchoCalls
  <2>. QED BY <1>4, <2>2, <2>3
<1>. QED BY <1>1, <1>2, <1>5, <1>6, <1>7

\* A broadcast that is new may rise; of one that is not, nothing does.
LEMMA IndicationStep ==
  ASSUME BuffersInv, BuffersInv', BroadcastIndication
  PROVE  \/ Steady
         \/ /\ HeldKept /\ HeardKept /\ NewBroadcast(F) /\ AddToBtt(F) /\ timer' = StartExpiry(timer, btt_cnt + 1)
            /\ P \in Bufs /\ IsFrame(F) /\ Says(work, "dataInd", P)
            /\ \A b : Rising(b)' => (b # P /\ Rising(b) /\ Alike(work'.buf[b], work.buf[b])) \/ (b = P /\ Alike(work'.buf[b], F))
<1>1. PICK p : p = P
  OBVIOUS
<1>2. PICK r : r = PassiveAck(F, W)
  OBVIOUS
<1>3. /\ Runs("dataInd")
      /\ \/ /\ NewBroadcast(F) /\ AddToBtt(F) /\ timer' = StartExpiry(timer, btt_cnt + 1)
            /\ work' = Disposed(F, r.w) /\ wait_alloc' = Waits(F)
         \/ work' = Freed(r.w, p) /\ wait_alloc' = wait_alloc
  BY <1>1, <1>2 DEF BroadcastIndication
<1>4. Echo(r.w, p, F) /\ Mute(r.w, p) /\ p \in Bufs /\ IsFrame(F) /\ DOMAIN F = FrameFields /\ ~Waiting(p)
  BY <1>1, <1>2, <1>3, AckSays
<1>5. CASE work' = Freed(r.w, p) /\ wait_alloc' = wait_alloc
  <2>1. Quiet(work', p, F)
    BY <1>4, <1>5, EchoFrees DEF Quiet
  <2>2. Alike(F, F)
    BY DEF Alike
  <2>. QED BY <1>1, <1>3, <1>4, <1>5, <2>1, <2>2, WithBuffer
<1>6. CASE /\ NewBroadcast(F) /\ AddToBtt(F) /\ timer' = StartExpiry(timer, btt_cnt + 1)
           /\ work' = Disposed(F, r.w) /\ wait_alloc' = Waits(F)
  <2>1. PICK g : IsFrame(g) /\ Alike(g, F) /\ Echo(work', p, g) /\ ~Says(work', "dataInd", p)
    BY <1>1, <1>3, <1>4, <1>6, DisposedSays
  <2>2. \A b : b # p /\ Waiting(b)' => Waiting(b)
    <3>1. wait_alloc' = wait_alloc \/ wait_alloc' = Append(wait_alloc, p)
      BY <1>1, <1>6 DEF Waits
    <3>2. wait_alloc \in Seq(Bufs)
      BY DEF BuffersInv, TablesTyped
    <3>. QED BY <1>4, <3>1, <3>2 DEF Waiting
  <2>3. /\ \A f : Held(f)' => (IsFrame(g) /\ Alike(f, g)) \/ FromHeld(f)
        /\ \A b : b # p /\ Rising(b)' => Rising(b) /\ Alike(work'.buf[b], work.buf[b])
    BY <2>1, <2>2, EchoStep
  <2>4. FromHeld(g)
    BY <1>1, <1>4, <2>1 DEF FromHeld, Held, F
  <2>5. HeldKept
    BY <2>3, <2>4 DEF HeldKept, FromHeld, Alike
  <2>6. HeardKept
    <3>1. ASSUME NEW b \in Bufs, Says(work', "dataInd", b)
          PROVE  Says(work, "dataInd", b) /\ Alike(work'.buf[b], work.buf[b])
      BY <2>1, <3>1, HeardStep
    <3>. QED BY <3>1 DEF HeardKept
  <2>7. Rising(p)' => Alike(work'.buf[p], F)
    <3>1. ASSUME Rising(p)'
          PROVE  Alike(work'.buf[p], F)
      <4>1. IsFrame(work'.buf[p])
        BY <3>1 DEF Rising
      <4>2. Alike(work'.buf[p], g)
        BY <1>4, <2>1, <4>1 DEF Echo
      <4>. QED BY <2>1, <4>2 DEF Alike
    <3>. QED BY <3>1
  <2>8. Says(work, "dataInd", p)
    <3>1. 1 \in DOMAIN work.cb /\ work.cb[1].fn = "dataInd" /\ work.cb[1] = Head(work.cb)
      BY <1>3, HeadFacts
    <3>. QED BY <1>1, <3>1 DEF Says, P
  <2>. QED BY <1>1, <1>4, <1>6, <2>3, <2>5, <2>6, <2>7, <2>8
<1>. QED BY <1>3, <1>5, <1>6

\* The second buffer takes the place of the frame that waited for it.
LEMMA SecondStep ==
  ASSUME BuffersInv, BuffersInv', NewBuffer
  PROVE  \/ Steady
         \/ /\ HeldKept /\ HeardKept
            /\ \E p, c \in Bufs : \A b : Rising(b)' =>
                 (b # p /\ b # c /\ Rising(b) /\ Alike(work'.buf[b], work.buf[b])) \/ (b = p /\ Rising(c) /\ Alike(work'.buf[b], work.buf[c]))
<1>1. PICK p : p = P
  OBVIOUS
<1>2. Runs("newBuf")
  BY DEF NewBuffer
<1>3. p \in Bufs /\ p \in Bufs \cup {0} /\ Outside(p) = 0 /\ Echo(W, p, F) /\ Mute(W, p) /\ W.buf = work.buf
  BY <1>1, <1>2, HeadFacts, EchoRuns DEF Quiet
<1>4. CASE wait_alloc = <<>>
  <2>1. work' = Filled(W, p, Lost) /\ wait_alloc' = wait_alloc
    BY <1>1, <1>4 DEF NewBuffer
  <2>2. Quiet(work', p, Lost)
    BY <1>3, <2>1, EchoFills DEF Quiet
  <2>. QED BY <1>1, <1>2, <1>3, <2>1, <2>2, KindsApart, WithBuffer
<1>5. CASE wait_alloc # <<>>
  <2>1. PICK c : c = wait_alloc[Len(wait_alloc)]
    OBVIOUS
  <2>. DEFINE g == work.buf[c]
              f == [work.buf[c] EXCEPT !.handle = "internal"]
              u == Filled(W, p, g)
              t == Filled(u, c, f)
              s == Called(t, "frameInd", p)
              w == Called(s, "forward", c)
  <2>2. /\ wait_alloc' = SubSeq(wait_alloc, 1, Len(wait_alloc) - 1)
        /\ work' = Asked(w, "in", "newBuf") \/ work' = w
    BY <1>1, <1>5, <2>1 DEF NewBuffer
  <2>3. /\ c \in Bufs /\ Waiting(c) /\ IsFrame(g) /\ DOMAIN g = FrameFields /\ c # p /\ c \in Bufs \cup {0}
        /\ ~Waiting(c)' /\ Calling(work, c) = {} /\ \A b : Waiting(b)' => Waiting(b)
    <3>1. /\ Len(wait_alloc) \in DOMAIN wait_alloc
          /\ \A i \in DOMAIN wait_alloc : wait_alloc[i] \in Bufs /\ Outside(wait_alloc[i]) # 0 /\ IsFrame(work.buf[wait_alloc[i]])
      BY <1>5, <2>2, <1>3, WaitTake, HeldOutside DEF BuffersInv, WorkInv, FramesHeld
    <3>2. c \in Bufs /\ Waiting(c) /\ IsFrame(g) /\ c # p /\ Outside(c) # 0
      BY <1>3, <2>1, <3>1 DEF Waiting
    <3>3. Outside(c) = 1 /\ Calling(work, c) = {}
      BY <3>2, OneHolder
    <3>4. InWait(c) # {}
      BY <3>2 DEF InWait, Waiting
    <3>5. Cardinality(InWait(c)) = 1
      BY <3>2, <3>3, <3>4, OnlyOutside DEF BuffersInv
    <3>6. /\ Cardinality(InWait(c)') = Cardinality(InWait(c)) - (IF wait_alloc[Len(wait_alloc)] = c THEN 1 ELSE 0)
          /\ \A i \in DOMAIN wait_alloc' : i \in DOMAIN wait_alloc /\ wait_alloc'[i] = wait_alloc[i]
      BY <1>5, <2>2, <3>2, WaitTake
    <3>7. InWait(c)' = {}
      <4>1. InWait(c)' \subseteq InWait(c)
        BY <3>6 DEF InWait
      <4>2. IsFiniteSet(InWait(c)')
        <5>1. IsFiniteSet(InWait(c))
          <6>1. wait_alloc \in Seq(Bufs)
            BY DEF BuffersInv, TablesTyped
          <6>2. DOMAIN wait_alloc = 1 .. Len(wait_alloc) /\ Len(wait_alloc) \in Nat
            BY <6>1
          <6>3. IsFiniteSet(1 .. Len(wait_alloc))
            BY <6>2, FS_Interval
          <6>4. InWait(c) \subseteq 1 .. Len(wait_alloc)
            BY <6>2 DEF InWait
          <6>. QED BY <6>3, <6>4, FS_Subset
        <5>. QED BY <4>1, <5>1, FS_Subset
      <4>3. Cardinality(InWait(c)') = 0
        BY <2>1, <3>5, <3>6
      <4>. QED BY <4>2, <4>3, FS_EmptySet
    <3>8. ~Waiting(c)'
      BY <3>7 DEF InWait, Waiting
    <3>9. \A b : Waiting(b)' => Waiting(b)
      BY <3>6 DEF Waiting
    <3>10. DOMAIN g = FrameFields
      BY <3>2 DEF BuffersInv, WorkInv, WellMade, WorkTyped, Content
    <3>. QED BY <3>2, <3>3, <3>8, <3>9, <3>10
  <2>4. IsFrame(f) /\ Alike(f, g)
    BY <2>3, MdstAlike
  <2>. HIDE DEF f
  <2>5. Echo(u, p, g) /\ Mute(u, p) /\ u.buf[c] = g
    <3>1. Shaped(W)
      BY <1>3 DEF Echo
    <3>2. \A x \in Bufs : x # p => u.buf[x] = W.buf[x]
      BY <1>3, <3>1, FilledSays
    <3>. QED BY <1>3, <2>3, <3>2, EchoFills
  <2>. HIDE DEF u
  <2>6. Echo(t, p, g) /\ Mute(t, p)
    BY <2>3, <2>4, <2>5, EchoFills
  <2>. HIDE DEF t
  <2>7. Echo(s, p, g) /\ \A h, b : Says(s, h, b) <=> Says(t, h, b) \/ (h = "frameInd" /\ b = p)
    <3>1. "frameInd" \in Fns /\ Shaped(t)
      BY <2>6 DEF Fns, Echo
    <3>. QED BY <1>3, <2>6, <3>1, EchoCalls, CalledSays
  <2>. HIDE DEF s
  <2>8. Echo(w, p, g) /\ \A h, b : Says(w, h, b) <=> Says(s, h, b) \/ (h = "forward" /\ b = c)
    <3>1. "forward" \in Fns \ Loud /\ Shaped(s)
      BY <2>7 DEF Fns, Loud, Up, Echo
    <3>. QED BY <2>3, <2>7, <3>1, EchoCalls, CalledSays
  <2>. HIDE DEF w
  <2>9. Echo(work', p, g) /\ \A h \in Loud : \A b : Says(work', h, b) => Says(w, h, b)
    <3>1. "newBuf" \in WaitFns /\ "in" \in {"in", "out"} /\ Shaped(w)
      BY <2>8 DEF WaitFns, Echo
    <3>2. /\ Echo(Asked(w, "in", "newBuf"), p, g)
          /\ \A h \in Loud : \A b : Says(Asked(w, "in", "newBuf"), h, b) <=> Says(w, h, b)
      BY <2>8, <3>1, EchoAsks, AskedSays
    <3>. QED BY <2>2, <2>8, <3>2
  <2>10. ~Says(work', "dataInd", p)
    <3>1. ~Says(t, "dataInd", p)
      BY <1>3, <2>6 DEF Mute, Loud
    <3>. QED BY <2>7, <2>8, <2>9, <3>1 DEF Loud
  <2>11. /\ \A h : Held(h)' => (IsFrame(g) /\ Alike(h, g)) \/ FromHeld(h)
         /\ \A b : b # p /\ Rising(b)' => Rising(b) /\ Alike(work'.buf[b], work.buf[b])
    BY <2>3, <2>9, EchoStep
  <2>12. HeldKept
    <3>1. Held(g)
      BY <2>3 DEF Held
    <3>. QED BY <2>11, <3>1 DEF HeldKept, FromHeld
  <2>13. HeardKept
    <3>1. ASSUME NEW b \in Bufs, Says(work', "dataInd", b)
          PROVE  Says(work, "dataInd", b) /\ Alike(work'.buf[b], work.buf[b])
      BY <2>9, <2>10, <3>1, HeardStep
    <3>. QED BY <3>1 DEF HeardKept
  <2>14. ~Rising(c)'
    <3>1. \A fn \in Loud : ~Says(work', fn, c)
      BY <2>3, <2>9 DEF Echo, Says, Calling
    <3>. QED BY <2>3, <3>1 DEF Rising, Loud
  <2>15. Rising(p)' => Rising(c) /\ Alike(work'.buf[p], work.buf[c])
    <3>1. ASSUME Rising(p)'
          PROVE  Rising(c) /\ Alike(work'.buf[p], work.buf[c])
      <4>1. IsFrame(work'.buf[p]) /\ IsBroadcast(work'.buf[p].dst)
        BY <3>1 DEF Rising
      <4>2. Alike(work'.buf[p], g)
        BY <1>3, <2>9, <4>1 DEF Echo
      <4>. QED BY <2>3, <4>1, <4>2 DEF Rising, Alike
    <3>. QED BY <3>1
  <2>. QED BY <1>3, <2>3, <2>11, <2>12, <2>13, <2>14, <2>15
<1>. QED BY <1>4, <1>5

-----------------------------------------------------------------------------
\* What every step does to the histories.

HistoryStep ==
  /\ log'.own = log.own \/ log'.own = log.own + 1
  /\ log.late \subseteq log'.late
  /\ NldeIndication \/ log'.ind = log.ind
  /\ Elapse \/ \A id \in DOMAIN log.life : id \in DOMAIN log'.life /\ log'.life[id] = log.life[id]
  /\ \A id \in DOMAIN log'.life : id \in DOMAIN log.life \/ (DataRequest /\ id = F.id) \/ \E f \in Foreign \cup Repeated, k \in DOMAIN Nbt : Receive(f, k) /\ id = f.id
  /\ \A f \in log'.sent : f \in log.sent \/ (DataRequest /\ Alike(f, F))

LEMMA OwnHistory ==
  ASSUME BuffersInv, log' = OwnId(log)
  PROVE  log'.own = log.own + 1 /\ log'.late = log.late /\ log'.ind = log.ind /\ log'.life = log.life /\ log'.sent = log.sent
BY DEF OwnId, BuffersInv, LogTyped, LogFields

LEMMA RequestHistory ==
  ASSUME BuffersInv, DataRequest
  PROVE  /\ log'.own = log.own /\ log'.ind = log.ind
         /\ log'.life = IF F.id \in DOMAIN log.life THEN log.life ELSE Updated(log.life, F.id, BtrSeconds * Second)
         /\ log'.late = IF F.id \in DOMAIN log.life \/ Remembered(F) THEN log.late ELSE log.late \cup {F.id}
         /\ \A f \in log'.sent : f \in log.sent \/ Alike(f, F)
<1>. DEFINE life == IF F.id \in DOMAIN log.life THEN log.life ELSE Updated(log.life, F.id, BtrSeconds * Second)
            tx == log.tx (+) SetToBag({<<F.id, F.mdst>>})
            late == IF F.id \in DOMAIN log.life \/ Remembered(F) THEN log.late ELSE log.late \cup {F.id}
            c == [F EXCEPT !.mdst = F.dst, !.handle = "internal"]
            sent == log.sent \cup {c}
<1>1. log' = [log EXCEPT !.tx = tx, !.life = life, !.late = late, !.sent = sent]
  BY DEF DataRequest
<1>2. Alike(c, F)
  <2>1. DOMAIN F = FrameFields
    BY HeadFacts DEF DataRequest, FrameFns
  <2>. QED BY <2>1 DEF Alike, FrameFields
<1>. HIDE DEF c
<1>3. \A f \in sent : f \in log.sent \/ Alike(f, F)
  BY <1>2
<1>. HIDE DEF life, tx, late, sent
<1>4. log'.own = log.own /\ log'.ind = log.ind /\ log'.life = life /\ log'.late = late /\ log'.sent = sent
  BY <1>1 DEF BuffersInv, LogTyped, LogFields
<1>. QED BY <1>3, <1>4 DEF life, late

LEMMA HeardHistory ==
  ASSUME BuffersInv, NEW f, NEW k, Receive(f, k)
  PROVE  /\ log'.own = log.own /\ log'.ind = log.ind /\ log'.late = log.late /\ log'.sent = log.sent
         /\ log'.life = IF f.id \in DOMAIN log.life THEN log.life ELSE Updated(log.life, f.id, BtrSeconds * Second)
<1>. DEFINE life == IF f.id \in DOMAIN log.life THEN log.life ELSE Updated(log.life, f.id, BtrSeconds * Second)
<1>1. log' = [log EXCEPT !.life = life]
  BY DEF Receive
<1>. HIDE DEF life
<1>2. log'.own = log.own /\ log'.ind = log.ind /\ log'.late = log.late /\ log'.sent = log.sent /\ log'.life = life
  BY <1>1 DEF BuffersInv, LogTyped, LogFields
<1>. QED BY <1>2 DEF life

LEMMA LastingLife ==
  ASSUME NEW g, NEW x, NEW v, NEW h, h = IF x \in DOMAIN g THEN g ELSE Updated(g, x, v)
  PROVE  /\ \A y \in DOMAIN g : y \in DOMAIN h /\ h[y] = g[y]
         /\ \A y \in DOMAIN h : y \in DOMAIN g \/ y = x
         /\ x \in DOMAIN h /\ (x \notin DOMAIN g => h[x] = v)
BY DEF Updated

LEMMA Histories ==
  ASSUME BuffersInv, Next
  PROVE  HistoryStep
<1>0. DOMAIN log = LogFields
  BY DEF BuffersInv, LogTyped
<1>1. CASE UNCHANGED log
  BY <1>1 DEF HistoryStep
<1>2. CASE log' = OwnId(log)
  BY <1>2, OwnHistory DEF HistoryStep
<1>3. CASE DataRequest
  <2>1. /\ log'.own = log.own /\ log'.ind = log.ind /\ log.late \subseteq log'.late
        /\ \A f \in log'.sent : f \in log.sent \/ Alike(f, F)
    BY <1>3, RequestHistory
  <2>2. /\ \A id \in DOMAIN log.life : id \in DOMAIN log'.life /\ log'.life[id] = log.life[id]
        /\ \A id \in DOMAIN log'.life : id \in DOMAIN log.life \/ id = F.id
    <3>1. log'.life = IF F.id \in DOMAIN log.life THEN log.life ELSE Updated(log.life, F.id, BtrSeconds * Second)
      BY <1>3, RequestHistory
    <3>. QED BY <3>1, LastingLife
  <2>. QED BY <1>3, <2>1, <2>2 DEF HistoryStep
<1>4. ASSUME NEW f \in Foreign \cup Repeated, NEW k \in DOMAIN Nbt, Receive(f, k)
      PROVE  HistoryStep
  <2>1. /\ log'.own = log.own /\ log'.ind = log.ind /\ log'.late = log.late /\ log'.sent = log.sent
        /\ log'.life = IF f.id \in DOMAIN log.life THEN log.life ELSE Updated(log.life, f.id, BtrSeconds * Second)
    BY <1>4, HeardHistory
  <2>2. /\ \A id \in DOMAIN log.life : id \in DOMAIN log'.life /\ log'.life[id] = log.life[id]
        /\ \A id \in DOMAIN log'.life : id \in DOMAIN log.life \/ id = f.id
    BY <2>1, LastingLife
  <2>. QED BY <1>4, <2>1, <2>2 DEF HistoryStep
<1>5. CASE Elapse
  <2>. DEFINE life == [i \in DOMAIN log.life |-> Minus(log.life[i], Min(Upcoming))]
  <2>1. log' = [log EXCEPT !.life = life]
    BY <1>5 DEF Elapse
  <2>2. DOMAIN life = DOMAIN log.life
    OBVIOUS
  <2>. HIDE DEF life
  <2>3. log'.own = log.own /\ log'.ind = log.ind /\ log'.late = log.late /\ log'.sent = log.sent /\ log'.life = life
    BY <1>0, <2>1 DEF LogFields
  <2>. QED BY <1>5, <2>2, <2>3 DEF HistoryStep
<1>6. ASSUME NEW v,
             \/ log' = [log EXCEPT !.dropped = v] \/ log' = [log EXCEPT !.started = v] \/ log' = [log EXCEPT !.acked = v]
             \/ log' = [log EXCEPT !.conf = v] \/ (NldeIndication /\ log' = [log EXCEPT !.ind = v])
             \/ log' = [log EXCEPT !.overtaken = v] \/ log' = [log EXCEPT !.set = v]
             \/ \E w : log' = [log EXCEPT !.pan = v, !.overtaken = w]
      PROVE  HistoryStep
  <2>1. /\ log'.own = log.own /\ log'.late = log.late /\ log'.sent = log.sent /\ log'.life = log.life
        /\ NldeIndication \/ log'.ind = log.ind
    <3>1. CASE log' = [log EXCEPT !.dropped = v] \/ log' = [log EXCEPT !.started = v] \/ log' = [log EXCEPT !.acked = v]
      BY <1>0, <3>1 DEF LogFields
    <3>2. CASE log' = [log EXCEPT !.conf = v] \/ (NldeIndication /\ log' = [log EXCEPT !.ind = v])
      BY <1>0, <3>2 DEF LogFields
    <3>3. CASE log' = [log EXCEPT !.overtaken = v] \/ log' = [log EXCEPT !.set = v]
      BY <1>0, <3>3 DEF LogFields
    <3>4. ASSUME NEW w, log' = [log EXCEPT !.pan = v, !.overtaken = w]
          PROVE  log'.own = log.own /\ log'.late = log.late /\ log'.sent = log.sent /\ log'.life = log.life /\ log'.ind = log.ind
      BY <1>0, <3>4 DEF LogFields
    <3>. QED BY <1>6, <3>1, <3>2, <3>3, <3>4
  <2>. QED BY <2>1 DEF HistoryStep
<1>. QED BY <1>1, <1>2, <1>3, <1>4, <1>5, <1>6, LogActions

\* Every step is one of these.
LEMMA StepKinds ==
  ASSUME BuffersInv, BuffersInv', Next
  PROVE  \/ Steady \/ (Begun /\ log' = OwnId(log))
         \/ \E f \in Foreign \cup Repeated, k \in DOMAIN Nbt : Receive(f, k)
         \/ BroadcastIndication \/ NewBuffer
<1>1. CASE Environment
  <2>1. CASE (\E d \in mix.dsts, r \in mix.radii : AppSend(d, r)) \/ (\E d \in mix.dsts : SendStatus(d))
    <3>1. log' = OwnId(log)
      BY <2>1 DEF AppSend, SendStatus
    <3>. QED BY <2>1, <3>1, SendBegins
  <2>2. CASE \/ \E pan \in mix.pans : Beacon(pan)
             \/ \E g \in mix.gets : AppGet(g[1], g[2])
             \/ \E g \in mix.sets : AppSet(g[1], g[2], g[3])
    BY <2>2, EnvironmentSteady
  <2>. QED BY <1>1, <2>1, <2>2 DEF Environment
<1>2. CASE \/ ForwardDirect \/ ForwardBttFull \/ DropIndication
           \/ CallStatusIndication \/ NldeConfirm \/ NldeIndication \/ StatusIndication \/ IndicateStatus
           \/ SendStatusInd \/ StartRequest \/ GetConfirm \/ SetConfirm \/ DoSetPanid \/ DoGet \/ DoSet
  BY <1>2, SimpleSteady
<1>3. CASE \/ BrAlarm \/ BtrExpiry \/ Elapse \/ SetPanidAlarm \/ BrNeedsBuffer \/ BrNothing \/ DataRequest
           \/ DataConfirm \/ CallBrConfirm \/ IndicateData \/ UnicastIndication
  BY <1>3, TimeSteady, ConfirmedSteady, DataSteady, UnicastSteady
<1>4. CASE IndicateReport \/ IndicateUpdate \/ BeaconIndication \/ StartConfirm \/ ForwardBroadcast \/ BrTransmit
  BY <1>4, ConflictSteady, ForwardSteady, TransmitSteady
<1>5. CASE SendNwkUpdate
  <2>1. log' = OwnId(log)
    BY <1>5 DEF SendNwkUpdate
  <2>. QED BY <1>5, <2>1, UpdateBegins
<1>6. CASE SendNetworkReport
  <2>1. ReportNeeded(pc) => log' = OwnId(log)
    BY <1>6 DEF SendNetworkReport
  <2>. QED BY <1>6, <2>1, ReportBegins
<1>7. CASE \E b \in Bufs : MacDone(b)
  BY <1>7, MacSteady
<1>. QED BY <1>1, <1>2, <1>3, <1>4, <1>5, <1>6, <1>7 DEF Next, Callback, Alarm

-----------------------------------------------------------------------------
\* What keeps each part of the invariant.

FromKnown(f) == \E h : Known(h) /\ Alike(f, h)
Named ==
  \E g : \A f : Known(f)' => FromKnown(f) \/ (log'.own = log.own + 1 /\ g.id = log'.own /\ Alike(f, g))

LEMMA NumberedStep ==
  ASSUME BuffersInv, Numbered, Named, HistoryStep
  PROVE  Numbered'
<1>1. log.own \in Nat /\ (log'.own = log.own \/ log'.own = log.own + 1)
  BY DEF BuffersInv, LogTyped, HistoryStep
<1>2. PICK g : \A f : Known(f)' => FromKnown(f) \/ (log'.own = log.own + 1 /\ g.id = log'.own /\ Alike(f, g))
  BY DEF Named
<1>3. ASSUME NEW f, FromKnown(f)
      PROVE  f.id \in Int /\ f.id # 0 /\ f.id <= log.own
  BY <1>3 DEF FromKnown, Numbered, Alike
<1>4. ASSUME NEW f, Known(f)'
      PROVE  f.id \in Int /\ f.id # 0 /\ f.id <= log'.own
  <2>1. CASE FromKnown(f)
    BY <1>1, <1>3, <2>1
  <2>2. CASE log'.own = log.own + 1 /\ g.id = log'.own /\ Alike(f, g)
    BY <1>1, <2>2 DEF Alike
  <2>. QED BY <1>2, <1>4, <2>1, <2>2
<1>5. ASSUME NEW f, NEW h, Known(f)', Known(h)', f.id = h.id
      PROVE  Alike(f, h)
  <2>1. CASE FromKnown(f) /\ FromKnown(h)
    <3>1. PICK u, v : Known(u) /\ Known(v) /\ Alike(f, u) /\ Alike(h, v)
      BY <2>1 DEF FromKnown
    <3>2. u.id = v.id
      BY <1>5, <3>1 DEF Alike
    <3>3. Alike(u, v)
      BY <3>1, <3>2 DEF Numbered
    <3>. QED BY <3>1, <3>3 DEF Alike
  <2>2. CASE ~FromKnown(f) /\ ~FromKnown(h)
    BY <1>2, <1>5, <2>2 DEF Alike
  <2>3. CASE FromKnown(f) /\ ~FromKnown(h)
    <3>1. f.id \in Int /\ f.id <= log.own
      BY <1>3, <2>3
    <3>2. h.id = log.own + 1
      BY <1>2, <1>5, <2>3 DEF Alike
    <3>. QED BY <1>1, <1>5, <3>1, <3>2
  <2>4. CASE ~FromKnown(f) /\ FromKnown(h)
    <3>1. h.id \in Int /\ h.id <= log.own
      BY <1>3, <2>4
    <3>2. f.id = log.own + 1
      BY <1>2, <1>5, <2>4 DEF Alike
    <3>. QED BY <1>1, <1>5, <3>1, <3>2
  <2>. QED BY <2>1, <2>2, <2>3, <2>4
<1>. QED BY <1>4, <1>5 DEF Numbered

LEMMA KnownHeard ==
  ASSUME NEW f \in Foreign \cup Repeated
  PROVE  FromKnown(f) /\ (f \in Foreign \/ \E g \in log.sent : f.id = g.id)
<1>1. CASE f \in Foreign
  BY <1>1 DEF FromKnown, Known, Foreign, Alike
<1>2. CASE f \in Repeated
  <2>1. PICK g \in log.sent : f = [g EXCEPT !.radius = @ - 1]
    BY <1>2 DEF Repeated
  <2>2. Alike(f, g)
    BY <2>1 DEF Alike
  <2>. QED BY <2>1, <2>2 DEF FromKnown, Known, Alike
<1>. QED BY <1>1, <1>2

LEMMA FrameCalled ==
  ASSUME BuffersInv, NEW fn \in FrameFns, Runs(fn)
  PROVE  Held(F) /\ Known(F)
<1>1. P \in Bufs /\ IsFrame(F)
  BY HeadFacts
<1>. QED BY <1>1 DEF Held, Known, F

\* Frames after a step are frames before it, but for one of our own.
LEMMA NamedStep ==
  ASSUME BuffersInv, HistoryStep, mix' = mix,
         \/ HeldKept
         \/ Begun /\ log' = OwnId(log)
         \/ \E f : FromKnown(f) /\ \A h : Held(h)' => Alike(h, f) \/ FromHeld(h)
  PROVE  Named
<1>1. ASSUME NEW f, f \in log'.sent \/ f \in mix'.frames
      PROVE  FromKnown(f)
  <2>1. CASE f \in mix'.frames
    BY <2>1 DEF FromKnown, Known, Alike
  <2>2. CASE f \in log.sent
    BY <2>2 DEF FromKnown, Known, Alike
  <2>3. CASE DataRequest /\ Alike(f, F)
    <3>1. Known(F)
      BY <2>3, FrameCalled DEF DataRequest, FrameFns
    <3>. QED BY <2>3, <3>1 DEF FromKnown
  <2>. QED BY <1>1, <2>1, <2>2, <2>3 DEF HistoryStep
<1>2. \A f : FromHeld(f) => FromKnown(f)
  BY DEF FromHeld, FromKnown, Known
<1>3. CASE HeldKept
  BY <1>1, <1>2, <1>3 DEF Named, Known, HeldKept
<1>4. CASE Begun /\ log' = OwnId(log)
  <2>1. log'.own = log.own + 1
    BY <1>4, OwnHistory
  <2>2. PICK g : g.id = log.own + 1 /\ \A f : Held(f)' => Alike(f, g) \/ FromHeld(f)
    BY <1>4 DEF Begun
  <2>. QED BY <1>1, <1>2, <2>1, <2>2 DEF Named, Known
<1>5. ASSUME NEW f, FromKnown(f), \A h : Held(h)' => Alike(h, f) \/ FromHeld(h)
      PROVE  Named
  <2>1. \A h : Alike(h, f) => FromKnown(h)
    BY <1>5 DEF FromKnown, Alike
  <2>. QED BY <1>1, <1>2, <1>5, <2>1 DEF Named, Known
<1>. QED BY <1>3, <1>4, <1>5

LEMMA IndicationHistory ==
  ASSUME BuffersInv, NldeIndication
  PROVE  /\ \A id \in DOMAIN log.ind : id \in DOMAIN log'.ind
         /\ \A id \in DOMAIN log'.ind : id \in DOMAIN log.ind \/ (id = F.id /\ IsBroadcast(F.dst))
         /\ \A id \in DOMAIN log.ind : log.ind[id] \in Nat /\ id # F.id => log'.ind[id] = log.ind[id]
         /\ IsBroadcast(F.dst) =>
              F.id \in DOMAIN log'.ind /\ log'.ind[F.id] = (IF F.id \in DOMAIN log.ind THEN log.ind[F.id] ELSE 0) + 1
         /\ ~IsBroadcast(F.dst) => log'.ind = log.ind
<1>0. ASSUME NEW g, NEW x
      PROVE  /\ DOMAIN (g (+) SetToBag({x})) = DOMAIN g \cup {x}
             /\ \A y \in DOMAIN g : y # x => (g (+) SetToBag({x}))[y] = g[y] + 0
             /\ (g (+) SetToBag({x}))[x] = (IF x \in DOMAIN g THEN g[x] ELSE 0) + 1
  BY DEF (+), SetToBag
<1>1. CASE IsBroadcast(F.dst)
  <2>. DEFINE ind == log.ind (+) SetToBag({F.id})
  <2>1. log' = [log EXCEPT !.ind = ind]
    BY <1>1 DEF NldeIndication
  <2>2. /\ DOMAIN ind = DOMAIN log.ind \cup {F.id}
        /\ \A y \in DOMAIN log.ind : y # F.id => ind[y] = log.ind[y] + 0
        /\ ind[F.id] = (IF F.id \in DOMAIN log.ind THEN log.ind[F.id] ELSE 0) + 1
    BY <1>0
  <2>. HIDE DEF ind
  <2>3. log'.ind = ind
    BY <2>1 DEF BuffersInv, LogTyped, LogFields
  <2>. QED BY <1>1, <2>2, <2>3
<1>2. CASE ~IsBroadcast(F.dst)
  BY <1>2 DEF NldeIndication
<1>. QED BY <1>1, <1>2

\* Time of the broadcasts: it only gets less, and never faster than what remembers them.
LifeStep ==
  /\ DOMAIN log.life \subseteq DOMAIN log'.life
  /\ \A id \in DOMAIN log.life : log'.life[id] > 0 =>
       /\ log.life[id] > 0
       /\ \A src, seq : Covers(btt, timer.exp, src, seq, log.life[id]) => Covers(btt', timer'.exp, src, seq, log'.life[id])

LEMMA LifeStays ==
  ASSUME BuffersInv, ExpiryRuns, Next, HistoryStep
  PROVE  LifeStep /\ ExpiryRuns'
<1>1. CASE Elapse
  BY <1>1, ElapseCovers DEF LifeStep
<1>2. CASE ~Elapse
  <2>1. CoverStays /\ ExpiryRuns'
    BY <1>2, CoverStep
  <2>2. \A id \in DOMAIN log.life : id \in DOMAIN log'.life /\ log'.life[id] = log.life[id]
    BY <1>2 DEF HistoryStep
  <2>3. \A id \in DOMAIN log.life : log.life[id] \in Nat
    <3>1. \A m, j \in Nat : 0 .. m * j \subseteq Nat
      OBVIOUS
    <3>. QED BY <3>1, Consts DEF BuffersInv, LogTyped
  <2>. QED BY <2>1, <2>2, <2>3 DEF LifeStep, CoverStays
<1>. QED BY <1>1, <1>2

LEMMA LivedStep ==
  ASSUME BuffersInv, Numbered, Lived, Numbered', HistoryStep, LifeStep,
         \A f : Held(f)' /\ f.id < 0 => FromHeld(f) \/ f.id \in DOMAIN log'.life
  PROVE  Lived'
<1>1. \A id \in DOMAIN log.life : id \in Int /\ id <= log'.own /\ id \in DOMAIN log'.life
  BY DEF Lived, HistoryStep, LifeStep, BuffersInv, LogTyped
<1>2. ASSUME DataRequest
      PROVE  Known(F) /\ F.id \in DOMAIN log'.life
  <2>1. Known(F)
    BY <1>2, FrameCalled DEF DataRequest, FrameFns
  <2>2. log'.life = IF F.id \in DOMAIN log.life THEN log.life ELSE Updated(log.life, F.id, BtrSeconds * Second)
    BY <1>2, RequestHistory
  <2>3. F.id \in DOMAIN log'.life
    BY <2>2, LastingLife
  <2>. QED BY <2>1, <2>3
<1>3. log.own \in Nat /\ (log'.own = log.own \/ log'.own = log.own + 1)
  BY DEF BuffersInv, LogTyped, HistoryStep
<1>4. ASSUME NEW f, FromKnown(f)
      PROVE  f.id \in Int /\ f.id <= log'.own
  BY <1>3, <1>4 DEF FromKnown, Numbered, Alike
<1>5. ASSUME NEW id \in DOMAIN log'.life
      PROVE  id \in Int /\ id <= log'.own
  <2>1. CASE DataRequest /\ id = F.id
    <3>1. FromKnown(F)
      BY <1>2, <2>1 DEF FromKnown, Alike
    <3>. QED BY <1>4, <2>1, <3>1
  <2>2. ASSUME NEW f \in Foreign \cup Repeated, id = f.id
        PROVE  id \in Int /\ id <= log'.own
    BY <1>4, <2>2, KnownHeard
  <2>. QED BY <1>1, <1>5, <2>1, <2>2 DEF HistoryStep
<1>6. ASSUME NEW f, Held(f)', f.id < 0
      PROVE  f.id \in DOMAIN log'.life
  <2>1. ASSUME FromHeld(f)
        PROVE  f.id \in DOMAIN log.life
    BY <1>6, <2>1 DEF FromHeld, Alike, Lived
  <2>. QED BY <1>1, <1>6, <2>1
<1>7. ASSUME NEW f \in log'.sent
      PROVE  f.id \in DOMAIN log'.life
  <2>1. CASE f \in log.sent
    BY <1>1, <2>1 DEF Lived
  <2>2. CASE DataRequest /\ Alike(f, F)
    BY <1>2, <2>2 DEF Alike
  <2>. QED BY <1>7, <2>1, <2>2 DEF HistoryStep
<1>8. ASSUME NEW id \in DOMAIN log'.ind, id < 0
      PROVE  id \in DOMAIN log'.life
  <2>1. CASE log'.ind = log.ind
    BY <1>1, <1>8, <2>1 DEF Lived
  <2>2. CASE NldeIndication
    <3>1. id \in DOMAIN log.ind \/ id = F.id
      BY <1>8, <2>2, IndicationHistory
    <3>2. Held(F)
      BY <2>2, FrameCalled DEF NldeIndication, FrameFns
    <3>. QED BY <1>1, <1>8, <3>1, <3>2 DEF Lived
  <2>. QED BY <2>1, <2>2 DEF HistoryStep
<1>. QED BY <1>5, <1>6, <1>7, <1>8 DEF Lived

\* A broadcast that rises anew: nothing was known of it, and now it is remembered.
NewlyRisen(id) ==
  \E h : Known(h) /\ h.id = id /\ (id > 0 => id \in log.late) /\ Covers(btt', timer'.exp, h.src, h.seq, log'.life[id])
RisenStep == \A id : Risen(id)' => Risen(id) \/ NewlyRisen(id)

LEMMA RisenLives ==
  ASSUME Lived, NEW id, id < 0, Risen(id)
  PROVE  id \in DOMAIN log.life
<1>1. ASSUME NEW b, Rising(b), work.buf[b].id = id
      PROVE  id \in DOMAIN log.life
  <2>1. Held(work.buf[b])
    BY <1>1 DEF Rising, Held
  <2>. QED BY <1>1, <2>1 DEF Lived
<1>. QED BY <1>1 DEF Risen, Lived

LEMMA HeardBelow ==
  ASSUME BuffersInv, NEW f \in Foreign
  PROVE  f.id \in Int /\ f.id < 0
<1>1. mix \in Mixes /\ f \in mix.frames
  BY DEF BuffersInv, BaseTyped, Foreign
<1>. QED BY <1>1, MixAssumption

LEMMA CoveredStep ==
  ASSUME BuffersInv, OnceInv, HistoryStep, LifeStep, Named, ExpiryRuns', Numbered', RisenStep
  PROVE  ForeignCovered' /\ OursCovered' /\ OursLate'
<1>0. Numbered /\ Lived /\ ForeignCovered /\ OursCovered /\ OursLate /\ ExpiryRuns /\ log.own \in Nat
  BY DEF OnceInv, BuffersInv, LogTyped
<1>1. ASSUME NEW f, Known(f)', f.id \in Int, f.id <= log.own
      PROVE  FromKnown(f)
  BY <1>0, <1>1 DEF Named, Alike
<1>2. ASSUME NEW f, Known(f)', f.id < 0, Risen(f.id)', Alive(f.id)'
      PROVE  Covered(f)'
  <2>0. f.id \in Int /\ f.id <= log.own
    BY <1>0, <1>2 DEF Numbered
  <2>1. PICK h : Known(h) /\ Alike(f, h)
    BY <1>1, <1>2, <2>0 DEF FromKnown
  <2>2. CASE Risen(f.id)
    <3>1. f.id \in DOMAIN log.life
      BY <1>0, <1>2, <2>2, RisenLives
    <3>2. log'.life[f.id] > 0
      BY <1>2 DEF Alive
    <3>3. Alive(h.id) /\ Risen(h.id) /\ h.id < 0
      BY <1>2, <2>1, <2>2, <3>1, <3>2 DEF LifeStep, Alive, Alike
    <3>4. Covers(btt, timer.exp, h.src, h.seq, log.life[h.id])
      BY <1>0, <2>1, <3>3 DEF ForeignCovered, Covered
    <3>5. Covers(btt', timer'.exp, f.src, f.seq, log'.life[f.id])
      BY <2>1, <3>1, <3>2, <3>4 DEF LifeStep, Alike
    <3>. QED BY <3>5 DEF Covered
  <2>3. CASE NewlyRisen(f.id)
    <3>1. PICK g : Known(g) /\ g.id = f.id /\ Covers(btt', timer'.exp, g.src, g.seq, log'.life[f.id])
      BY <2>3 DEF NewlyRisen
    <3>2. g.id = h.id
      BY <2>1, <3>1 DEF Alike
    <3>3. Alike(g, h)
      BY <1>0, <2>1, <3>1, <3>2 DEF Numbered
    <3>4. g.src = f.src /\ g.seq = f.seq
      BY <2>1, <3>3 DEF Alike
    <3>. QED BY <3>1, <3>4 DEF Covered
  <2>. QED BY <1>2, <2>2, <2>3 DEF RisenStep
<1>3. ASSUME NEW f, Known(f)', f.id > 0, f.id \notin log'.late, Alive(f.id)'
      PROVE  Covered(f)'
  <2>0. f.id \in Int
    BY <1>3 DEF Numbered
  <2>a. \A h : FromKnown(h) => h.id \in Int /\ h.id <= log.own
    BY <1>0 DEF FromKnown, Numbered, Alike
  <2>b. f.id \in DOMAIN log'.life /\ log'.life[f.id] > 0
    BY <1>3 DEF Alive
  <2>1. CASE f.id \in DOMAIN log.life
    <3>1. PICK h : Known(h) /\ Alike(f, h)
      <4>1. f.id <= log.own
        BY <1>0, <2>1 DEF Lived
      <4>. QED BY <1>1, <1>3, <2>0, <4>1 DEF FromKnown
    <3>2. Alive(h.id) /\ h.id > 0 /\ h.id \notin log.late
      BY <1>3, <2>1, <2>b, <3>1 DEF LifeStep, Alive, Alike, HistoryStep
    <3>3. Covers(btt, timer.exp, h.src, h.seq, log.life[h.id])
      BY <1>0, <3>1, <3>2 DEF OursCovered, Covered
    <3>4. Covers(btt', timer'.exp, f.src, f.seq, log'.life[f.id])
      BY <2>1, <2>b, <3>1, <3>3 DEF LifeStep, Alike
    <3>. QED BY <3>4 DEF Covered
  <2>2. CASE f.id \notin DOMAIN log.life /\ DataRequest /\ f.id = F.id
    <3>1. Known(F)
      BY <2>2, FrameCalled DEF DataRequest, FrameFns
    <3>2. PICK h : Known(h) /\ Alike(f, h)
      <4>1. FromKnown(F)
        BY <3>1 DEF FromKnown, Alike
      <4>. QED BY <1>1, <1>3, <2>0, <2>2, <2>a, <4>1 DEF FromKnown
    <3>3. h.id = F.id
      BY <2>2, <3>2 DEF Alike
    <3>4. Alike(h, F)
      BY <1>0, <3>1, <3>2, <3>3 DEF Numbered
    <3>5. f.src = F.src /\ f.seq = F.seq
      BY <3>2, <3>4 DEF Alike
    <3>6. Remembered(F) /\ log'.life = Updated(log.life, F.id, BtrSeconds * Second)
      BY <1>3, <2>2, RequestHistory
    <3>7. PICK i \in Find(btt, F.src, F.seq) : btt[i].exp = BtrSeconds
      BY <3>6 DEF Remembered
    <3>8. log'.life[f.id] = BtrSeconds * Second
      BY <2>2, <3>6 DEF Updated
    <3>9. btt' = btt /\ timer' = timer
      BY <2>2 DEF DataRequest, tables
    <3>10. timer.exp >= 0 /\ timer.exp \in Int
      BY <1>0, <3>7, UsedCounted DEF ExpiryRuns, Find
    <3>11. BtrSeconds * Second <= timer.exp + btt[i].exp * Second
      <4>1. \A m \in Nat : \A x \in Int : x >= 0 => m <= x + m
        OBVIOUS
      <4>2. \A m, j \in Nat : m * j \in Nat
        OBVIOUS
      <4>3. BtrSeconds * Second \in Nat
        BY <4>2, Consts
      <4>. QED BY <3>7, <3>10, <4>1, <4>3
    <3>. QED BY <3>5, <3>7, <3>8, <3>9, <3>11 DEF Covered, Covers
  <2>3. ASSUME f.id \notin DOMAIN log.life, NEW g \in Foreign \cup Repeated, f.id = g.id
        PROVE  FALSE
    <3>1. CASE g \in Foreign
      BY <1>3, <2>3, <3>1, HeardBelow
    <3>2. ASSUME NEW s \in log.sent, g.id = s.id
          PROVE  FALSE
      BY <1>0, <2>3, <3>2 DEF Lived
    <3>. QED BY <2>3, <3>1, <3>2, KnownHeard
  <2>. QED BY <2>b, <2>1, <2>2, <2>3 DEF HistoryStep
<1>4. ASSUME NEW id \in Int, id > 0, Risen(id)'
      PROVE  id \in log'.late
  BY <1>0, <1>4 DEF RisenStep, NewlyRisen, OursLate, HistoryStep
<1>. QED BY <1>2, <1>3, <1>4 DEF ForeignCovered, OursCovered, OursLate

\* Broadcasts rise from one buffer to another, no two to the same.
LEMMA RisingMoves ==
  ASSUME OnceOnly, log'.ind = log.ind, NEW m,
         \A b : Rising(b)' => Rising(m[b]) /\ Alike(work'.buf[b], work.buf[m[b]]),
         \A b, c : Rising(b)' /\ Rising(c)' /\ m[b] = m[c] => b = c
  PROVE  OnceOnly' /\ RisenStep
<1>1. ASSUME NEW b, Rising(b)', work'.buf[b].id < 0
      PROVE  work'.buf[b].id \notin DOMAIN log'.ind
  <2>1. Rising(m[b]) /\ work'.buf[b].id = work.buf[m[b]].id
    BY <1>1 DEF Alike
  <2>. QED BY <1>1, <2>1 DEF OnceOnly
<1>2. ASSUME NEW b, NEW c, Rising(b)', Rising(c)', work'.buf[b].id = work'.buf[c].id, work'.buf[b].id < 0
      PROVE  b = c
  <2>1. Rising(m[b]) /\ work'.buf[b].id = work.buf[m[b]].id /\ Rising(m[c]) /\ work'.buf[c].id = work.buf[m[c]].id
    BY <1>2 DEF Alike
  <2>2. m[b] = m[c]
    BY <1>2, <2>1 DEF OnceOnly
  <2>. QED BY <1>2, <2>2
<1>3. RisenStep
  <2>1. ASSUME NEW id, Risen(id)'
        PROVE  Risen(id)
    <3>1. ASSUME NEW b, Rising(b)', work'.buf[b].id = id
          PROVE  Risen(id)
      BY <3>1 DEF Risen, Alike
    <3>. QED BY <2>1, <3>1 DEF Risen
  <2>. QED BY <2>1 DEF RisenStep
<1>4. \A id \in DOMAIN log'.ind : id \in Int /\ id # 0 /\ log'.ind[id] \in Nat \ {0} /\ (id < 0 => log'.ind[id] = 1)
  BY DEF OnceOnly
<1>. QED BY <1>1, <1>2, <1>3, <1>4 DEF OnceOnly

LEMMA RisingStays ==
  ASSUME OnceOnly, log'.ind = log.ind, RisingKept
  PROVE  OnceOnly' /\ RisenStep
<1>. DEFINE m == [b \in Bufs |-> b]
<1>1. \A b : Rising(b)' => b \in Bufs /\ m[b] = b
  BY DEF Rising
<1>2. \A b : Rising(b)' => Rising(m[b]) /\ Alike(work'.buf[b], work.buf[m[b]])
  BY <1>1 DEF RisingKept
<1>3. \A b, c : Rising(b)' /\ Rising(c)' /\ m[b] = m[c] => b = c
  BY <1>1
<1>. HIDE DEF m
<1>. QED BY <1>2, <1>3, RisingMoves

\* The frame that is handed up rises no more.
LEMMA HandedUp ==
  ASSUME BuffersInv, BuffersInv', Numbered, OnceOnly, NldeIndication
  PROVE  OnceOnly' /\ RisenStep
<1>1. PICK p : p = P
  OBVIOUS
<1>2. Runs("nldeInd") /\ work' = Freed(W, p) /\ wait_alloc' = wait_alloc
  BY <1>1 DEF NldeIndication, tables
<1>3. p \in Bufs /\ Outside(p) = 0 /\ Echo(W, p, F) /\ Mute(W, p) /\ IsFrame(F) /\ ~Waiting(p) /\ Held(F)
  BY <1>1, <1>2, HeadFacts, EchoRuns, NotWaiting, FrameCalled DEF Quiet, FrameFns
<1>4. Quiet(work', p, F)
  BY <1>2, <1>3, EchoFrees DEF Quiet
<1>5. RisingKept
  BY <1>2, <1>3, <1>4, QuietStep
<1>6. ~Rising(p)'
  <2>1. ~Waiting(p)'
    BY <1>2, <1>3 DEF Waiting
  <2>. QED BY <1>3, <1>4, <2>1 DEF Rising, Quiet, Mute, Loud
<1>7. CASE ~IsBroadcast(F.dst)
  <2>1. log'.ind = log.ind
    BY <1>7, IndicationHistory
  <2>. QED BY <1>5, <2>1, RisingStays
<1>8. CASE IsBroadcast(F.dst)
  <2>1. Rising(p) /\ work.buf[p] = F
    <3>1. 1 \in DOMAIN work.cb /\ work.cb[1].fn = "nldeInd" /\ work.cb[1] = Head(work.cb)
      BY <1>2, HeadFacts
    <3>2. Says(work, "nldeInd", p)
      BY <1>1, <3>1 DEF Says, P
    <3>3. work.buf[p] = F
      BY <1>1 DEF F
    <3>. QED BY <1>3, <1>8, <3>2, <3>3 DEF Rising, Up
  <2>2. F.id \in Int /\ F.id # 0
    BY <1>3 DEF Numbered, Known
  <2>3. /\ \A id \in DOMAIN log'.ind : id \in DOMAIN log.ind \/ id = F.id
        /\ \A id \in DOMAIN log.ind : log.ind[id] \in Nat /\ id # F.id => log'.ind[id] = log.ind[id]
        /\ F.id \in DOMAIN log'.ind /\ log'.ind[F.id] = (IF F.id \in DOMAIN log.ind THEN log.ind[F.id] ELSE 0) + 1
    BY <1>8, IndicationHistory
  <2>4. F.id < 0 => F.id \notin DOMAIN log.ind
    BY <2>1 DEF OnceOnly
  <2>5. ASSUME NEW b, Rising(b)', work'.buf[b].id < 0
        PROVE  work'.buf[b].id \notin DOMAIN log'.ind
    <3>1. Rising(b) /\ work'.buf[b].id = work.buf[b].id /\ b # p
      BY <1>5, <1>6, <2>5 DEF RisingKept, Alike
    <3>2. work.buf[b].id # F.id /\ work.buf[b].id \notin DOMAIN log.ind
      BY <2>1, <2>5, <3>1 DEF OnceOnly
    <3>. QED BY <2>3, <3>1, <3>2
  <2>6. ASSUME NEW b, NEW c, Rising(b)', Rising(c)', work'.buf[b].id = work'.buf[c].id, work'.buf[b].id < 0
        PROVE  b = c
    <3>1. Rising(b) /\ work'.buf[b].id = work.buf[b].id /\ Rising(c) /\ work'.buf[c].id = work.buf[c].id
      BY <1>5, <2>6 DEF RisingKept, Alike
    <3>. QED BY <2>6, <3>1 DEF OnceOnly
  <2>7. ASSUME NEW id \in DOMAIN log'.ind
        PROVE  id \in Int /\ id # 0 /\ log'.ind[id] \in Nat \ {0} /\ (id < 0 => log'.ind[id] = 1)
    <3>1. CASE id = F.id
      <4>1. F.id \in DOMAIN log.ind => log.ind[F.id] \in Nat
        BY DEF OnceOnly
      <4>. QED BY <2>2, <2>3, <2>4, <3>1, <4>1
    <3>2. CASE id # F.id
      <4>1. id \in DOMAIN log.ind
        BY <2>3, <2>7, <3>2
      <4>. QED BY <2>3, <3>2, <4>1 DEF OnceOnly
    <3>. QED BY <3>1, <3>2
  <2>8. RisenStep
    <3>1. ASSUME NEW id, Risen(id)'
          PROVE  Risen(id)
      <4>1. ASSUME NEW b, Rising(b)', work'.buf[b].id = id
            PROVE  Risen(id)
        BY <1>5, <4>1 DEF RisingKept, Risen, Alike
      <4>2. ASSUME id \in DOMAIN log'.ind
            PROVE  Risen(id)
        BY <2>1, <2>3, <4>2 DEF Risen
      <4>. QED BY <3>1, <4>1, <4>2 DEF Risen
    <3>. QED BY <3>1 DEF RisenStep
  <2>. QED BY <2>5, <2>6, <2>7, <2>8 DEF OnceOnly
<1>. QED BY <1>7, <1>8

\* A broadcast new to the table of transactions was not handed up before.
LEMMA NewRises ==
  ASSUME BuffersInv, OnceInv, Next, HistoryStep, BroadcastIndication, P \in Bufs, IsFrame(F), Says(work, "dataInd", P),
         NewBroadcast(F), AddToBtt(F), timer' = StartExpiry(timer, btt_cnt + 1),
         \A b : Rising(b)' => (b # P /\ Rising(b) /\ Alike(work'.buf[b], work.buf[b])) \/ (b = P /\ Alike(work'.buf[b], F))
  PROVE  OnceOnly' /\ RisenStep
<1>1. PICK p : p = P
  OBVIOUS
<1>2. \A b : Rising(b)' => (b # p /\ Rising(b) /\ Alike(work'.buf[b], work.buf[b])) \/ (b = p /\ Alike(work'.buf[b], F))
  BY <1>1
<1>3. Alive(F.id) /\ Held(F) /\ Known(F) /\ F.id \in Int /\ F.id # 0
  <2>1. work.buf[P] = F
    BY DEF F
  <2>2. Alive(F.id)
    BY <2>1 DEF OnceInv, HeardAlive
  <2>3. Held(F)
    BY <2>1 DEF Held
  <2>. QED BY <2>2, <2>3 DEF OnceInv, Numbered, Known
<1>4. ~Covered(F)
  BY DEF NewBroadcast, Covered, Covers
<1>5. F.id < 0 => ~Risen(F.id)
  BY <1>3, <1>4 DEF OnceInv, ForeignCovered
<1>6. F.id > 0 => F.id \in log.late
  BY <1>3, <1>4 DEF OnceInv, OursCovered
<1>7. log'.ind = log.ind /\ log'.life[F.id] = log.life[F.id]
  <2>1. DOMAIN log = LogFields
    BY DEF BuffersInv, LogTyped
  <2>2. \E v : log' = log \/ log' = [log EXCEPT !.acked = v]
    BY DEF BroadcastIndication
  <2>. QED BY <2>1, <2>2 DEF LogFields
<1>8. Covers(btt', timer'.exp, F.src, F.seq, log'.life[F.id])
  <2>1. Holes(btt) # {} /\ ExpiryRuns
    BY DEF NewBroadcast, OnceInv
  <2>2. timer'.exp = IF btt_cnt + 1 = 1 THEN Second ELSE timer.exp
    <3>1. timer \in TimerTypes
      BY TimerFits
    <3>2. StartExpiry(timer, btt_cnt + 1).exp = (IF btt_cnt + 1 = 1 THEN Second ELSE timer.exp)
      BY <3>1, ExpEdits
    <3>. QED BY <3>2
  <2>3. \A l \in Nat : l <= BtrSeconds * Second => Covers(btt', timer'.exp, F.src, F.seq, l)
    BY <2>1, <2>2, AddCovers
  <2>4. log.life[F.id] \in Nat /\ log.life[F.id] <= BtrSeconds * Second
    <3>1. \A m, j \in Nat : 0 .. m * j \subseteq Nat /\ \A l \in 0 .. m * j : l <= m * j
      OBVIOUS
    <3>2. log.life[F.id] \in 0 .. BtrSeconds * Second
      BY <1>3 DEF Alive, BuffersInv, LogTyped
    <3>. QED BY <3>1, <3>2, Consts
  <2>. QED BY <1>7, <2>3, <2>4
<1>9. RisenStep
  <2>1. NewlyRisen(F.id)
    BY <1>3, <1>6, <1>8 DEF NewlyRisen
  <2>2. ASSUME NEW id, Risen(id)'
        PROVE  Risen(id) \/ NewlyRisen(id)
    <3>1. ASSUME NEW b, Rising(b)', work'.buf[b].id = id
          PROVE  Risen(id) \/ NewlyRisen(id)
      BY <1>2, <2>1, <3>1 DEF Risen, Alike
    <3>. QED BY <1>7, <2>2, <3>1 DEF Risen
  <2>. QED BY <2>2 DEF RisenStep
<1>10. OnceOnly
  BY DEF OnceInv
<1>11. ASSUME NEW b, Rising(b)', work'.buf[b].id < 0
       PROVE  work'.buf[b].id \notin DOMAIN log'.ind
  <2>1. CASE b = p
    BY <1>2, <1>5, <1>7, <1>11, <2>1 DEF Risen, Alike
  <2>2. CASE b # p
    BY <1>2, <1>7, <1>10, <1>11, <2>2 DEF OnceOnly, Alike
  <2>. QED BY <2>1, <2>2
<1>12. ASSUME NEW b, NEW c, Rising(b)', Rising(c)', work'.buf[b].id = work'.buf[c].id, work'.buf[b].id < 0
       PROVE  b = c
  <2>1. ASSUME NEW x, NEW y, Rising(x)', Rising(y)', work'.buf[x].id = work'.buf[y].id, work'.buf[x].id < 0, x = p, y # p
        PROVE  FALSE
    <3>1. work'.buf[x].id = F.id /\ Rising(y) /\ work.buf[y].id = F.id
      BY <1>2, <2>1 DEF Alike
    <3>2. Risen(F.id)
      BY <3>1 DEF Risen
    <3>. QED BY <1>5, <2>1, <3>1, <3>2
  <2>2. CASE b = p \/ c = p
    BY <1>12, <2>1, <2>2
  <2>3. CASE b # p /\ c # p
    <3>1. Rising(b) /\ work'.buf[b].id = work.buf[b].id /\ Rising(c) /\ work'.buf[c].id = work.buf[c].id
      BY <1>2, <1>12, <2>3 DEF Alike
    <3>. QED BY <1>10, <1>12, <3>1 DEF OnceOnly
  <2>. QED BY <2>2, <2>3
<1>13. \A id \in DOMAIN log'.ind : id \in Int /\ id # 0 /\ log'.ind[id] \in Nat \ {0} /\ (id < 0 => log'.ind[id] = 1)
  BY <1>7, <1>10 DEF OnceOnly
<1>. QED BY <1>9, <1>11, <1>12, <1>13 DEF OnceOnly

\* Nothing rises in the other steps but what did, and a second buffer for what waited.
LEMMA SecondRises ==
  ASSUME OnceOnly, log'.ind = log.ind, NEW p \in Bufs, NEW c \in Bufs,
         \A b : Rising(b)' =>
           (b # p /\ b # c /\ Rising(b) /\ Alike(work'.buf[b], work.buf[b])) \/ (b = p /\ Rising(c) /\ Alike(work'.buf[b], work.buf[c]))
  PROVE  OnceOnly' /\ RisenStep
<1>. DEFINE m == [b \in Bufs |-> IF b = p THEN c ELSE b]
<1>1. \A b : Rising(b)' => b \in Bufs /\ m[b] = IF b = p THEN c ELSE b
  BY DEF Rising
<1>. HIDE DEF m
<1>2. \A b : Rising(b)' => Rising(m[b]) /\ Alike(work'.buf[b], work.buf[m[b]])
  BY <1>1
<1>3. \A b, d : Rising(b)' /\ Rising(d)' /\ m[b] = m[d] => b = d
  BY <1>1
<1>. QED BY <1>2, <1>3, RisingMoves

LEMMA HeardStays ==
  ASSUME HeardAlive, HeardKept, HistoryStep
  PROVE  HeardAlive'
<1>1. CASE Elapse
  <2>1. work'.cb = <<>>
    BY <1>1 DEF Elapse
  <2>. QED BY <2>1 DEF HeardAlive, Says
<1>2. CASE ~Elapse
  <2>1. \A id \in DOMAIN log.life : id \in DOMAIN log'.life /\ log'.life[id] = log.life[id]
    BY <1>2 DEF HistoryStep
  <2>2. ASSUME NEW b \in Bufs, Says(work', "dataInd", b)
        PROVE  work'.buf[b].id \in DOMAIN log'.life /\ log'.life[work'.buf[b].id] > 0
    <3>1. Says(work, "dataInd", b) /\ work'.buf[b].id = work.buf[b].id
      BY <2>2 DEF HeardKept, Alike
    <3>. QED BY <2>1, <3>1 DEF HeardAlive, Alive
  <2>. QED BY <2>2 DEF HeardAlive, Alive
<1>. QED BY <1>1, <1>2

\* What each step does to the frames, to what rises and to what is heard.
LEMMA OnceParts ==
  ASSUME BuffersInv, BuffersInv', OnceInv, Next, HistoryStep
  PROVE  /\ Named /\ OnceOnly' /\ RisenStep /\ HeardAlive'
         /\ \A f : Held(f)' /\ f.id < 0 => FromHeld(f) \/ f.id \in DOMAIN log'.life
<1>0. /\ Numbered /\ Lived /\ OnceOnly /\ HeardAlive /\ mix' = mix
      /\ \A x : Runs(x) => Head(work.cb).fn = x
  BY MixStays DEF OnceInv, Runs
<1>1. CASE HeldKept /\ HeardKept /\ OnceOnly' /\ RisenStep
  <2>1. Named
    BY <1>0, <1>1, NamedStep
  <2>2. HeardAlive'
    BY <1>0, <1>1, HeardStays
  <2>. QED BY <1>1, <2>1, <2>2 DEF HeldKept
<1>2. CASE Steady
  <2>1. OnceOnly' /\ RisenStep
    <3>1. CASE log'.ind = log.ind
      BY <1>0, <1>2, <3>1, RisingStays DEF Steady
    <3>2. CASE NldeIndication
      BY <1>0, <3>2, HandedUp
    <3>. QED BY <3>1, <3>2 DEF HistoryStep
  <2>. QED BY <1>1, <1>2, <2>1 DEF Steady
<1>3. CASE Begun /\ log' = OwnId(log)
  <2>1. log'.ind = log.ind /\ log'.own = log.own + 1 /\ log.own \in Nat
    BY <1>3, OwnHistory DEF BuffersInv, LogTyped
  <2>2. PICK g : g.id = log.own + 1 /\ RisingKept /\ HeardKept /\ \A f : Held(f)' => Alike(f, g) \/ FromHeld(f)
    BY <1>3 DEF Begun
  <2>3. OnceOnly' /\ RisenStep /\ HeardAlive'
    BY <1>0, <2>1, <2>2, RisingStays, HeardStays
  <2>4. Named
    BY <1>0, <1>3, NamedStep
  <2>5. \A f : Held(f)' /\ f.id < 0 => FromHeld(f)
    BY <2>1, <2>2 DEF Alike
  <2>. QED BY <2>3, <2>4, <2>5
<1>4. ASSUME NEW f \in Foreign \cup Repeated, NEW k \in DOMAIN Nbt, Receive(f, k)
      PROVE  /\ Named /\ OnceOnly' /\ RisenStep /\ HeardAlive'
             /\ \A h : Held(h)' /\ h.id < 0 => FromHeld(h) \/ h.id \in DOMAIN log'.life
  <2>1. /\ \A h : Held(h)' => Alike(h, f) \/ FromHeld(h)
        /\ RisingKept
        /\ \A b \in Bufs : Says(work', "dataInd", b) =>
             (Says(work, "dataInd", b) /\ Alike(work'.buf[b], work.buf[b])) \/ work'.buf[b].id = f.id
    BY <1>4, ReceiveStep
  <2>2. /\ log'.ind = log.ind
        /\ log'.life = IF f.id \in DOMAIN log.life THEN log.life ELSE Updated(log.life, f.id, BtrSeconds * Second)
    BY <1>4, HeardHistory
  <2>3. /\ \A id \in DOMAIN log.life : id \in DOMAIN log'.life /\ log'.life[id] = log.life[id]
        /\ f.id \in DOMAIN log'.life /\ (f.id \notin DOMAIN log.life => log'.life[f.id] = BtrSeconds * Second)
    BY <2>2, LastingLife
  <2>4. log'.life[f.id] > 0
    <3>1. f.id \in DOMAIN log.life => log.life[f.id] > 0
      BY <1>4 DEF Receive
    <3>2. \A m, j \in Nat \ {0} : m * j > 0
      OBVIOUS
    <3>3. BtrSeconds * Second > 0
      BY <3>2, BroadcastAssumption
    <3>. QED BY <2>3, <3>1, <3>3
  <2>5. OnceOnly' /\ RisenStep
    BY <1>0, <2>1, <2>2, RisingStays
  <2>6. Named
    <3>1. FromKnown(f)
      BY KnownHeard
    <3>. QED BY <1>0, <2>1, <3>1, NamedStep
  <2>7. HeardAlive'
    <3>1. ASSUME NEW b \in Bufs, Says(work', "dataInd", b)
          PROVE  work'.buf[b].id \in DOMAIN log'.life /\ log'.life[work'.buf[b].id] > 0
      <4>1. CASE work'.buf[b].id = f.id
        BY <2>3, <2>4, <4>1 DEF Alive
      <4>2. CASE Says(work, "dataInd", b) /\ work'.buf[b].id = work.buf[b].id
        BY <1>0, <2>3, <4>2 DEF HeardAlive, Alive
      <4>. QED BY <2>1, <3>1, <4>1, <4>2 DEF Alike
    <3>. QED BY <3>1 DEF HeardAlive, Alive
  <2>8. \A h : Held(h)' /\ h.id < 0 => FromHeld(h) \/ h.id \in DOMAIN log'.life
    BY <2>1, <2>3 DEF Alike
  <2>. QED BY <2>5, <2>6, <2>7, <2>8
<1>5. CASE BroadcastIndication /\ ~Steady
  <2>1. /\ HeldKept /\ HeardKept /\ NewBroadcast(F) /\ AddToBtt(F) /\ timer' = StartExpiry(timer, btt_cnt + 1)
        /\ P \in Bufs /\ IsFrame(F) /\ Says(work, "dataInd", P)
        /\ \A b : Rising(b)' => (b # P /\ Rising(b) /\ Alike(work'.buf[b], work.buf[b])) \/ (b = P /\ Alike(work'.buf[b], F))
    BY <1>5, IndicationStep
  <2>2. OnceOnly' /\ RisenStep
    BY <1>5, <2>1, NewRises
  <2>. QED BY <1>1, <2>1, <2>2
<1>6. CASE NewBuffer /\ ~Steady
  <2>1. /\ HeldKept /\ HeardKept
        /\ \E p, c \in Bufs : \A b : Rising(b)' =>
             (b # p /\ b # c /\ Rising(b) /\ Alike(work'.buf[b], work.buf[b])) \/ (b = p /\ Rising(c) /\ Alike(work'.buf[b], work.buf[c]))
    BY <1>6, SecondStep
  <2>2. log'.ind = log.ind
    BY <1>6 DEF NewBuffer
  <2>3. OnceOnly' /\ RisenStep
    BY <1>0, <2>1, <2>2, SecondRises
  <2>. QED BY <1>1, <2>1, <2>3
<1>. QED BY <1>2, <1>3, <1>4, <1>5, <1>6, StepKinds

LEMMA OnceStep ==
  ASSUME BuffersInv, BuffersInv', OnceInv, Next
  PROVE  OnceInv'
<1>1. HistoryStep
  BY Histories
<1>2. /\ Named /\ OnceOnly' /\ RisenStep /\ HeardAlive'
      /\ \A f : Held(f)' /\ f.id < 0 => FromHeld(f) \/ f.id \in DOMAIN log'.life
  BY <1>1, OnceParts
<1>3. Numbered /\ Lived /\ ExpiryRuns
  BY DEF OnceInv
<1>4. Numbered'
  BY <1>1, <1>2, <1>3, NumberedStep
<1>5. LifeStep /\ ExpiryRuns'
  BY <1>1, <1>3, LifeStays
<1>6. Lived'
  BY <1>1, <1>2, <1>3, <1>4, <1>5, LivedStep
<1>7. ForeignCovered' /\ OursCovered' /\ OursLate'
  BY <1>1, <1>2, <1>4, <1>5, CoveredStep
<1>. QED BY <1>2, <1>4, <1>5, <1>6, <1>7 DEF OnceInv

LEMMA OnceRemains ==
  ASSUME OnceInv, UNCHANGED vars
  PROVE  OnceInv'
BY DEF OnceInv, vars, Numbered, Lived, OnceOnly, HeardAlive, ForeignCovered, OursCovered, OursLate, ExpiryRuns,
       Known, Held, Risen, Rising, Waiting, Alive, Covered

LEMMA OnceStarts ==
  ASSUME Init
  PROVE  OnceInv
<1>0. BuffersInv
  BY Starts0
<1>1. /\ work.buf = [b \in Bufs |-> NoBuf] /\ work.cb = <<>> /\ log.own = 0 /\ log.ind = EmptyBag /\ log.sent = {}
      /\ log.life = <<>> /\ log.late = {} /\ btt = [i \in 1 .. BtrSize |-> FreeBtr] /\ wait_alloc = <<>>
  BY DEF Init
<1>2. DOMAIN log.ind = {} /\ DOMAIN log.life = {} /\ DOMAIN work.cb = {} /\ DOMAIN wait_alloc = {}
  BY <1>1 DEF EmptyBag, SetToBag
<1>3. ~IsFrame(NoBuf)
  BY KindsApart
<1>4. \A f : ~Held(f)
  BY <1>1, <1>3 DEF Held
<1>5. \A f : Known(f) => f \in Foreign
  BY <1>1, <1>4 DEF Known, Foreign
<1>6. \A b : ~Rising(b)
  BY <1>1, <1>3 DEF Rising
<1>7. \A id : ~Risen(id) /\ ~Alive(id)
  BY <1>2, <1>6 DEF Risen, Alive
<1>8. Numbered
  <2>1. \A f : Known(f) => f.id \in Int /\ f.id < 0
    BY <1>0, <1>5, HeardBelow
  <2>2. mix \in Mixes
    BY <1>0 DEF BuffersInv, BaseTyped
  <2>3. ASSUME NEW f, NEW g, Known(f), Known(g), f.id = g.id
        PROVE  Alike(f, g)
    <3>1. f \in mix.frames /\ g \in mix.frames
      BY <1>5, <2>3 DEF Foreign
    <3>. QED BY <2>2, <2>3, <3>1, MixAssumption DEF Alike
  <2>. QED BY <1>1, <2>1, <2>3 DEF Numbered
<1>9. Lived /\ OnceOnly /\ HeardAlive
  BY <1>1, <1>2, <1>4, <1>6 DEF Lived, OnceOnly, HeardAlive, Says
<1>10. ForeignCovered /\ OursCovered /\ OursLate
  BY <1>7 DEF ForeignCovered, OursCovered, OursLate
<1>11. ExpiryRuns
  BY <1>1 DEF ExpiryRuns, Used, FreeBtr
<1>. QED BY <1>8, <1>9, <1>10, <1>11 DEF OnceInv

(* Frames and histories of the broadcasts: what rises, was handed up or is *)
(* ours is in the table of transactions as long as it spreads              *)
(* (nwk_main.c:488-640, 1040-1110).                                        *)
THEOREM OnceInductive == Spec => [](BuffersInv /\ OnceInv)
<1>1. Init => BuffersInv /\ OnceInv
  BY Starts0, OnceStarts
<1>2. BuffersInv /\ OnceInv /\ [Next]_vars => (BuffersInv /\ OnceInv)'
  BY Steps, OnceStep, OnceRemains
<1>. QED BY <1>1, <1>2, PTL DEF Spec

(* However many copies of a broadcast come while it spreads, it is handed  *)
(* up once; our own never, but for one whose place in the table had aged   *)
(* before it was first sent (zb_mcps_data_indication, broadcast            *)
(* transaction table).                                                     *)
THEOREM IndicatedAtMostOnce == Spec => []IndicatedOnce
<1>1. OnceInv => IndicatedOnce
  <2>1. ASSUME OnceInv, NEW id \in DOMAIN log.ind
        PROVE  IF id > 0 THEN id \in log.late ELSE Count(id, log.ind) = 1
    BY <2>1 DEF OnceInv, OnceOnly, OursLate, Risen, Count
  <2>. QED BY <2>1 DEF IndicatedOnce, BagToSet
<1>. QED BY <1>1, OnceInductive, PTL
-----------------------------------------------------------------------------
\* The information base ends with what was announced or set.

\* The requests that write the base, with their place in the queue: an attribute
\* that is accepted, and the start with a new PAN id.
Writers == {"setReq", "startReq"}
At(w, i) == w.buf[w.cb[i].p]
Brings(w, i, a) == i \in DOMAIN w.cb /\ w.cb[i].fn = "setReq" /\ At(w, i).attr = a /\ a \in Settable(At(w, i).layer)
Starts(w, i) == i \in DOMAIN w.cb /\ w.cb[i].fn = "startReq"
Requests(w) == \A i \in DOMAIN w.cb : w.cb[i].fn \in Writers => w.cb[i].p \in Bufs /\ At(w, i).kind \in {"set", "start"}

\* The last request for an attribute brings what was set, or brought it.
SetSound(w, at, s) ==
  /\ \A i, a : Brings(w, i, a) => a \in DOMAIN s /\ (At(w, i).value = s[a] \/ \E j : j > i /\ Brings(w, j, a))
  /\ DOMAIN s \subseteq Attrs
  /\ \A a \in DOMAIN s \ StackWrites : at[a] = Kept(a, s[a]) \/ \E i : Brings(w, i, a)

\* The id announced is kept until it is used; the last start brings it, or did.
Seeks(w) ==
  \/ \E i \in DOMAIN w.cb : w.cb[i].fn = "setPanid"
  \/ \E d \in {"in", "out"} : \E k \in DOMAIN w.wait[d] : w.wait[d][k] = "setPanid"
Pending(w, tm) == tm.pans # <<>> \/ Seeks(w)
PanSound(w, at, lg, tm, p) ==
  /\ Pending(w, tm) /\ ~lg.overtaken => p.new = lg.pan
  /\ ~Pending(w, tm) /\ ~lg.overtaken /\ lg.pan # -1 =>
       /\ \A i : Starts(w, i) => At(w, i).req.pan_id = lg.pan \/ \E j : j > i /\ Starts(w, j)
       /\ "PanId" \in DOMAIN lg.set \/ at["PanId"] = lg.pan \/ \E i : Starts(w, i)
BaseInv == Requests(work) /\ SetSound(work, attr, log.set) /\ PanSound(work, attr, log, timer, pc)

-----------------------------------------------------------------------------
\* A new value of the work goes on from another one: the calls there were stay,
\* with what the writers bring, and no writer comes.

Goes(v, u) ==
  /\ Shaped(v) /\ Len(u.cb) <= Len(v.cb)
  /\ \A i \in DOMAIN u.cb : v.cb[i] = u.cb[i] /\ (u.cb[i].fn \in Writers => At(v, i) = At(u, i))
  /\ \A i \in DOMAIN v.cb : i \notin DOMAIN u.cb => v.cb[i].fn \notin Writers
Follows(v, u) == Goes(v, u) /\ (Seeks(v) <=> Seeks(u))
Spare(u, b) == b \in Bufs /\ \A i \in DOMAIN u.cb : u.cb[i].fn \in Writers => u.cb[i].p # b

LEMMA CalledQueue ==
  ASSUME NEW v, Shaped(v), NEW fn \in Fns, NEW p \in Bufs \cup {0}
  PROVE  /\ Shaped(Called(v, fn, p)) /\ Called(v, fn, p).buf = v.buf /\ Called(v, fn, p).wait = v.wait
         /\ Len(v.cb) \in Nat /\ DOMAIN v.cb = 1 .. Len(v.cb) /\ Len(Called(v, fn, p).cb) = Len(v.cb) + 1
         /\ DOMAIN Called(v, fn, p).cb = 1 .. Len(v.cb) + 1
         /\ \A i \in DOMAIN v.cb : Called(v, fn, p).cb[i] = v.cb[i]
         /\ Called(v, fn, p).cb[Len(v.cb) + 1].fn = fn /\ Called(v, fn, p).cb[Len(v.cb) + 1].p = p
<1>. DEFINE u == Called(v, fn, p)
            c == [fn |-> fn, p |-> p]
<1>1. v = [buf |-> v.buf, cb |-> v.cb, wait |-> v.wait] /\ v.cb \in Seq(Calls)
  BY DEF Shaped
<1>2. u = [v EXCEPT !.cb = Append(v.cb, c)]
  BY DEF Called
<1>3. c \in Calls /\ c.fn = fn /\ c.p = p
  BY DEF Calls
<1>4. Shaped(u) /\ u.buf = v.buf /\ u.wait = v.wait
  BY CalledSays
<1>. HIDE DEF u, c
<1>5. u = [buf |-> v.buf, cb |-> Append(v.cb, c), wait |-> v.wait]
  BY <1>1, <1>2, WorkEdits, Zenon
<1>6. u.cb = Append(v.cb, c)
  BY <1>5, WorkParts, Zenon
<1>7. /\ Len(v.cb) \in Nat /\ DOMAIN v.cb = 1 .. Len(v.cb) /\ Len(Append(v.cb, c)) = Len(v.cb) + 1
      /\ DOMAIN Append(v.cb, c) = 1 .. Len(v.cb) + 1
      /\ Append(v.cb, c)[Len(v.cb) + 1] = c /\ \A i \in 1 .. Len(v.cb) : Append(v.cb, c)[i] = v.cb[i]
  BY <1>1, <1>3
<1>. QED BY <1>3, <1>4, <1>6, <1>7 DEF u

LEMMA FilledQueue ==
  ASSUME NEW v, Shaped(v), NEW b \in Bufs, NEW c
  PROVE  /\ Shaped(Filled(v, b, c)) /\ Filled(v, b, c).wait = v.wait /\ Filled(v, b, c).cb = v.cb
         /\ Filled(v, b, c).buf[b] = c /\ \A x \in Bufs : x # b => Filled(v, b, c).buf[x] = v.buf[x]
<1>. DEFINE u == Filled(v, b, c)
<1>1. v = [buf |-> v.buf, cb |-> v.cb, wait |-> v.wait]
  BY DEF Shaped
<1>2. u = [v EXCEPT !.buf[b] = c]
  BY DEF Filled
<1>. HIDE DEF u
<1>3. u = [buf |-> [v.buf EXCEPT ![b] = c], cb |-> v.cb, wait |-> v.wait]
  BY <1>1, <1>2, WorkEdits, Zenon
<1>4. u.cb = v.cb
  BY <1>3, WorkParts, Zenon
<1>. QED BY <1>4, FilledSays DEF u

LEMMA WaitedQueue ==
  ASSUME NEW v, Shaped(v), NEW d \in {"in", "out"}, NEW q \in Seq(WaitFns)
  PROVE  /\ Shaped(Waited(v, d, q)) /\ Waited(v, d, q).buf = v.buf /\ Waited(v, d, q).cb = v.cb
         /\ Waited(v, d, q).wait = [v.wait EXCEPT ![d] = q]
<1>. DEFINE u == Waited(v, d, q)
<1>1. v = [buf |-> v.buf, cb |-> v.cb, wait |-> v.wait]
  BY DEF Shaped
<1>2. u = [v EXCEPT !.wait[d] = q]
  BY DEF Waited
<1>. HIDE DEF u
<1>3. u = [buf |-> v.buf, cb |-> v.cb, wait |-> [v.wait EXCEPT ![d] = q]]
  BY <1>1, <1>2, WorkEdits, Zenon
<1>4. u.buf = v.buf /\ u.cb = v.cb /\ u.wait = [v.wait EXCEPT ![d] = q]
  BY <1>3, WorkParts, Zenon
<1>. QED BY <1>4, WaitedSays DEF u

LEMMA CalledGoes ==
  ASSUME NEW v, Shaped(v), NEW u, NEW fn \in Fns, NEW p \in Bufs \cup {0}
  PROVE  /\ Seeks(Called(v, fn, p)) <=> Seeks(v) \/ fn = "setPanid"
         /\ Goes(v, u) /\ u.cb \in Seq(Calls) /\ fn \notin Writers => Goes(Called(v, fn, p), u)
<1>. DEFINE w == Called(v, fn, p)
            n1 == Len(v.cb) + 1
<1>1. /\ Shaped(w) /\ w.buf = v.buf /\ w.wait = v.wait
      /\ Len(v.cb) \in Nat /\ DOMAIN v.cb = 1 .. Len(v.cb) /\ Len(w.cb) = n1 /\ DOMAIN w.cb = 1 .. n1
      /\ (\A i \in DOMAIN v.cb : w.cb[i] = v.cb[i]) /\ w.cb[n1].fn = fn /\ w.cb[n1].p = p
  BY CalledQueue
<1>. HIDE DEF w
<1>2. \A i \in DOMAIN w.cb : i \in DOMAIN v.cb \/ i = n1
  BY <1>1
<1>3. n1 \in DOMAIN w.cb /\ \A i \in DOMAIN v.cb : i \in DOMAIN w.cb
  BY <1>1
<1>4. Seeks(w) <=> Seeks(v) \/ fn = "setPanid"
  <2>1. (\E i \in DOMAIN w.cb : w.cb[i].fn = "setPanid") <=> (\E i \in DOMAIN v.cb : v.cb[i].fn = "setPanid") \/ fn = "setPanid"
    BY <1>1, <1>2, <1>3
  <2>. QED BY <1>1, <2>1, Zenon DEF Seeks
<1>5. ASSUME Goes(v, u), u.cb \in Seq(Calls), fn \notin Writers
      PROVE  Goes(w, u)
  <2>1. Len(u.cb) \in Nat /\ DOMAIN u.cb = 1 .. Len(u.cb) /\ Len(u.cb) <= Len(v.cb)
    BY <1>5 DEF Goes
  <2>2. Len(u.cb) <= Len(w.cb) /\ \A i \in DOMAIN u.cb : i \in DOMAIN v.cb
    BY <1>1, <2>1
  <2>3. \A i \in DOMAIN u.cb : w.cb[i] = u.cb[i] /\ (u.cb[i].fn \in Writers => At(w, i) = At(u, i))
    BY <1>1, <1>5, <2>2 DEF Goes, At
  <2>4. \A i \in DOMAIN w.cb : i \notin DOMAIN u.cb => w.cb[i].fn \notin Writers
    BY <1>1, <1>2, <1>5 DEF Goes
  <2>. QED BY <1>1, <2>2, <2>3, <2>4 DEF Goes
<1>. QED BY <1>4, <1>5 DEF w

LEMMA FilledGoes ==
  ASSUME NEW v, Shaped(v), NEW u, NEW b \in Bufs, NEW c
  PROVE  /\ Seeks(Filled(v, b, c)) <=> Seeks(v)
         /\ Goes(v, u) /\ Requests(u) /\ Spare(u, b) => Goes(Filled(v, b, c), u)
<1>. DEFINE w == Filled(v, b, c)
<1>1. Shaped(w) /\ w.wait = v.wait /\ w.cb = v.cb /\ \A x \in Bufs : x # b => w.buf[x] = v.buf[x]
  BY FilledQueue
<1>. HIDE DEF w
<1>2. ASSUME Goes(v, u), Requests(u), Spare(u, b), NEW i \in DOMAIN u.cb, u.cb[i].fn \in Writers
      PROVE  At(w, i) = At(u, i)
  <2>1. u.cb[i].p \in Bufs /\ u.cb[i].p # b /\ v.cb[i] = u.cb[i] /\ At(v, i) = At(u, i)
    BY <1>2 DEF Goes, Requests, Spare
  <2>. QED BY <1>1, <2>1 DEF At
<1>. QED BY <1>1, <1>2 DEF Goes, Seeks, w

LEMMA WaitedGoes ==
  ASSUME NEW v, Shaped(v), NEW u, NEW d \in {"in", "out"}, NEW q \in Seq(WaitFns)
  PROVE  /\ Goes(v, u) => Goes(Waited(v, d, q), u)
         /\ Seeks(Waited(v, d, q)) <=> \/ \E i \in DOMAIN v.cb : v.cb[i].fn = "setPanid"
                                       \/ \E k \in DOMAIN q : q[k] = "setPanid"
                                       \/ \E e \in {"in", "out"} \ {d} : \E k \in DOMAIN v.wait[e] : v.wait[e][k] = "setPanid"
<1>. DEFINE w == Waited(v, d, q)
<1>1. Shaped(w) /\ w.buf = v.buf /\ w.cb = v.cb /\ w.wait = [v.wait EXCEPT ![d] = q]
  BY WaitedQueue
<1>2. w.wait[d] = q /\ \A e \in {"in", "out"} \ {d} : w.wait[e] = v.wait[e]
  <2>1. DOMAIN v.wait = {"in", "out"}
    BY DEF Shaped
  <2>. QED BY <1>1, <2>1
<1>. HIDE DEF w
<1>3. Goes(v, u) => Goes(w, u)
  BY <1>1 DEF Goes, At
<1>4. Seeks(w) <=> \/ \E i \in DOMAIN w.cb : w.cb[i].fn = "setPanid"
                   \/ \E k \in DOMAIN w.wait[d] : w.wait[d][k] = "setPanid"
                   \/ \E e \in {"in", "out"} \ {d} : \E k \in DOMAIN w.wait[e] : w.wait[e][k] = "setPanid"
  BY DEF Seeks
<1>. QED BY <1>1, <1>2, <1>3, <1>4 DEF w

LEMMA FreedGoes ==
  ASSUME NEW v, Shaped(v), NEW u, NEW b \in Bufs
  PROVE  /\ Shaped(Freed(v, b)) /\ (Seeks(Freed(v, b)) <=> Seeks(v))
         /\ Goes(v, u) /\ u.cb \in Seq(Calls) /\ Requests(u) /\ Spare(u, b) => Goes(Freed(v, b), u)
<1>. DEFINE d == Dir(b)
            q == v.wait[d]
<1>1. d \in {"in", "out"} /\ q \in Seq(WaitFns)
  BY DirOf DEF Shaped
<1>2. CASE q = <<>>
  <2>1. Freed(v, b) = Filled(v, b, NoBuf)
    BY <1>2 DEF Freed, Filled
  <2>. QED BY <2>1, FilledGoes, FilledQueue
<1>3. CASE q # <<>>
  <2>. DEFINE x == Filled(v, b, Fresh)
              w == Waited(x, d, Tail(q))
              fn == Head(q)
  <2>1. /\ Shaped(x) /\ x.wait = v.wait /\ x.cb = v.cb
        /\ Goes(v, u) /\ Requests(u) /\ Spare(u, b) => Goes(x, u)
    BY FilledGoes, FilledQueue
  <2>2. fn \in WaitFns /\ Tail(q) \in Seq(WaitFns) /\ fn \in Fns /\ fn \notin Writers
    <3>1. fn \in WaitFns /\ Tail(q) \in Seq(WaitFns)
      BY <1>1, <1>3
    <3>. QED BY <3>1 DEF WaitFns, Fns, Writers
  <2>3. Freed(v, b) = Called([v EXCEPT !.buf[b] = Fresh, !.wait[d] = Tail(q)], fn, b)
    BY <1>3 DEF Freed
  <2>4. [v EXCEPT !.buf[b] = Fresh, !.wait[d] = Tail(q)] = w
    BY DEF Filled, Waited
  <2>a. (\E k \in DOMAIN q : q[k] = "setPanid") <=> fn = "setPanid" \/ \E k \in DOMAIN Tail(q) : Tail(q)[k] = "setPanid"
    <3>1. /\ fn = q[1] /\ 1 \in DOMAIN q /\ \A k \in DOMAIN Tail(q) : k + 1 \in DOMAIN q /\ Tail(q)[k] = q[k + 1]
          /\ \A k \in DOMAIN q : k = 1 \/ (k - 1 \in DOMAIN Tail(q) /\ Tail(q)[k - 1] = q[k])
      BY <1>1, <1>3
    <3>. QED BY <3>1
  <2>b. Seeks(v) <=> \/ \E i \in DOMAIN v.cb : v.cb[i].fn = "setPanid"
                     \/ \E k \in DOMAIN q : q[k] = "setPanid"
                     \/ \E e \in {"in", "out"} \ {d} : \E k \in DOMAIN v.wait[e] : v.wait[e][k] = "setPanid"
    BY <1>1 DEF Seeks
  <2>. HIDE DEF d, q, fn, x, w
  <2>5. /\ Shaped(w) /\ (Goes(x, u) => Goes(w, u))
        /\ Seeks(w) <=> \/ \E i \in DOMAIN v.cb : v.cb[i].fn = "setPanid"
                        \/ \E k \in DOMAIN Tail(q) : Tail(q)[k] = "setPanid"
                        \/ \E e \in {"in", "out"} \ {d} : \E k \in DOMAIN v.wait[e] : v.wait[e][k] = "setPanid"
    <3>1. d \in {"in", "out"} /\ Tail(q) \in Seq(WaitFns) /\ Shaped(x) /\ x.wait = v.wait /\ x.cb = v.cb
      BY <1>1, <2>1, <2>2
    <3>2. Shaped(w)
      BY <3>1, WaitedQueue DEF w
    <3>3. PICK r : r = Tail(q)
      OBVIOUS
    <3>4. /\ Goes(x, u) => Goes(Waited(x, d, r), u)
          /\ Seeks(Waited(x, d, r)) <=>
               \/ \E i \in DOMAIN x.cb : x.cb[i].fn = "setPanid"
               \/ \E k \in DOMAIN r : r[k] = "setPanid"
               \/ \E e \in {"in", "out"} \ {d} : \E k \in DOMAIN x.wait[e] : x.wait[e][k] = "setPanid"
      <4>1. r \in Seq(WaitFns)
        BY <3>1, <3>3
      <4>. QED BY <3>1, <4>1, WaitedGoes
    <3>. QED BY <3>1, <3>2, <3>3, <3>4, Zenon DEF w
  <2>6. b \in Bufs \cup {0}
    OBVIOUS
  <2>7. /\ Shaped(Called(w, fn, b)) /\ (Seeks(Called(w, fn, b)) <=> Seeks(w) \/ fn = "setPanid")
        /\ Goes(w, u) /\ u.cb \in Seq(Calls) => Goes(Called(w, fn, b), u)
    BY <2>2, <2>5, <2>6, CalledQueue, CalledGoes
  <2>. QED BY <2>1, <2>3, <2>4, <2>5, <2>7, <2>a, <2>b
<1>. QED BY <1>2, <1>3

LEMMA AskedGoes ==
  ASSUME NEW v, Shaped(v), NEW u, NEW d \in {"in", "out"}, NEW fn \in WaitFns
  PROVE  /\ Shaped(Asked(v, d, fn)) /\ (Seeks(Asked(v, d, fn)) <=> Seeks(v) \/ fn = "setPanid")
         /\ Goes(v, u) /\ u.cb \in Seq(Calls) /\ Requests(u) => Goes(Asked(v, d, fn), u)
<1>0. v.wait[d] \in Seq(WaitFns) /\ fn \in Fns /\ fn \notin Writers
  BY DEF Shaped, WaitFns, Fns, Writers
<1>1. CASE FreeOf(v, d) = {}
  <2>. DEFINE q == v.wait[d]
              w == Waited(v, d, Append(q, fn))
  <2>1. Asked(v, d, fn) = w
    BY <1>1 DEF Asked, Waited
  <2>2. Append(q, fn) \in Seq(WaitFns)
    BY <1>0
  <2>3. Shaped(w)
    BY <2>2, WaitedQueue
  <2>4. (\E k \in DOMAIN Append(q, fn) : Append(q, fn)[k] = "setPanid") <=> fn = "setPanid" \/ \E k \in DOMAIN q : q[k] = "setPanid"
    <3>1. /\ Len(q) + 1 \in DOMAIN Append(q, fn) /\ Append(q, fn)[Len(q) + 1] = fn
          /\ \A k \in DOMAIN q : k \in DOMAIN Append(q, fn) /\ Append(q, fn)[k] = q[k]
          /\ \A k \in DOMAIN Append(q, fn) : k = Len(q) + 1 \/ k \in DOMAIN q
      BY <1>0
    <3>. QED BY <3>1
  <2>5. Seeks(v) <=> \/ \E i \in DOMAIN v.cb : v.cb[i].fn = "setPanid"
                     \/ \E k \in DOMAIN q : q[k] = "setPanid"
                     \/ \E e \in {"in", "out"} \ {d} : \E k \in DOMAIN v.wait[e] : v.wait[e][k] = "setPanid"
    BY DEF Seeks
  <2>6. /\ Goes(v, u) => Goes(w, u)
        /\ Seeks(w) <=> \/ \E i \in DOMAIN v.cb : v.cb[i].fn = "setPanid"
                        \/ \E k \in DOMAIN Append(q, fn) : Append(q, fn)[k] = "setPanid"
                        \/ \E e \in {"in", "out"} \ {d} : \E k \in DOMAIN v.wait[e] : v.wait[e][k] = "setPanid"
    BY <2>2, WaitedGoes
  <2>. HIDE DEF w, q
  <2>. QED BY <2>1, <2>3, <2>4, <2>5, <2>6
<1>2. CASE FreeOf(v, d) # {}
  <2>. DEFINE b == Min(FreeOf(v, d))
              x == Filled(v, b, Fresh)
  <2>1. b \in Bufs /\ v.buf[b] = NoBuf
    <3>1. FreeOf(v, d) \in SUBSET Nat
      BY BufsTyped DEF FreeOf, Of
    <3>2. b \in FreeOf(v, d)
      BY <3>1, <1>2, MinIn
    <3>. QED BY <3>2 DEF FreeOf, Of
  <2>2. Asked(v, d, fn) = Called(x, fn, b)
    BY <1>2 DEF Asked, Filled
  <2>. HIDE DEF b, x
  <2>3. Goes(v, u) /\ Requests(u) => Spare(u, b)
    <3>1. ASSUME Goes(v, u), Requests(u), NEW i \in DOMAIN u.cb, u.cb[i].fn \in Writers, u.cb[i].p = b
          PROVE  FALSE
      <4>1. At(u, i).kind \in {"set", "start"} /\ At(v, i) = At(u, i) /\ v.cb[i] = u.cb[i]
        BY <3>1 DEF Goes, Requests
      <4>2. At(v, i) = NoBuf
        BY <2>1, <3>1, <4>1 DEF At
      <4>. QED BY <4>1, <4>2 DEF NoBuf
    <3>. QED BY <2>1, <3>1 DEF Spare
  <2>4. Shaped(x) /\ (Seeks(x) <=> Seeks(v)) /\ (Goes(v, u) /\ Requests(u) => Goes(x, u))
    BY <2>1, <2>3, FilledQueue, FilledGoes DEF x
  <2>5. /\ Shaped(Called(x, fn, b)) /\ (Seeks(Called(x, fn, b)) <=> Seeks(x) \/ fn = "setPanid")
        /\ Goes(x, u) /\ u.cb \in Seq(Calls) => Goes(Called(x, fn, b), u)
    BY <1>0, <2>1, <2>4, CalledQueue, CalledGoes
  <2>. QED BY <2>2, <2>4, <2>5
<1>. QED BY <1>1, <1>2

-----------------------------------------------------------------------------
\* What is sound of the work is sound of what goes on from it.

LEMMA GoesSound ==
  ASSUME NEW v, NEW u, Shaped(u), Requests(u), Goes(v, u)
  PROVE  /\ Requests(v)
         /\ \A i, a : Brings(v, i, a) <=> Brings(u, i, a)
         /\ \A i : Starts(v, i) <=> Starts(u, i)
         /\ \A i, a : Brings(u, i, a) \/ Starts(u, i) => At(v, i) = At(u, i)
<1>1. /\ Len(u.cb) \in Nat /\ DOMAIN u.cb = 1 .. Len(u.cb) /\ Len(v.cb) \in Nat /\ DOMAIN v.cb = 1 .. Len(v.cb)
      /\ Len(u.cb) <= Len(v.cb)
  <2>1. u.cb \in Seq(Calls) /\ v.cb \in Seq(Calls)
    BY DEF Shaped, Goes
  <2>. QED BY <2>1 DEF Goes
<1>2. \A i \in DOMAIN u.cb : i \in DOMAIN v.cb /\ v.cb[i] = u.cb[i] /\ (u.cb[i].fn \in Writers => At(v, i) = At(u, i))
  BY <1>1 DEF Goes
<1>3. \A i \in DOMAIN v.cb : v.cb[i].fn \in Writers => i \in DOMAIN u.cb
  BY DEF Goes
<1>4. Requests(v)
  BY <1>2, <1>3 DEF Requests
<1>5. \A i, a : Brings(v, i, a) <=> Brings(u, i, a)
  BY <1>2, <1>3 DEF Brings, Writers
<1>6. \A i : Starts(v, i) <=> Starts(u, i)
  BY <1>2, <1>3 DEF Starts, Writers
<1>7. \A i, a : Brings(u, i, a) \/ Starts(u, i) => At(v, i) = At(u, i)
  BY <1>2 DEF Brings, Starts, Writers
<1>. QED BY <1>4, <1>5, <1>6, <1>7

LEMMA GoesSet ==
  ASSUME NEW v, NEW u, Shaped(u), Requests(u), Goes(v, u), NEW at, NEW s, SetSound(u, at, s)
  PROVE  SetSound(v, at, s)
<1>1. /\ \A i, a : Brings(v, i, a) <=> Brings(u, i, a)
      /\ \A i, a : Brings(u, i, a) => At(v, i) = At(u, i)
  BY GoesSound
<1>. QED BY <1>1 DEF SetSound

LEMMA FollowsPan ==
  ASSUME NEW v, NEW u, Shaped(u), Requests(u), Follows(v, u), NEW at, NEW lg, NEW tm, NEW p, PanSound(u, at, lg, tm, p)
  PROVE  PanSound(v, at, lg, tm, p)
<1>1. /\ \A i : Starts(v, i) <=> Starts(u, i)
      /\ \A i : Starts(u, i) => At(v, i) = At(u, i)
      /\ Pending(v, tm) <=> Pending(u, tm)
  BY GoesSound DEF Follows, Pending
<1>. QED BY <1>1 DEF PanSound

\* The base changes only where the stack writes, and the rest of PanSound not at all.
LEMMA SetStays ==
  ASSUME NEW w, NEW at, NEW s, SetSound(w, at, s), NEW t, \A a \in Attrs \ StackWrites : t[a] = at[a]
  PROVE  SetSound(w, t, s)
BY DEF SetSound

LEMMA PanStays ==
  ASSUME NEW w, NEW at, NEW lg, NEW tm, NEW p, PanSound(w, at, lg, tm, p), NEW t, NEW lh, NEW tn, NEW q,
         t["PanId"] = at["PanId"] \/ "PanId" \in DOMAIN lh.set, DOMAIN lg.set \subseteq DOMAIN lh.set,
         lh.pan = lg.pan, lh.overtaken = lg.overtaken,
         tn.pans = <<>> <=> tm.pans = <<>>, q.new = p.new
  PROVE  PanSound(w, t, lh, tn, q)
<1>1. Pending(w, tn) <=> Pending(w, tm)
  BY DEF Pending
<1>. QED BY <1>1 DEF PanSound

\* The call at the head is taken from the queue.
LEMMA HeadGoes ==
  ASSUME BuffersInv, BaseInv, NEW fn, Runs(fn)
  PROVE  /\ Shaped(W) /\ Requests(W) /\ (P \in Bufs => Spare(W, P))
         /\ \A i, a : Brings(work, i, a) => (i = 1 /\ fn = "setReq") \/ (i - 1 >= 1 /\ Brings(W, i - 1, a))
         /\ \A i : Starts(work, i) => (i = 1 /\ fn = "startReq") \/ (i - 1 >= 1 /\ Starts(W, i - 1))
         /\ \A i, a : Brings(W, i, a) => i \in Nat /\ Brings(work, i + 1, a) /\ At(W, i) = At(work, i + 1)
         /\ \A i : Starts(W, i) => i \in Nat /\ Starts(work, i + 1) /\ At(W, i) = At(work, i + 1)
         /\ Seeks(work) <=> Seeks(W) \/ fn = "setPanid"
         /\ 1 \in DOMAIN work.cb /\ work.cb[1].fn = fn /\ At(work, 1) = F /\ DOMAIN work.cb \subseteq Nat
<1>1. /\ WellMade(W) /\ W.buf = work.buf /\ W.cb = Tail(work.cb) /\ W.wait = work.wait /\ work.cb \in Seq(Calls) /\ work.cb # <<>>
      /\ (P \in Bufs => Calling(W, P) = {}) /\ 1 \in DOMAIN work.cb /\ work.cb[1].fn = fn /\ Head(work.cb) = work.cb[1]
  BY HeadFacts
<1>2. /\ \A i \in DOMAIN W.cb : i \in Nat /\ i >= 1 /\ i + 1 \in DOMAIN work.cb /\ W.cb[i] = work.cb[i + 1]
      /\ \A i \in DOMAIN work.cb : i \in Nat /\ (i = 1 \/ (i - 1 >= 1 /\ i - 1 \in DOMAIN W.cb /\ W.cb[i - 1] = work.cb[i]))
  BY <1>1
<1>3. Shaped(W)
  BY <1>1 DEF WellMade, WorkTyped, Shaped
<1>4. \A i \in DOMAIN W.cb : At(W, i) = At(work, i + 1)
  BY <1>1, <1>2 DEF At
<1>5. \A i \in DOMAIN work.cb : i = 1 \/ At(W, i - 1) = At(work, i)
  BY <1>1, <1>2 DEF At
<1>6. Requests(W)
  BY <1>2, <1>4 DEF Requests, BaseInv
<1>7. P \in Bufs => Spare(W, P)
  BY <1>1 DEF Spare, Calling
<1>8. \A i, a : Brings(work, i, a) => (i = 1 /\ fn = "setReq") \/ (i - 1 >= 1 /\ Brings(W, i - 1, a))
  BY <1>1, <1>2, <1>5 DEF Brings
<1>9. \A i : Starts(work, i) => (i = 1 /\ fn = "startReq") \/ (i - 1 >= 1 /\ Starts(W, i - 1))
  BY <1>1, <1>2 DEF Starts
<1>10. \A i, a : Brings(W, i, a) => i \in Nat /\ Brings(work, i + 1, a) /\ At(W, i) = At(work, i + 1)
  BY <1>2, <1>4 DEF Brings
<1>11. \A i : Starts(W, i) => i \in Nat /\ Starts(work, i + 1) /\ At(W, i) = At(work, i + 1)
  BY <1>2, <1>4 DEF Starts
<1>12. Seeks(work) <=> Seeks(W) \/ fn = "setPanid"
  <2>1. (\E i \in DOMAIN work.cb : work.cb[i].fn = "setPanid") <=> (\E i \in DOMAIN W.cb : W.cb[i].fn = "setPanid") \/ fn = "setPanid"
    BY <1>1, <1>2
  <2>. QED BY <1>1, <2>1, Zenon DEF Seeks
<1>13. At(work, 1) = F
  BY <1>1 DEF At, F, P
<1>. QED BY <1>1, <1>2, <1>3, <1>6, <1>7, <1>8, <1>9, <1>10, <1>11, <1>12, <1>13

LEMMA HeadSet ==
  ASSUME BuffersInv, BaseInv, NEW fn, Runs(fn), fn # "setReq"
  PROVE  SetSound(W, attr, log.set)
<1>1. /\ \A i, a : Brings(work, i, a) => i - 1 >= 1 /\ Brings(W, i - 1, a)
      /\ \A i, a : Brings(W, i, a) => i \in Nat /\ Brings(work, i + 1, a) /\ At(W, i) = At(work, i + 1)
  BY HeadGoes
<1>0. SetSound(work, attr, log.set)
  BY DEF BaseInv
<1>2. ASSUME NEW i, NEW a, Brings(W, i, a)
      PROVE  a \in DOMAIN log.set /\ (At(W, i).value = log.set[a] \/ \E j : j > i /\ Brings(W, j, a))
  <2>1. i \in Nat /\ Brings(work, i + 1, a) /\ At(W, i) = At(work, i + 1)
    BY <1>1, <1>2
  <2>2. a \in DOMAIN log.set /\ (At(work, i + 1).value = log.set[a] \/ \E j : j > i + 1 /\ Brings(work, j, a))
    BY <1>0, <2>1 DEF SetSound
  <2>3. ASSUME NEW j, j > i + 1, Brings(work, j, a)
        PROVE  \E k : k > i /\ Brings(W, k, a)
    <3>1. j \in Nat
      BY <2>3, HeadGoes DEF Brings
    <3>. QED BY <1>1, <2>1, <2>3, <3>1
  <2>. QED BY <2>1, <2>2, <2>3
<1>3. \A a \in DOMAIN log.set \ StackWrites : attr[a] = Kept(a, log.set[a]) \/ \E i : Brings(W, i, a)
  BY <1>0, <1>1 DEF SetSound
<1>4. DOMAIN log.set \subseteq Attrs
  BY <1>0 DEF SetSound
<1>. QED BY <1>2, <1>3, <1>4 DEF SetSound

LEMMA HeadPan ==
  ASSUME BuffersInv, BaseInv, NEW fn, Runs(fn), fn \notin {"startReq", "setPanid"}
  PROVE  PanSound(W, attr, log, timer, pc) /\ (Seeks(W) <=> Seeks(work))
<1>1. /\ \A i : Starts(work, i) => i \in Nat /\ i - 1 >= 1 /\ Starts(W, i - 1)
      /\ \A i : Starts(W, i) => i \in Nat /\ Starts(work, i + 1) /\ At(W, i) = At(work, i + 1)
      /\ Seeks(W) <=> Seeks(work)
  BY HeadGoes DEF Starts
<1>0. PanSound(work, attr, log, timer, pc) /\ (Pending(W, timer) <=> Pending(work, timer))
  BY <1>1 DEF BaseInv, Pending
<1>2. ASSUME ~Pending(W, timer), ~log.overtaken, log.pan # -1, NEW i, Starts(W, i)
      PROVE  At(W, i).req.pan_id = log.pan \/ \E j : j > i /\ Starts(W, j)
  <2>1. i \in Nat /\ Starts(work, i + 1) /\ At(W, i) = At(work, i + 1)
    BY <1>1, <1>2
  <2>2. At(work, i + 1).req.pan_id = log.pan \/ \E j : j > i + 1 /\ Starts(work, j)
    BY <1>0, <1>2, <2>1 DEF PanSound
  <2>3. ASSUME NEW j, j > i + 1, Starts(work, j)
        PROVE  \E k : k > i /\ Starts(W, k)
    <3>1. j \in Nat
      BY <1>1, <2>3
    <3>. QED BY <1>1, <2>1, <2>3, <3>1
  <2>. QED BY <2>1, <2>2, <2>3
<1>3. ASSUME ~Pending(W, timer), ~log.overtaken, log.pan # -1
      PROVE  "PanId" \in DOMAIN log.set \/ attr["PanId"] = log.pan \/ \E i : Starts(W, i)
  BY <1>0, <1>1, <1>3 DEF PanSound
<1>4. Pending(W, timer) /\ ~log.overtaken => pc.new = log.pan
  BY <1>0 DEF PanSound
<1>. QED BY <1>1, <1>2, <1>3, <1>4 DEF PanSound

-----------------------------------------------------------------------------
\* Steps that have nothing to do with the base: no writer runs or comes.

Tame == Fns \ (Writers \cup {"setPanid"})
TameWait == WaitFns \ {"setPanid"}
Starting(u) == u = work \/ (u = W /\ \E fn \in Tame : Runs(fn))
Tamed == \E u : Starting(u) /\ Follows(work', u)
SameBase ==
  /\ log'.set = log.set /\ log'.pan = log.pan /\ log'.overtaken = log.overtaken
  /\ timer'.pans = <<>> <=> timer.pans = <<>>
  /\ pc'.new = pc.new
  /\ \A a \in Attrs : a \notin StackWrites \/ a = "PanId" => attr'[a] = attr[a]

LEMMA StartingSound ==
  ASSUME BuffersInv, BaseInv, NEW u, Starting(u)
  PROVE  /\ Shaped(u) /\ Requests(u) /\ Follows(u, u)
         /\ SetSound(u, attr, log.set) /\ PanSound(u, attr, log, timer, pc) /\ (Seeks(u) <=> Seeks(work))
<1>1. Shaped(u) /\ Requests(u) /\ SetSound(u, attr, log.set) /\ PanSound(u, attr, log, timer, pc) /\ (Seeks(u) <=> Seeks(work))
  <2>1. CASE u = work
    <3>1. Shaped(work)
      BY DEF BuffersInv, WorkInv, WellMade, WorkTyped, Shaped
    <3>. QED BY <2>1, <3>1 DEF BaseInv
  <2>2. CASE u = W /\ \E fn \in Tame : Runs(fn)
    <3>1. PICK fn \in Tame : Runs(fn)
      BY <2>2
    <3>2. fn # "setReq" /\ fn \notin {"startReq", "setPanid"}
      BY DEF Tame, Writers
    <3>. QED BY <2>2, <3>1, <3>2, HeadGoes, HeadSet, HeadPan
  <2>. QED BY <2>1, <2>2 DEF Starting
<1>2. Len(u.cb) <= Len(u.cb)
  <2>1. Len(u.cb) \in Nat
    BY <1>1 DEF Shaped
  <2>. QED BY <2>1
<1>. QED BY <1>1, <1>2 DEF Follows, Goes

LEMMA PlainBase ==
  ASSUME BuffersInv, BaseInv, Tamed, SameBase
  PROVE  BaseInv'
<1>1. PICK u : Starting(u) /\ Follows(work', u)
  BY DEF Tamed
<1>2. Shaped(u) /\ Requests(u) /\ SetSound(u, attr, log.set) /\ PanSound(u, attr, log, timer, pc)
  BY <1>1, StartingSound
<1>3. Requests(work')
  BY <1>1, <1>2, GoesSound DEF Follows
<1>4. SetSound(work', attr', log'.set)
  <2>1. SetSound(work', attr, log.set)
    BY <1>1, <1>2, GoesSet DEF Follows
  <2>2. \A a \in Attrs \ StackWrites : attr'[a] = attr[a]
    BY DEF SameBase
  <2>3. SetSound(work', attr', log.set)
    BY <2>1, <2>2, SetStays
  <2>. QED BY <2>3 DEF SameBase
<1>5. PanSound(work', attr', log', timer', pc')
  <2>1. PanSound(work', attr, log, timer, pc)
    BY <1>1, <1>2, FollowsPan
  <2>2. attr'["PanId"] = attr["PanId"]
    BY DEF SameBase, Attrs, PibAttrs, PibWords
  <2>3. /\ DOMAIN log.set \subseteq DOMAIN log'.set /\ log'.pan = log.pan /\ log'.overtaken = log.overtaken
        /\ timer'.pans = <<>> <=> timer.pans = <<>>
        /\ pc'.new = pc.new
    BY DEF SameBase
  <2>. QED BY <2>1, <2>2, <2>3, PanStays
<1>. QED BY <1>3, <1>4, <1>5 DEF BaseInv

LEMMA FollowCalls ==
  ASSUME NEW u, Shaped(u), NEW v, Follows(v, u), NEW fn \in Tame, NEW p \in Bufs \cup {0}
  PROVE  Follows(Called(v, fn, p), u)
<1>1. Shaped(v) /\ Goes(v, u) /\ u.cb \in Seq(Calls) /\ fn \in Fns /\ fn \notin Writers /\ fn # "setPanid"
  BY DEF Follows, Goes, Shaped, Tame
<1>2. /\ Seeks(Called(v, fn, p)) <=> Seeks(v) \/ fn = "setPanid"
      /\ Goes(v, u) /\ u.cb \in Seq(Calls) /\ fn \notin Writers => Goes(Called(v, fn, p), u)
  BY <1>1, CalledGoes
<1>. QED BY <1>1, <1>2 DEF Follows

LEMMA FollowFills ==
  ASSUME NEW u, Shaped(u), Requests(u), NEW v, Follows(v, u), NEW b, Spare(u, b), NEW c
  PROVE  Follows(Filled(v, b, c), u)
<1>1. Shaped(v) /\ Goes(v, u) /\ b \in Bufs
  BY DEF Follows, Goes, Spare
<1>2. /\ Seeks(Filled(v, b, c)) <=> Seeks(v)
      /\ Goes(v, u) /\ Requests(u) /\ Spare(u, b) => Goes(Filled(v, b, c), u)
  BY <1>1, FilledGoes
<1>. QED BY <1>1, <1>2 DEF Follows

LEMMA FollowFrees ==
  ASSUME NEW u, Shaped(u), Requests(u), NEW v, Follows(v, u), NEW b, Spare(u, b)
  PROVE  Follows(Freed(v, b), u)
<1>1. Shaped(v) /\ Goes(v, u) /\ b \in Bufs /\ u.cb \in Seq(Calls)
  BY DEF Follows, Goes, Spare, Shaped
<1>2. /\ Seeks(Freed(v, b)) <=> Seeks(v)
      /\ Goes(v, u) /\ u.cb \in Seq(Calls) /\ Requests(u) /\ Spare(u, b) => Goes(Freed(v, b), u)
  BY <1>1, FreedGoes
<1>. QED BY <1>1, <1>2 DEF Follows

LEMMA FollowAsks ==
  ASSUME NEW u, Shaped(u), Requests(u), NEW v, Follows(v, u), NEW d \in {"in", "out"}, NEW fn \in TameWait
  PROVE  Follows(Asked(v, d, fn), u)
<1>1. Shaped(v) /\ Goes(v, u) /\ u.cb \in Seq(Calls) /\ fn \in WaitFns /\ fn # "setPanid"
  BY DEF Follows, Goes, Shaped, TameWait
<1>2. /\ Seeks(Asked(v, d, fn)) <=> Seeks(v) \/ fn = "setPanid"
      /\ Goes(v, u) /\ u.cb \in Seq(Calls) /\ Requests(u) => Goes(Asked(v, d, fn), u)
  BY <1>1, AskedGoes
<1>. QED BY <1>1, <1>2 DEF Follows

LEMMA FrameSpare ==
  ASSUME NEW u, Requests(u), NEW b \in Bufs, u.buf[b].kind \notin {"set", "start"}
  PROVE  Spare(u, b)
BY DEF Spare, Requests, At

LEMMA FrameKinds ==
  ASSUME NEW c, IsFrame(c)
  PROVE  c.kind \notin {"set", "start"}
BY DEF IsFrame, Kinds

\* What becomes of a buffer of the step's own.
LEMMA TamedForms ==
  ASSUME BuffersInv, BaseInv, NEW u, Starting(u), NEW b, Spare(u, b)
  PROVE  /\ work' = u => Tamed
         /\ work' = Freed(u, b) => Tamed
         /\ \A fn \in Tame : work' = Called(u, fn, b) => Tamed
         /\ \A fn \in Tame, fm \in TameWait : work' = Asked(Called(u, fn, b), "in", fm) => Tamed
         /\ \A fn \in Tame : \A c : work' = Called(Filled(u, b, c), fn, b) => Tamed
         /\ \A fm \in TameWait : \A c : \A d \in {"in", "out"} : work' = Asked(Filled(u, b, c), d, fm) => Tamed
         /\ \A fn \in Tame, fm \in TameWait : \A c : work' = Asked(Called(Filled(u, b, c), fn, b), "out", fm) => Tamed
<1>1. Shaped(u) /\ Requests(u) /\ Follows(u, u) /\ b \in Bufs \cup {0}
  BY StartingSound DEF Spare
<1>0. \A v : Follows(v, u) /\ work' = v => Tamed
  BY DEF Tamed
<1>2. Follows(Freed(u, b), u)
  BY <1>1, FollowFrees
<1>3. ASSUME NEW fn \in Tame
      PROVE  Follows(Called(u, fn, b), u)
  BY <1>1, FollowCalls
<1>4. ASSUME NEW fn \in Tame, NEW fm \in TameWait
      PROVE  Follows(Asked(Called(u, fn, b), "in", fm), u)
  BY <1>1, <1>3, FollowAsks
<1>5. ASSUME NEW c
      PROVE  Follows(Filled(u, b, c), u)
  BY <1>1, FollowFills
<1>6. ASSUME NEW c, NEW fn \in Tame
      PROVE  Follows(Called(Filled(u, b, c), fn, b), u)
  BY <1>1, <1>5, FollowCalls
<1>7. ASSUME NEW c, NEW fm \in TameWait, NEW d \in {"in", "out"}
      PROVE  Follows(Asked(Filled(u, b, c), d, fm), u)
  BY <1>1, <1>5, FollowAsks
<1>8. ASSUME NEW c, NEW fn \in Tame, NEW fm \in TameWait
      PROVE  Follows(Asked(Called(Filled(u, b, c), fn, b), "out", fm), u)
  BY <1>1, <1>6, FollowAsks
<1>. QED BY <1>0, <1>1, <1>2, <1>3, <1>4, <1>6, <1>7, <1>8

LEMMA RunsTame ==
  ASSUME BuffersInv, BaseInv, NEW fn \in Tame, Runs(fn)
  PROVE  Starting(W) /\ (fn # "brTrans" => Spare(W, P)) /\ (P # 0 => Spare(W, P))
<1>1. P \in Bufs \cup {0} /\ (fn # "brTrans" => P \in Bufs)
  BY HeadFacts
<1>2. P \in Bufs => Spare(W, P)
  BY HeadGoes
<1>. QED BY <1>1, <1>2 DEF Starting

LEMMA FreeTamed ==
  ASSUME BuffersInv, BaseInv,
         \/ \E f \in Foreign \cup Repeated, k \in DOMAIN Nbt : Receive(f, k)
         \/ \E pan \in mix.pans : Beacon(pan)
         \/ \E d \in mix.dsts, r \in mix.radii : AppSend(d, r)
         \/ \E d \in mix.dsts : SendStatus(d)
         \/ \E g \in mix.gets : AppGet(g[1], g[2])
  PROVE  Tamed
<1>1. PICK d, c, fn : /\ FreeOf(work, d) # {} /\ fn \in {"dataInd", "beaconInd", "forward", "getReq"}
                      /\ work' = Called(Filled(work, Min(FreeOf(work, d)), c), fn, Min(FreeOf(work, d)))
  <2>1. CASE \E f \in Foreign \cup Repeated, k \in DOMAIN Nbt : Receive(f, k)
    BY <2>1 DEF Receive
  <2>2. CASE \E pan \in mix.pans : Beacon(pan)
    BY <2>2 DEF Beacon
  <2>3. CASE \E e \in mix.dsts, r \in mix.radii : AppSend(e, r)
    BY <2>3 DEF AppSend
  <2>4. CASE \E e \in mix.dsts : SendStatus(e)
    BY <2>4 DEF SendStatus
  <2>5. CASE \E g \in mix.gets : AppGet(g[1], g[2])
    BY <2>5 DEF AppGet
  <2>. QED BY <2>1, <2>2, <2>3, <2>4, <2>5
<1>2. PICK b : b = Min(FreeOf(work, d))
  OBVIOUS
<1>3. b \in Bufs /\ work.buf[b] = NoBuf /\ work' = Called(Filled(work, b, c), fn, b)
  BY <1>1, <1>2, FreeFacts
<1>4. fn \in Tame
  BY <1>1 DEF Tame, Fns, Writers
<1>5. Starting(work) /\ Spare(work, b)
  BY <1>3, FrameSpare DEF Starting, BaseInv, NoBuf
<1>. QED BY <1>3, <1>4, <1>5, TamedForms

LEMMA SimpleTamed ==
  ASSUME BuffersInv, BaseInv,
         \/ ForwardDirect \/ ForwardBttFull \/ DropIndication
         \/ CallStatusIndication \/ NldeConfirm \/ NldeIndication \/ StatusIndication \/ IndicateStatus \/ IndicateData
         \/ SendStatusInd \/ GetConfirm \/ SetConfirm \/ DoGet \/ DataRequest
  PROVE  Tamed
<1>1. CASE ForwardBttFull \/ DropIndication \/ NldeConfirm \/ NldeIndication \/ StatusIndication \/ GetConfirm \/ SetConfirm
  <2>1. PICK g : Runs(g) /\ g \in Tame \ {"brTrans"} /\ work' = Freed(W, P)
    BY <1>1 DEF ForwardBttFull, DropIndication, NldeConfirm, NldeIndication, StatusIndication, GetConfirm, SetConfirm, Tame, Fns, Writers
  <2>. QED BY <2>1, RunsTame, TamedForms
<1>2. CASE CallStatusIndication \/ IndicateStatus \/ SendStatusInd \/ IndicateData
  <2>1. PICK g, fn : Runs(g) /\ g \in Tame \ {"brTrans"} /\ fn \in Tame /\ work' = Called(W, fn, P)
    BY <1>2 DEF CallStatusIndication, IndicateStatus, SendStatusInd, IndicateData, Tame, Fns, Writers
  <2>. QED BY <2>1, RunsTame, TamedForms
<1>3. CASE ForwardDirect \/ DoGet
  <2>1. PICK g, fn, c : Runs(g) /\ g \in Tame \ {"brTrans"} /\ fn \in Tame /\ work' = Called(Filled(W, P, c), fn, P)
    <3>1. CASE ForwardDirect
      BY <3>1 DEF ForwardDirect, Tame, Fns, Writers
    <3>2. CASE DoGet
      BY <3>2 DEF DoGet, Tame, Fns, Writers
    <3>. QED BY <1>3, <3>1, <3>2
  <2>. QED BY <2>1, RunsTame, TamedForms
<1>4. CASE DataRequest
  <2>1. Runs("dataReq") /\ "dataReq" \in Tame \ {"brTrans"} /\ work' = W
    BY <1>4 DEF DataRequest, Tame, Fns, Writers
  <2>. QED BY <2>1, RunsTame, TamedForms
<1>. QED BY <1>1, <1>2, <1>3, <1>4

LEMMA ConfirmedTamed ==
  ASSUME BuffersInv, BaseInv, DataConfirm \/ CallBrConfirm
  PROVE  Tamed
<1>1. PICK g \in Tame \ {"brTrans"} : Runs(g)
  BY DEF DataConfirm, CallBrConfirm, Tame, Fns, Writers
<1>2. \/ work' = Freed(W, P) \/ work' = Called(W, "statusInd", P) \/ work' = Called(W, "nldeConf", P)
      \/ work' = Asked(Called(W, "nldeConf", P), "in", "callStatus")
  BY DEF DataConfirm, CallBrConfirm, Confirmed
<1>3. {"statusInd", "nldeConf"} \subseteq Tame /\ "callStatus" \in TameWait
  BY DEF Tame, Fns, Writers, TameWait, WaitFns
<1>. QED BY <1>1, <1>2, <1>3, RunsTame, TamedForms

LEMMA ConflictTamed ==
  ASSUME BuffersInv, BaseInv, IndicateReport \/ IndicateUpdate \/ BeaconIndication \/ StartConfirm \/ SendNwkUpdate \/ ForwardBroadcast
  PROVE  Tamed
<1>1. PICK g \in Tame \ {"brTrans"} : Runs(g)
  BY DEF IndicateReport, IndicateUpdate, BeaconIndication, StartConfirm, SendNwkUpdate, ForwardBroadcast, Tame, Fns, Writers
<1>2. /\ "sendUpdate" \in Tame /\ "forward" \in Tame /\ "sendStatus" \in TameWait /\ "brTrans" \in TameWait
      /\ "out" \in {"in", "out"}
  BY DEF Tame, Fns, Writers, TameWait, WaitFns
<1>3. CASE IndicateReport \/ IndicateUpdate \/ BeaconIndication \/ StartConfirm
  <2>1. \/ work' = W \/ work' = Freed(W, P) \/ work' = Called(W, "sendUpdate", P) \/ work' = work
        \/ work' = Asked(Filled(W, P, Lost), "out", "sendStatus")
    <3>1. CASE IndicateReport
      BY <3>1 DEF IndicateReport, Announce
    <3>2. CASE IndicateUpdate
      BY <3>2 DEF IndicateUpdate
    <3>3. CASE BeaconIndication
      BY <3>3 DEF BeaconIndication, Announce
    <3>4. CASE StartConfirm
      BY <3>4 DEF StartConfirm
    <3>. QED BY <1>3, <3>1, <3>2, <3>3, <3>4
  <2>2. CASE work' = work
    <3>1. Starting(work)
      BY DEF Starting
    <3>2. Follows(work', work)
      BY <2>2, <3>1, StartingSound
    <3>. QED BY <3>1, <3>2 DEF Tamed
  <2>. QED BY <1>1, <1>2, <2>1, <2>2, RunsTame, TamedForms
<1>4. CASE SendNwkUpdate
  <2>1. \E c : work' = Asked(Called(Filled(W, P, c), "forward", P), "out", "sendStatus")
    BY <1>4 DEF SendNwkUpdate
  <2>. QED BY <1>1, <1>2, <2>1, RunsTame, TamedForms
<1>5. CASE ForwardBroadcast
  <2>1. work' = Freed(W, P) \/ \E c : work' = Asked(Filled(W, P, c), "out", "brTrans")
    BY <1>5 DEF ForwardBroadcast
  <2>. QED BY <1>1, <1>2, <2>1, RunsTame, TamedForms
<1>. QED BY <1>3, <1>4, <1>5

LEMMA TimeTamed ==
  ASSUME BuffersInv, BaseInv, BrAlarm \/ BtrExpiry \/ Elapse \/ BrNeedsBuffer \/ BrNothing
  PROVE  Tamed
<1>0. /\ Starting(work) /\ "brTrans" \in Tame /\ "brTrans" \in TameWait /\ "out" \in {"in", "out"} /\ 0 \in Bufs \cup {0}
  BY DEF Starting, Tame, Fns, Writers, TameWait, WaitFns
<1>1. CASE BrAlarm
  <2>1. work' = Called(work, "brTrans", 0)
    BY <1>1 DEF BrAlarm
  <2>2. Follows(work', work)
    BY <1>0, <2>1, StartingSound, FollowCalls
  <2>. QED BY <1>0, <2>2 DEF Tamed
<1>2. CASE BtrExpiry \/ Elapse
  <2>1. work' = work
    BY <1>2 DEF BtrExpiry, Elapse
  <2>2. Follows(work', work)
    BY <1>0, <2>1, StartingSound
  <2>. QED BY <1>0, <2>2 DEF Tamed
<1>3. CASE BrNeedsBuffer \/ BrNothing
  <2>1. Runs("brTrans") /\ Starting(W) /\ (P # 0 => Spare(W, P))
    BY <1>0, <1>3, RunsTame DEF BrNeedsBuffer, BrNothing
  <2>2. Shaped(W) /\ Requests(W) /\ Follows(W, W)
    BY <2>1, StartingSound
  <2>3. \/ work' = Asked(W, "out", "brTrans") \/ work' = W \/ (P # 0 /\ work' = Freed(W, P))
    BY <1>3 DEF BrNeedsBuffer, BrNothing
  <2>4. Follows(Asked(W, "out", "brTrans"), W) /\ (P # 0 => Follows(Freed(W, P), W))
    BY <1>0, <2>1, <2>2, FollowAsks, FollowFrees
  <2>. QED BY <2>1, <2>2, <2>3, <2>4 DEF Tamed
<1>. QED BY <1>1, <1>2, <1>3

LEMMA HeldTamed ==
  ASSUME BuffersInv, BaseInv, SendNetworkReport \/ \E b \in Bufs : MacDone(b)
  PROVE  Tamed
<1>0. Starting(work) /\ {"forward", "dataConf"} \subseteq Tame
  BY DEF Starting, Tame, Fns, Writers
<1>1. ASSUME NEW b \in Bufs, Outside(b) # 0
      PROVE  Spare(work, b)
  <2>1. Calling(work, b) = {}
    BY <1>1, OneHolder
  <2>. QED BY <2>1 DEF Spare, Calling
<1>2. CASE SendNetworkReport
  <2>1. PICK b : b = Head(timer.reports).b
    OBVIOUS
  <2>2. b \in Bufs /\ Outside(b) # 0
    <3>1. timer.reports \in Seq([b : Bufs, t : Nat]) /\ timer.reports # <<>>
      BY <1>2, ReportsTyped DEF BuffersInv, SendNetworkReport
    <3>2. 1 \in DOMAIN timer.reports /\ Head(timer.reports) = timer.reports[1]
      BY <3>1, HeadOfSeq, Zenon
    <3>. QED BY <2>1, <3>2, HeldOutside
  <2>3. work' = Freed(work, b) \/ \E c : work' = Called(Filled(work, b, c), "forward", b)
    BY <1>2, <2>1 DEF SendNetworkReport
  <2>. QED BY <1>0, <1>1, <2>2, <2>3, TamedForms
<1>3. ASSUME NEW b \in Bufs, MacDone(b)
      PROVE  Tamed
  <2>1. Outside(b) # 0
    BY <1>3, HeldOutside DEF MacDone
  <2>2. work' = Called(work, "dataConf", b) \/ \E c : work' = Called(Filled(work, b, c), "dataConf", b)
    BY <1>3 DEF MacDone
  <2>. QED BY <1>0, <1>1, <2>1, <2>2, TamedForms
<1>. QED BY <1>2, <1>3

LEMMA TransmitTamed ==
  ASSUME BuffersInv, BaseInv, BrTransmit
  PROVE  Tamed
<1>1. Runs("brTrans") /\ P # 0 /\ Chosen.i # 0
  BY DEF BrTransmit
<1>2. PICK p : p = P
  OBVIOUS
<1>. DEFINE i == Chosen.i
            child == Chosen.child
            e == Served(Skipped[i], child)
            y == e.buf
            mdst == IF child THEN Nbt[brrt[i].it].addr ELSE All
            cnt == IF LastOne(e) THEN brrt_cnt - 1 ELSE brrt_cnt
            c == [work.buf[y] EXCEPT !.mdst = mdst]
            k == [work.buf[y] EXCEPT !.mdst = mdst, !.handle = "internal"]
            last == Called(Filled(Freed(W, P), y, c), "dataReq", y)
            copy == Called(Filled(W, P, k), "dataReq", P)
<1>3. work' = BrAgain(last, cnt) \/ work' = BrAgain(copy, cnt)
  BY DEF BrTransmit
<1>4. y \in Bufs /\ IsFrame(work.buf[y])
  <2>0. i \in Used(brrt) /\ i \in 1 .. BrrSize
    BY <1>1, ChosenFacts DEF BuffersInv
  <2>1. DOMAIN Skipped[i] = BrrFields /\ Skipped[i].buf = brrt[i].buf /\ Skipped[i].due \in Nat
    BY <2>0, SkippedFacts DEF BuffersInv, TablesTyped
  <2>2. y = brrt[i].buf
    BY <2>1, ServedFacts
  <2>. QED BY <2>0, <2>2, HeldOutside DEF BuffersInv, WorkInv, FramesHeld
<1>. HIDE DEF y, cnt, mdst, i, e
<1>. HIDE DEF c, k
<1>5. /\ Starting(W) /\ Spare(W, p) /\ Shaped(W) /\ Requests(W) /\ Follows(W, W)
      /\ "dataReq" \in Tame /\ "brTrans" \in Tame /\ 0 \in Bufs \cup {0} /\ p \in Bufs \cup {0} /\ y \in Bufs \cup {0}
  <2>1. "dataReq" \in Tame /\ "brTrans" \in Tame
    BY DEF Tame, Fns, Writers
  <2>2. Starting(W) /\ Spare(W, p)
    BY <1>1, <1>2, <2>1, RunsTame
  <2>3. Shaped(W) /\ Requests(W) /\ Follows(W, W)
    BY <2>2, StartingSound
  <2>. QED BY <1>4, <2>1, <2>2, <2>3 DEF Spare
<1>6. Spare(W, y)
  <2>1. W.buf = work.buf
    BY <1>1, HeadFacts
  <2>. QED BY <1>4, <1>5, <2>1, FrameSpare, FrameKinds
<1>7. Follows(last, W)
  <2>1. Follows(Freed(W, p), W)
    BY <1>5, FollowFrees
  <2>2. Follows(Filled(Freed(W, p), y, c), W)
    BY <1>5, <1>6, <2>1, FollowFills
  <2>3. Follows(Called(Filled(Freed(W, p), y, c), "dataReq", y), W)
    BY <1>5, <2>2, FollowCalls
  <2>. QED BY <1>2, <2>3
<1>8. Follows(copy, W)
  <2>1. Follows(Filled(W, p, k), W)
    BY <1>5, FollowFills
  <2>2. Follows(Called(Filled(W, p, k), "dataReq", p), W)
    BY <1>5, <2>1, FollowCalls
  <2>. QED BY <1>2, <2>2
<1>. HIDE DEF last, copy
<1>9. Follows(Called(last, "brTrans", 0), W) /\ Follows(Called(copy, "brTrans", 0), W)
  BY <1>5, <1>7, <1>8, FollowCalls
<1>10. Follows(work', W)
  BY <1>3, <1>7, <1>8, <1>9 DEF BrAgain
<1>. QED BY <1>5, <1>10 DEF Tamed

LEMMA ReceivedTamed ==
  ASSUME BuffersInv, BaseInv, BroadcastIndication \/ UnicastIndication
  PROVE  Tamed
<1>1. Runs("dataInd")
  BY DEF BroadcastIndication, UnicastIndication
<1>2. PICK p : p = P
  OBVIOUS
<1>3. {"dataInd", "brConf", "frameInd", "forward"} \subseteq Tame /\ "newBuf" \in TameWait /\ "in" \in {"in", "out"}
  BY DEF Tame, Fns, Writers, TameWait, WaitFns
<1>4. /\ Starting(W) /\ Spare(W, p) /\ p \in Bufs \cup {0} /\ Shaped(W) /\ Requests(W) /\ Follows(W, W)
  <2>1. Starting(W) /\ Spare(W, p)
    BY <1>1, <1>2, <1>3, RunsTame
  <2>. QED BY <2>1, StartingSound DEF Spare
<1>5. ASSUME NEW v, Follows(v, W)
      PROVE  Follows(Freed(v, p), W) /\ Follows(Disposed(F, v), W)
  <2>. DEFINE u == Filled(v, p, [F EXCEPT !.radius = @ - 1])
  <2>1. Follows(u, W)
    BY <1>4, <1>5, FollowFills
  <2>2. Disposed(F, v) \in {Asked(u, "in", "newBuf"), Called(u, "frameInd", p), Called(u, "forward", p), Freed(u, p)}
    BY <1>2 DEF Disposed
  <2>. HIDE DEF u
  <2>3. /\ Follows(Asked(u, "in", "newBuf"), W) /\ Follows(Called(u, "frameInd", p), W)
        /\ Follows(Called(u, "forward", p), W) /\ Follows(Freed(u, p), W)
    BY <1>3, <1>4, <2>1, FollowAsks, FollowCalls, FollowFrees
  <2>4. Follows(Freed(v, p), W)
    BY <1>4, <1>5, FollowFrees
  <2>. QED BY <2>2, <2>3, <2>4
<1>6. CASE UnicastIndication
  <2>1. work' = Disposed(F, W)
    BY <1>6 DEF UnicastIndication
  <2>. QED BY <1>4, <1>5, <2>1 DEF Tamed
<1>7. CASE BroadcastIndication
  <2>1. PICK r : r = PassiveAck(F, W) /\ (work' = Disposed(F, r.w) \/ work' = Freed(r.w, p))
    BY <1>2, <1>7 DEF BroadcastIndication
  <2>2. Follows(r.w, W)
    <3>1. CASE r.w = W
      BY <1>4, <3>1
    <3>2. CASE AckedEnts(F) # {} /\ r.w = Called(W, "brConf", Marked(F).buf)
      <4>1. Marked(F).buf \in Bufs \cup {0}
        <5>1. P \in Bufs /\ IsFrame(F) /\ DOMAIN F = FrameFields
          BY <1>1, HeadFacts DEF FrameFns
        <5>. QED BY <3>2, <5>1, MarkedFacts
      <4>. QED BY <1>3, <1>4, <3>2, <4>1, FollowCalls
    <3>. QED BY <2>1, <3>1, <3>2 DEF PassiveAck
  <2>. QED BY <1>4, <1>5, <2>1, <2>2 DEF Tamed
<1>. QED BY <1>6, <1>7

LEMMA NewBufferTamed ==
  ASSUME BuffersInv, BaseInv, NewBuffer
  PROVE  Tamed
<1>1. Runs("newBuf")
  BY DEF NewBuffer
<1>2. PICK p : p = P
  OBVIOUS
<1>3. {"newBuf", "frameInd", "forward"} \subseteq Tame /\ "newBuf" \in TameWait /\ "in" \in {"in", "out"}
  BY DEF Tame, Fns, Writers, TameWait, WaitFns
<1>4. /\ Starting(W) /\ Spare(W, p) /\ p \in Bufs \cup {0} /\ Shaped(W) /\ Requests(W) /\ Follows(W, W)
  <2>1. Starting(W) /\ Spare(W, p)
    BY <1>1, <1>2, <1>3, RunsTame
  <2>. QED BY <2>1, StartingSound DEF Spare
<1>5. CASE wait_alloc = <<>>
  <2>1. work' = Filled(W, p, Lost)
    BY <1>2, <1>5 DEF NewBuffer
  <2>2. Follows(work', W)
    BY <1>4, <2>1, FollowFills
  <2>. QED BY <1>4, <2>2 DEF Tamed
<1>6. CASE wait_alloc # <<>>
  <2>1. PICK b : b = wait_alloc[Len(wait_alloc)]
    OBVIOUS
  <2>. DEFINE f == [work.buf[b] EXCEPT !.handle = "internal"]
              w == Called(Called(Filled(Filled(W, p, work.buf[b]), b, f), "frameInd", p), "forward", b)
  <2>2. work' = w \/ work' = Asked(w, "in", "newBuf")
    BY <1>2, <1>6, <2>1 DEF NewBuffer
  <2>. HIDE DEF f
  <2>3. b \in Bufs /\ b \in Bufs \cup {0} /\ IsFrame(work.buf[b])
    <3>1. Len(wait_alloc) \in DOMAIN wait_alloc
      BY <1>6 DEF BuffersInv, TablesTyped
    <3>. QED BY <2>1, <3>1, HeldOutside DEF BuffersInv, WorkInv, FramesHeld
  <2>4. Spare(W, b)
    <3>1. W.buf = work.buf
      BY <1>1, HeadFacts
    <3>. QED BY <1>4, <2>3, <3>1, FrameSpare, FrameKinds
  <2>5. Follows(Filled(W, p, work.buf[b]), W)
    BY <1>4, FollowFills
  <2>6. Follows(Filled(Filled(W, p, work.buf[b]), b, f), W)
    BY <1>4, <2>4, <2>5, FollowFills
  <2>7. Follows(Called(Filled(Filled(W, p, work.buf[b]), b, f), "frameInd", p), W)
    BY <1>3, <1>4, <2>6, FollowCalls
  <2>8. Follows(w, W)
    BY <1>3, <1>4, <2>3, <2>7, FollowCalls
  <2>. HIDE DEF w
  <2>9. Follows(Asked(w, "in", "newBuf"), W)
    BY <1>3, <1>4, <2>8, FollowAsks
  <2>. QED BY <1>4, <2>2, <2>8, <2>9 DEF Tamed
<1>. QED BY <1>5, <1>6


-----------------------------------------------------------------------------
\* What each step leaves of the base, the history and the timers.

LogSame == log'.set = log.set /\ log'.pan = log.pan /\ log'.overtaken = log.overtaken
PansSame == timer'.pans = <<>> <=> timer.pans = <<>>
Unmoved(a) == a \notin StackWrites \/ a = "PanId"
AttrSame == \A a \in Attrs : Unmoved(a) => attr'[a] = attr[a]

LEMMA LogsSame ==
  ASSUME BuffersInv, Next, ~Tells, ~Setting
  PROVE  LogSame
<1>0. DOMAIN log = LogFields
  BY DEF BuffersInv, LogTyped
<1>1. CASE log' = log \/ log' = OwnId(log)
  BY <1>0, <1>1 DEF LogSame, OwnId, LogFields
<1>2. CASE DataRequest
  <2>1. PICK tx, life, late, sent : log' = [log EXCEPT !.tx = tx, !.life = life, !.late = late, !.sent = sent]
    BY <1>2 DEF DataRequest
  <2>. QED BY <1>0, <2>1 DEF LogSame, LogFields
<1>3. CASE Elapse \/ \E f \in Foreign \cup Repeated, k \in DOMAIN Nbt : Receive(f, k)
  <2>1. PICK life : log' = [log EXCEPT !.life = life]
    BY <1>3 DEF Elapse, Receive
  <2>. QED BY <1>0, <2>1 DEF LogSame, LogFields
<1>4. ASSUME NEW v, \/ log' = [log EXCEPT !.dropped = v] \/ log' = [log EXCEPT !.started = v] \/ log' = [log EXCEPT !.acked = v]
                    \/ log' = [log EXCEPT !.conf = v] \/ log' = [log EXCEPT !.ind = v]
      PROVE  LogSame
  BY <1>0, <1>4 DEF LogSame, LogFields
<1>. QED BY <1>1, <1>2, <1>3, <1>4, LogActions

LEMMA PansEdits ==
  ASSUME NEW t \in TimerTypes, NEW x
  PROVE  /\ [t EXCEPT !.br = x].pans = t.pans /\ [t EXCEPT !.exp = x].pans = t.pans /\ [t EXCEPT !.reports = x].pans = t.pans
         /\ [t EXCEPT !.pans = x].pans = x
         /\ \A cnt : StartExpiry(t, cnt).pans = t.pans /\ [StartExpiry(t, cnt) EXCEPT !.br = x].pans = t.pans
BY DEF TimerTypes, StartExpiry

LEMMA TimersSame ==
  ASSUME BuffersInv, Next, ~Tells, ~SetPanidAlarm
  PROVE  PansSame
<1>0. timer \in TimerTypes
  BY TimerFits
<1>1. CASE timer' = timer
  BY <1>1 DEF PansSame
<1>2. CASE ForwardDirect \/ BroadcastIndication \/ ForwardBroadcast
  <2>1. PICK cnt, x : timer' \in {timer, [timer EXCEPT !.br = x], StartExpiry(timer, cnt), [StartExpiry(timer, cnt) EXCEPT !.br = x]}
    <3>1. CASE ForwardDirect
      BY <3>1 DEF ForwardDirect
    <3>2. CASE BroadcastIndication
      BY <3>2 DEF BroadcastIndication
    <3>3. CASE ForwardBroadcast
      BY <3>3 DEF ForwardBroadcast
    <3>. QED BY <1>2, <3>1, <3>2, <3>3
  <2>2. /\ [timer EXCEPT !.br = x].pans = timer.pans /\ StartExpiry(timer, cnt).pans = timer.pans
        /\ [StartExpiry(timer, cnt) EXCEPT !.br = x].pans = timer.pans
    BY <1>0, PansEdits, Zenon
  <2>3. timer'.pans = timer.pans
    BY <2>1, <2>2, Zenon
  <2>. QED BY <2>3 DEF PansSame
<1>3. CASE BrNothing \/ BrAlarm \/ BtrExpiry \/ SendNetworkReport
  <2>1. PICK x : timer' \in {timer, [timer EXCEPT !.br = x], [timer EXCEPT !.exp = x], [timer EXCEPT !.reports = x]}
    <3>1. CASE BrNothing
      BY <3>1 DEF BrNothing
    <3>2. CASE BrAlarm
      BY <3>2 DEF BrAlarm
    <3>3. CASE BtrExpiry
      BY <3>3 DEF BtrExpiry
    <3>4. CASE SendNetworkReport
      BY <3>4 DEF SendNetworkReport
    <3>. QED BY <1>3, <3>1, <3>2, <3>3, <3>4
  <2>2. /\ [timer EXCEPT !.br = x].pans = timer.pans /\ [timer EXCEPT !.exp = x].pans = timer.pans
        /\ [timer EXCEPT !.reports = x].pans = timer.pans
    BY <1>0, PansEdits, Zenon
  <2>3. timer'.pans = timer.pans
    BY <2>1, <2>2, Zenon
  <2>. QED BY <2>3 DEF PansSame
<1>4. CASE Elapse
  <2>1. PICK br, exp, d, reports :
          timer' = [br |-> br, exp |-> exp, pans |-> [i \in DOMAIN timer.pans |-> timer.pans[i] - d], reports |-> reports]
    BY <1>4 DEF Elapse
  <2>2. timer'.pans = [i \in DOMAIN timer.pans |-> timer.pans[i] - d]
    BY <2>1
  <2>3. timer.pans \in Seq(Nat)
    BY TimerFits
  <2>4. \A q : q = <<>> <=> q = [i \in {} |-> 0]
    OBVIOUS
  <2>5. ASSUME timer.pans # <<>>
        PROVE  timer'.pans # <<>>
    <3>1. 1 \in DOMAIN timer.pans
      BY <2>3, <2>5
    <3>2. 1 \in DOMAIN timer'.pans
      BY <2>2, <3>1
    <3>. QED BY <3>2
  <2>6. ASSUME timer.pans = <<>>
        PROVE  timer'.pans = <<>>
    BY <2>2, <2>6
  <2>. QED BY <2>5, <2>6 DEF PansSame
<1>. QED BY <1>1, <1>2, <1>3, <1>4, TimerActions DEF Tells, Alarm

LEMMA IdStays ==
  ASSUME BuffersInv, Next, ~Tells
  PROVE  pc'.new = pc.new
<1>0. DOMAIN pc = {"conflict", "state", "new", "known"}
  BY DEF BuffersInv, BaseTyped
<1>1. CASE pc' = pc
  BY <1>1
<1>2. CASE SendStatusInd \/ DoSetPanid \/ StartConfirm
  <2>1. pc' = pc \/ pc' = ConflictOver(pc) \/ pc' = SetPanid(pc) \/ pc' = [pc EXCEPT !.state = "idle"]
    BY <1>2 DEF SendStatusInd, DoSetPanid, StartConfirm
  <2>. QED BY <1>0, <2>1 DEF ConflictOver, SetPanid
<1>3. CASE SendNetworkReport \/ SendNwkUpdate \/ StartRequest \/ DoSet
  BY <1>3 DEF SendNetworkReport, SendNwkUpdate, StartRequest, DoSet
<1>. QED BY <1>1, <1>2, <1>3, BaseActions DEF Tells

LEMMA AttrsSame ==
  ASSUME BuffersInv, Next, ~StartRequest, ~DoSet
  PROVE  AttrSame
<1>0. DOMAIN attr = Attrs
  BY DEF BuffersInv, BaseTyped
<1>1. ~Unmoved("SequenceNumber") /\ ~Unmoved("BeaconPayload") /\ ~Unmoved("BeaconPayloadLength") /\ ~Unmoved("UpdateId")
  BY DEF Unmoved, StackWrites
<1>2. CASE attr' = attr \/ attr' = NextSeq(attr)
  BY <1>0, <1>1, <1>2 DEF AttrSame, NextSeq
<1>3. CASE Tells
  <2>1. \/ attr' = attr \/ attr' = BeaconPayloadUpdated(attr)
        \/ \E x : attr' = BeaconPayloadUpdated([attr EXCEPT !["UpdateId"] = x])
    <3>1. CASE IndicateReport
      BY <3>1 DEF IndicateReport, Announce, base
    <3>2. CASE IndicateUpdate
      BY <3>2 DEF IndicateUpdate, UpdateReceived, base
    <3>3. CASE BeaconIndication
      BY <3>3 DEF BeaconIndication, Announce, base
    <3>. QED BY <1>3, <3>1, <3>2, <3>3 DEF Tells
  <2>2. ASSUME NEW at, DOMAIN at = Attrs, NEW a \in Attrs, Unmoved(a)
        PROVE  BeaconPayloadUpdated(at)[a] = at[a]
    BY <1>1, <2>2 DEF BeaconPayloadUpdated
  <2>3. ASSUME NEW x, NEW at, at = [attr EXCEPT !["UpdateId"] = x]
        PROVE  DOMAIN at = Attrs /\ \A a \in Attrs : Unmoved(a) => at[a] = attr[a]
    BY <1>0, <1>1, <2>3
  <2>4. ASSUME NEW a \in Attrs, Unmoved(a)
        PROVE  attr'[a] = attr[a]
    <3>1. CASE attr' = attr \/ attr' = BeaconPayloadUpdated(attr)
      BY <1>0, <2>2, <2>4, <3>1
    <3>2. ASSUME NEW x, attr' = BeaconPayloadUpdated([attr EXCEPT !["UpdateId"] = x])
          PROVE  attr'[a] = attr[a]
      <4>1. PICK at : at = [attr EXCEPT !["UpdateId"] = x]
        OBVIOUS
      <4>2. DOMAIN at = Attrs /\ at[a] = attr[a]
        BY <2>3, <2>4, <4>1
      <4>. QED BY <2>2, <2>4, <3>2, <4>1, <4>2
    <3>. QED BY <2>1, <3>1, <3>2
  <2>. QED BY <2>4 DEF AttrSame
<1>4. CASE SendNetworkReport \/ SendNwkUpdate \/ SendStatusInd \/ DoSetPanid \/ StartConfirm
  <2>1. attr' = attr \/ attr' = NextSeq(attr)
    BY <1>4 DEF SendNetworkReport, SendNwkUpdate, SendStatusInd, DoSetPanid, StartConfirm
  <2>. QED BY <1>2, <2>1
<1>. QED BY <1>2, <1>3, <1>4, BaseActions DEF Tells

LEMMA SameAll ==
  ASSUME LogSame, PansSame, pc'.new = pc.new, AttrSame
  PROVE  SameBase
BY DEF SameBase, LogSame, PansSame, AttrSame, Unmoved

-----------------------------------------------------------------------------
\* The steps of the resolution.

LEMMA TamedSound ==
  ASSUME BuffersInv, BaseInv, Tamed, AttrSame, log'.set = log.set
  PROVE  Requests(work') /\ SetSound(work', attr', log'.set) /\ PanSound(work', attr, log, timer, pc) /\ (Seeks(work') <=> Seeks(work))
<1>1. PICK u : Starting(u) /\ Follows(work', u)
  BY DEF Tamed
<1>2. /\ Shaped(u) /\ Requests(u) /\ SetSound(u, attr, log.set) /\ PanSound(u, attr, log, timer, pc)
      /\ Seeks(u) <=> Seeks(work)
  BY <1>1, StartingSound
<1>3. Requests(work') /\ SetSound(work', attr, log.set)
  BY <1>1, <1>2, GoesSound, GoesSet DEF Follows
<1>4. \A a \in Attrs \ StackWrites : attr'[a] = attr[a]
  BY DEF AttrSame, Unmoved
<1>5. SetSound(work', attr', log.set)
  BY <1>3, <1>4, SetStays
<1>6. PanSound(work', attr, log, timer, pc)
  BY <1>1, <1>2, FollowsPan
<1>7. Seeks(work') <=> Seeks(work)
  BY <1>1, <1>2 DEF Follows
<1>. QED BY <1>3, <1>5, <1>6, <1>7

LEMMA PanPends == ASSUME BuffersInv PROVE PanPending <=> Pending(work, timer)
BY DEF PanPending, Pending, Seeks, Queued, WaitsFor, Range

\* What the steps that tell of a conflict make of the id, the timers and the history.
LEMMA TellsForms ==
  ASSUME BuffersInv, Tells
  PROVE  \/ log' = log /\ timer' = timer /\ pc'.new = pc.new
         \/ \E id : /\ pc'.new = id /\ timer' = [timer EXCEPT !.pans = Append(@, PanDelay)]
                    /\ log' = [log EXCEPT !.pan = id, !.overtaken = FALSE]
         \/ log' = [log EXCEPT !.overtaken = @ \/ PanPending] /\ \E r : timer' = [timer EXCEPT !.reports = r]
<1>0. DOMAIN pc = {"conflict", "state", "new", "known"}
  BY DEF BuffersInv, BaseTyped
<1>1. \A h, id : DOMAIN h = DOMAIN pc => NetworkUpdate(h, id).new = id
  BY <1>0 DEF NetworkUpdate
<1>2. /\ \A ids : DOMAIN Reported(pc, ids) = DOMAIN pc
      /\ DOMAIN ConflictAtManager(pc) = DOMAIN pc
      /\ \A id : pc.conflict => ScheduleReport(pc, id).new = pc.new
  BY <1>0 DEF Reported, ConflictAtManager, ScheduleReport
<1>3. ASSUME NEW b, NEW h, Announce(b, h), DOMAIN h = DOMAIN pc
      PROVE  \E id : /\ pc'.new = id /\ timer' = [timer EXCEPT !.pans = Append(@, PanDelay)]
                     /\ log' = [log EXCEPT !.pan = id, !.overtaken = FALSE]
  <2>1. PICK id : /\ pc' = NetworkUpdate(h, id) /\ timer' = [timer EXCEPT !.pans = Append(@, PanDelay)]
                  /\ log' = [log EXCEPT !.pan = id, !.overtaken = FALSE]
    BY <1>3 DEF Announce
  <2>2. pc'.new = id
    BY <1>1, <1>3, <2>1
  <2>. QED BY <2>1, <2>2
<1>4. CASE IndicateReport
  <2>1. \/ log' = log /\ timer' = timer /\ pc' = pc
        \/ Announce(P, Reported(pc, F.pl.ids))
    BY <1>4 DEF IndicateReport, base
  <2>. QED BY <1>2, <1>3, <2>1
<1>5. CASE IndicateUpdate
  <2>1. \/ log' = log /\ timer' = timer /\ pc' = pc
        \/ /\ pc' = NetworkUpdate(pc, F.pl.pan) /\ timer' = [timer EXCEPT !.pans = Append(@, PanDelay)]
           /\ log' = [log EXCEPT !.pan = F.pl.pan, !.overtaken = FALSE]
    BY <1>5 DEF IndicateUpdate, base
  <2>. QED BY <1>1, <2>1
<1>6. CASE BeaconIndication
  <2>1. \/ log' = log /\ timer' = timer /\ pc' = pc
        \/ Announce(P, ConflictAtManager(pc))
        \/ log' = log /\ timer' = timer /\ pc.conflict /\ pc' = ScheduleReport(pc, F.pan)
        \/ log' = [log EXCEPT !.overtaken = @ \/ PanPending] /\ \E r : timer' = [timer EXCEPT !.reports = r]
    BY <1>6 DEF BeaconIndication, base
  <2>2. CASE Announce(P, ConflictAtManager(pc))
    BY <1>2, <1>3, <2>2
  <2>3. CASE log' = log /\ timer' = timer /\ pc.conflict /\ pc' = ScheduleReport(pc, F.pan)
    BY <1>2, <2>3
  <2>. QED BY <2>1, <2>2, <2>3
<1>. QED BY <1>4, <1>5, <1>6 DEF Tells

(* A conflict told of, or an id announced; a new conflict clears the id,   *)
(* and what was pending is overtaken.                                      *)
LEMMA TellsBase ==
  ASSUME BuffersInv, BaseInv, Tells, AttrSame
  PROVE  BaseInv'
<1>0. /\ Tamed /\ DOMAIN log = LogFields /\ timer \in TimerTypes /\ timer.pans \in Seq(Nat)
  BY ConflictTamed, TimerFits DEF Tells, BuffersInv, LogTyped
<1>1. CASE log' = log /\ timer' = timer /\ pc'.new = pc.new
  <2>1. LogSame /\ PansSame
    BY <1>1 DEF LogSame, PansSame
  <2>. QED BY <1>0, <1>1, <2>1, SameAll, PlainBase
<1>2. ASSUME NEW id, pc'.new = id, timer' = [timer EXCEPT !.pans = Append(@, PanDelay)],
             log' = [log EXCEPT !.pan = id, !.overtaken = FALSE]
      PROVE  BaseInv'
  <2>1. log'.set = log.set /\ log'.pan = id
    BY <1>0, <1>2 DEF LogFields
  <2>2. timer'.pans # <<>>
    <3>1. timer'.pans = Append(timer.pans, PanDelay)
      BY <1>0, <1>2, PansEdits, Zenon
    <3>. QED BY <1>0, <3>1
  <2>3. Pending(work', timer')
    BY <2>2 DEF Pending
  <2>4. PanSound(work', attr', log', timer', pc')
    BY <1>2, <2>1, <2>3 DEF PanSound
  <2>. QED BY <1>0, <2>1, <2>4, TamedSound DEF BaseInv
<1>3. ASSUME log' = [log EXCEPT !.overtaken = @ \/ PanPending], NEW r, timer' = [timer EXCEPT !.reports = r]
      PROVE  BaseInv'
  <2>1. log'.set = log.set /\ log'.pan = log.pan /\ log'.overtaken = (log.overtaken \/ PanPending)
    BY <1>0, <1>3 DEF LogFields
  <2>2. timer'.pans = timer.pans
    BY <1>0, <1>3, PansEdits, Zenon
  <2>3. Requests(work') /\ SetSound(work', attr', log'.set) /\ PanSound(work', attr, log, timer, pc) /\ (Seeks(work') <=> Seeks(work))
    BY <1>0, <2>1, TamedSound
  <2>4. (Pending(work', timer') <=> Pending(work, timer)) /\ (Pending(work', timer) <=> Pending(work, timer))
    BY <2>2, <2>3 DEF Pending
  <2>5. attr'["PanId"] = attr["PanId"]
    BY DEF AttrSame, Unmoved, Attrs, PibAttrs, PibWords
  <2>6. CASE Pending(work, timer)
    <3>1. log'.overtaken /\ Pending(work', timer')
      BY <2>1, <2>4, <2>6, PanPends
    <3>. QED BY <2>3, <3>1 DEF PanSound, BaseInv
  <2>7. CASE ~Pending(work, timer)
    <3>1. ~log'.overtaken => ~log.overtaken
      BY <2>1
    <3>2. PanSound(work', attr', log', timer', pc')
      BY <2>1, <2>3, <2>4, <2>5, <2>7, <3>1 DEF PanSound
    <3>. QED BY <2>3, <3>2 DEF BaseInv
  <2>. QED BY <2>6, <2>7
<1>. QED BY <1>1, <1>2, <1>3, TellsForms

(* The delay of the change is over.                                        *)
LEMMA AlarmBase ==
  ASSUME BuffersInv, BaseInv, SetPanidAlarm
  PROVE  BaseInv'
<1>0. /\ Starting(work) /\ work' = Asked(work, "out", "setPanid") /\ attr' = attr /\ pc' = pc /\ log' = log /\ timer.pans # <<>>
      /\ "setPanid" \in WaitFns /\ "out" \in {"in", "out"}
  BY DEF SetPanidAlarm, Starting, WaitFns, base
<1>1. Shaped(work) /\ Requests(work) /\ Goes(work, work) /\ work.cb \in Seq(Calls)
  BY <1>0, StartingSound DEF Follows, Shaped
<1>2. Goes(work', work) /\ Seeks(work')
  BY <1>0, <1>1, AskedGoes
<1>3. Requests(work') /\ SetSound(work', attr', log'.set)
  BY <1>0, <1>1, <1>2, GoesSound, GoesSet DEF BaseInv
<1>4. Pending(work, timer) /\ Pending(work', timer')
  BY <1>0, <1>2 DEF Pending
<1>5. PanSound(work', attr', log', timer', pc')
  BY <1>0, <1>4 DEF PanSound, BaseInv
<1>. QED BY <1>3, <1>5 DEF BaseInv

\* A call that ends the queue.
LEMMA NewCall ==
  ASSUME NEW v, Shaped(v), NEW u, Shaped(u), Requests(u), Goes(v, u), v.cb = u.cb, NEW fn \in Fns, NEW p \in Bufs,
         fn \in Writers => v.buf[p].kind \in {"set", "start"}
  PROVE  LET w == Called(v, fn, p)
             n1 == Len(u.cb) + 1
         IN /\ n1 \in Nat /\ Requests(w)
            /\ \A i, a : Brings(w, i, a) => Brings(u, i, a) \/ i = n1
            /\ \A i : Starts(w, i) => Starts(u, i) \/ i = n1
            /\ \A i, a : Brings(u, i, a) => i \in Nat /\ i < n1 /\ Brings(w, i, a) /\ At(w, i) = At(u, i)
            /\ \A i : Starts(u, i) => i \in Nat /\ i < n1 /\ Starts(w, i) /\ At(w, i) = At(u, i)
            /\ n1 \in DOMAIN w.cb /\ w.cb[n1].fn = fn /\ At(w, n1) = v.buf[p]
<1>. DEFINE w == Called(v, fn, p)
            n1 == Len(u.cb) + 1
<1>1. /\ Shaped(w) /\ w.buf = v.buf /\ Len(v.cb) \in Nat /\ DOMAIN v.cb = 1 .. Len(v.cb) /\ DOMAIN w.cb = 1 .. n1
      /\ (\A i \in DOMAIN v.cb : w.cb[i] = v.cb[i]) /\ w.cb[n1].fn = fn /\ w.cb[n1].p = p
  <2>1. p \in Bufs \cup {0}
    OBVIOUS
  <2>. QED BY <2>1, CalledQueue
<1>2. \A i \in DOMAIN u.cb : u.cb[i].fn \in Writers => At(v, i) = At(u, i)
  BY DEF Goes
<1>. HIDE DEF w
<1>3. n1 \in Nat /\ n1 \in DOMAIN w.cb /\ At(w, n1) = v.buf[p] /\ DOMAIN u.cb = 1 .. Len(u.cb) /\ Len(u.cb) \in Nat
  BY <1>1 DEF At
<1>4. \A i \in DOMAIN w.cb : i \in DOMAIN u.cb \/ i = n1
  BY <1>1, <1>3
<1>5. \A i \in DOMAIN u.cb : i \in Nat /\ i < n1 /\ i \in DOMAIN w.cb /\ w.cb[i] = u.cb[i] /\ (u.cb[i].fn \in Writers => At(w, i) = At(u, i))
  <2>1. \A i \in DOMAIN u.cb : At(w, i) = At(v, i)
    BY <1>1 DEF At
  <2>. QED BY <1>1, <1>2, <1>3, <2>1
<1>6. Requests(w)
  BY <1>1, <1>3, <1>4, <1>5 DEF Requests
<1>7. \A i, a : Brings(w, i, a) => Brings(u, i, a) \/ i = n1
  BY <1>4, <1>5 DEF Brings, Writers
<1>8. \A i : Starts(w, i) => Starts(u, i) \/ i = n1
  BY <1>4, <1>5 DEF Starts
<1>9. \A i, a : Brings(u, i, a) => i \in Nat /\ i < n1 /\ Brings(w, i, a) /\ At(w, i) = At(u, i)
  BY <1>5 DEF Brings, Writers
<1>10. \A i : Starts(u, i) => i \in Nat /\ i < n1 /\ Starts(w, i) /\ At(w, i) = At(u, i)
  BY <1>5 DEF Starts, Writers
<1>. QED BY <1>1, <1>3, <1>6, <1>7, <1>8, <1>9, <1>10 DEF w

LEMMA StartBase ==
  ASSUME BuffersInv, BaseInv, DoSetPanid
  PROVE  BaseInv'
<1>. DEFINE c == [kind |-> "start", req |-> StartReq(pc)]
            x == Filled(W, P, c)
<1>0. /\ Runs("setPanid") /\ work' = Called(x, "startReq", P) /\ attr' = attr /\ timer' = timer /\ log' = log /\ pc' = SetPanid(pc)
      /\ "startReq" \in Fns /\ "startReq" # "setReq" /\ DOMAIN pc = {"conflict", "state", "new", "known"}
  BY DEF DoSetPanid, Fns, BuffersInv, BaseTyped
<1>1. P \in Bufs /\ pc'.new = pc.new /\ c.kind = "start" /\ c.req.pan_id = pc.new
  BY <1>0, HeadFacts DEF SetPanid, StartReq
<1>2. Shaped(W) /\ Requests(W) /\ Spare(W, P) /\ Seeks(work) /\ SetSound(W, attr, log.set)
  BY <1>0, <1>1, HeadGoes, HeadSet
<1>3. Goes(W, W)
  <2>1. Len(W.cb) \in Nat
    BY <1>2 DEF Shaped
  <2>. QED BY <1>2, <2>1 DEF Goes
<1>. HIDE DEF c
<1>4. Shaped(x) /\ x.cb = W.cb /\ x.buf[P] = c /\ Goes(x, W)
  BY <1>1, <1>2, <1>3, FilledQueue, FilledGoes
<1>. HIDE DEF x
<1>. DEFINE n1 == Len(W.cb) + 1
<1>5. /\ n1 \in Nat /\ Requests(work')
      /\ \A i, a : Brings(work', i, a) => Brings(W, i, a) \/ i = n1
      /\ \A i : Starts(work', i) => Starts(W, i) \/ i = n1
      /\ \A i, a : Brings(W, i, a) => i \in Nat /\ i < n1 /\ Brings(work', i, a) /\ At(work', i) = At(W, i)
      /\ \A i : Starts(W, i) => i \in Nat /\ i < n1 /\ Starts(work', i) /\ At(work', i) = At(W, i)
      /\ n1 \in DOMAIN work'.cb /\ work'.cb[n1].fn = "startReq" /\ At(work', n1) = c
  BY <1>0, <1>1, <1>2, <1>4, NewCall
<1>. HIDE DEF n1
<1>6. (\A a : ~Brings(work', n1, a)) /\ Starts(work', n1)
  BY <1>5 DEF Brings, Starts
<1>7. SetSound(work', attr', log'.set)
  BY <1>0, <1>2, <1>5, <1>6 DEF SetSound
<1>8. ~log.overtaken => pc.new = log.pan
  BY <1>2 DEF BaseInv, PanSound, Pending
<1>9. PanSound(work', attr', log', timer', pc')
  <2>1. ~log.overtaken => \A i : Starts(work', i) => At(work', i).req.pan_id = log.pan \/ \E j : j > i /\ Starts(work', j)
    BY <1>1, <1>5, <1>6, <1>8
  <2>. QED BY <1>0, <1>1, <1>6, <1>8, <2>1 DEF PanSound
<1>. QED BY <1>5, <1>7, <1>9 DEF BaseInv

LEMMA StartedBase ==
  ASSUME BuffersInv, BaseInv, StartRequest
  PROVE  BaseInv'
<1>0. /\ Runs("startReq") /\ work' = Called(W, "startConf", P) /\ attr' = PibUpdated(attr, F.req)
      /\ timer' = timer /\ log' = log /\ pc' = pc /\ DOMAIN attr = Attrs /\ "startConf" \in Tame
  BY DEF StartRequest, Tame, Fns, Writers, BuffersInv, BaseTyped
<1>1. P \in Bufs
  BY <1>0, HeadFacts
<1>2. /\ Shaped(W) /\ Requests(W) /\ (Seeks(W) <=> Seeks(work)) /\ SetSound(W, attr, log.set)
      /\ Starts(work, 1) /\ At(work, 1) = F
      /\ \A i : Starts(work, i) => i \in Nat /\ (i = 1 \/ (i - 1 >= 1 /\ Starts(W, i - 1)))
      /\ \A i : Starts(W, i) => i \in Nat /\ Starts(work, i + 1) /\ At(W, i) = At(work, i + 1)
  BY <1>0, HeadGoes, HeadSet DEF Starts
<1>3. Follows(W, W)
  <2>1. Len(W.cb) \in Nat
    BY <1>2 DEF Shaped
  <2>. QED BY <1>2, <2>1 DEF Follows, Goes
<1>4. Follows(work', W)
  BY <1>0, <1>1, <1>2, <1>3, FollowCalls
<1>5. (\A a \in Attrs \ StackWrites : attr'[a] = attr[a]) /\ attr'["PanId"] = F.req.pan_id
  BY <1>0 DEF PibUpdated, StackWrites, Attrs, PibAttrs, PibWords
<1>6. Requests(work') /\ SetSound(work', attr', log'.set)
  BY <1>0, <1>2, <1>4, <1>5, SetStays, GoesSound, GoesSet DEF Follows
<1>7. PanSound(W, attr', log, timer, pc)
  <2>1. /\ Pending(work, timer) /\ ~log.overtaken => pc.new = log.pan
        /\ ~Pending(work, timer) /\ ~log.overtaken /\ log.pan # -1 =>
             \A i : Starts(work, i) => At(work, i).req.pan_id = log.pan \/ \E j : j > i /\ Starts(work, j)
    BY DEF BaseInv, PanSound
  <2>2. Pending(W, timer) <=> Pending(work, timer)
    BY <1>2 DEF Pending
  <2>3. ASSUME ~Pending(W, timer), ~log.overtaken, log.pan # -1, NEW i, Starts(W, i)
        PROVE  At(W, i).req.pan_id = log.pan \/ \E j : j > i /\ Starts(W, j)
    <3>1. i \in Nat /\ Starts(work, i + 1) /\ At(W, i) = At(work, i + 1)
      BY <1>2, <2>3
    <3>2. At(work, i + 1).req.pan_id = log.pan \/ \E j : j > i + 1 /\ Starts(work, j)
      BY <2>1, <2>2, <2>3, <3>1
    <3>3. ASSUME NEW j, j > i + 1, Starts(work, j)
          PROVE  \E k : k > i /\ Starts(W, k)
      <4>1. j \in Nat /\ j # 1
        BY <1>2, <3>1, <3>3
      <4>. QED BY <1>2, <3>1, <3>3, <4>1
    <3>. QED BY <3>1, <3>2, <3>3
  <2>4. ASSUME ~Pending(W, timer), ~log.overtaken, log.pan # -1
        PROVE  attr'["PanId"] = log.pan \/ \E i : Starts(W, i)
    <3>1. F.req.pan_id = log.pan \/ \E j : j > 1 /\ Starts(work, j)
      BY <1>2, <2>1, <2>2, <2>4
    <3>. QED BY <1>2, <1>5, <3>1
  <2>. QED BY <2>1, <2>2, <2>3, <2>4 DEF PanSound
<1>8. PanSound(work', attr', log', timer', pc')
  BY <1>0, <1>2, <1>4, <1>7, FollowsPan
<1>. QED BY <1>6, <1>8 DEF BaseInv

-----------------------------------------------------------------------------
\* The requests for attributes.

LEMMA SetFacts ==
  ASSUME NEW l, NEW a, NEW v
  PROVE  /\ Settable(l) \subseteq Attrs
         /\ a \in Settable(l) => SetRequest(l, a, v) = [attr EXCEPT ![a] = Kept(a, v)]
         /\ a \notin Settable(l) => SetRequest(l, a, v) = attr
<1>1. Settable(l) \subseteq Attrs
  BY DEF Settable, MlmeSettable, Attrs, PibAttrs
<1>2. CASE l = "mlme"
  <2>1. \A x \in PibBytes : Kept(x, v) = Low(v)
    BY DEF Kept, PibBytes, PibWords, PibBlocks, PibSetOnly, NibBlocks, AibBlocks
  <2>2. \A x \in MlmeSettable \ PibBytes : Kept(x, v) = v
    BY DEF Kept, MlmeSettable
  <2>3. PibBytes \subseteq MlmeSettable
    BY DEF MlmeSettable
  <2>. QED BY <1>1, <1>2, <2>1, <2>2, <2>3 DEF Settable, SetRequest, MlmeSetRequest
<1>3. CASE l = "nlme"
  <2>1. \A x \in NibBytes \cup NibWords : Kept(x, v) = Low(v)
    BY DEF Kept, NibBytes, NibWords, PibWords, PibBlocks, PibSetOnly, NibBlocks, AibBlocks
  <2>2. \A x \in NibBlocks : Kept(x, v) = v
    BY DEF Kept
  <2>. QED BY <1>1, <1>3, <2>1, <2>2 DEF Settable, SetRequest, NlmeSetRequest, NibAttrs
<1>4. CASE l # "mlme" /\ l # "nlme"
  <2>1. \A x \in AibBytes \cup AibWide : Kept(x, v) = Low(v)
    BY DEF Kept, AibBytes, AibWide, PibWords, PibBlocks, PibSetOnly, NibBlocks, AibBlocks
  <2>2. \A x \in AibBlocks : Kept(x, v) = v
    BY DEF Kept
  <2>. QED BY <1>1, <1>4, <2>1, <2>2 DEF Settable, SetRequest, ApsmeSetRequest, AibAttrs
<1>. QED BY <1>2, <1>3, <1>4

(* A request comes: what it brings is what was set last.                   *)
LEMMA RequestBase ==
  ASSUME BuffersInv, BaseInv, NEW l, NEW a, NEW v, AppSet(l, a, v)
  PROVE  BaseInv'
<1>1. PICK b : b = Min(FreeOf(work, "out"))
  OBVIOUS
<1>. DEFINE c == [kind |-> "set", layer |-> l, attr |-> a, value |-> v]
            x == Filled(work, b, c)
<1>2. /\ b \in Bufs /\ work.buf[b] = NoBuf /\ work' = Called(x, "setReq", b)
      /\ attr' = attr /\ timer' = timer /\ pc' = pc /\ "setReq" \in Fns
  BY <1>1, FreeFacts DEF AppSet, base, Fns
<1>3. /\ log'.set = IF a \in Settable(l) THEN Updated(log.set, a, v) ELSE log.set
      /\ log'.pan = log.pan /\ log'.overtaken = log.overtaken
  <2>1. DOMAIN log = LogFields
    BY DEF BuffersInv, LogTyped
  <2>2. log' = IF a \in Settable(l) THEN [log EXCEPT !.set = Updated(log.set, a, v)] ELSE log
    BY DEF AppSet
  <2>. QED BY <2>1, <2>2 DEF LogFields
<1>4. Shaped(work) /\ Requests(work) /\ Goes(work, work) /\ Spare(work, b)
  BY <1>2, StartingSound, FrameSpare DEF Starting, Follows, NoBuf
<1>5. c.kind = "set" /\ c.layer = l /\ c.attr = a /\ c.value = v
  OBVIOUS
<1>. HIDE DEF c
<1>6. Shaped(x) /\ x.cb = work.cb /\ x.buf[b] = c /\ Goes(x, work) /\ (Seeks(x) <=> Seeks(work))
  BY <1>2, <1>4, FilledQueue, FilledGoes
<1>. HIDE DEF x
<1>. DEFINE n1 == Len(work.cb) + 1
<1>7. /\ n1 \in Nat /\ Requests(work')
      /\ \A i, e : Brings(work', i, e) => Brings(work, i, e) \/ i = n1
      /\ \A i : Starts(work', i) => Starts(work, i) \/ i = n1
      /\ \A i, e : Brings(work, i, e) => i \in Nat /\ i < n1 /\ Brings(work', i, e) /\ At(work', i) = At(work, i)
      /\ \A i : Starts(work, i) => i \in Nat /\ i < n1 /\ Starts(work', i) /\ At(work', i) = At(work, i)
      /\ n1 \in DOMAIN work'.cb /\ work'.cb[n1].fn = "setReq" /\ At(work', n1) = c
  BY <1>2, <1>4, <1>5, <1>6, NewCall
<1>. HIDE DEF n1
<1>8. ~Starts(work', n1) /\ \A e : Brings(work', n1, e) <=> e = a /\ a \in Settable(l)
  BY <1>5, <1>7 DEF Brings, Starts
<1>9. SetSound(work, attr, log.set) /\ PanSound(work, attr, log, timer, pc)
  BY DEF BaseInv
<1>10. /\ DOMAIN log.set \subseteq DOMAIN log'.set
       /\ \A e \in DOMAIN log.set : e # a \/ a \notin Settable(l) => log'.set[e] = log.set[e]
       /\ \A e \in DOMAIN log'.set : e \in DOMAIN log.set \/ (e = a /\ a \in Settable(l))
       /\ a \in Settable(l) => a \in DOMAIN log'.set /\ log'.set[a] = v
  BY <1>3 DEF Updated
<1>11. SetSound(work', attr', log'.set)
  <2>1. ASSUME NEW i, NEW e, Brings(work', i, e)
        PROVE  e \in DOMAIN log'.set /\ (At(work', i).value = log'.set[e] \/ \E j : j > i /\ Brings(work', j, e))
    <3>1. CASE i = n1
      BY <1>5, <1>7, <1>8, <1>10, <2>1, <3>1
    <3>2. CASE Brings(work, i, e)
      <4>1. e \in DOMAIN log.set /\ (At(work, i).value = log.set[e] \/ \E j : j > i /\ Brings(work, j, e))
        BY <1>9, <3>2 DEF SetSound
      <4>2. CASE e = a /\ a \in Settable(l)
        BY <1>7, <1>8, <1>10, <3>2, <4>2
      <4>3. CASE ~(e = a /\ a \in Settable(l))
        BY <1>7, <1>10, <3>2, <4>1, <4>3
      <4>. QED BY <4>2, <4>3
    <3>. QED BY <1>7, <2>1, <3>1, <3>2
  <2>2. DOMAIN log'.set \subseteq Attrs
    BY <1>9, <1>10, SetFacts DEF SetSound
  <2>3. ASSUME NEW e \in DOMAIN log'.set \ StackWrites
        PROVE  attr[e] = Kept(e, log'.set[e]) \/ \E i : Brings(work', i, e)
    BY <1>7, <1>8, <1>9, <1>10, <2>3 DEF SetSound
  <2>. QED BY <1>2, <2>1, <2>2, <2>3 DEF SetSound
<1>12. PanSound(work', attr', log', timer', pc')
  <2>1. Seeks(work') <=> Seeks(work)
    BY <1>2, <1>6, CalledGoes
  <2>2. Pending(work', timer') <=> Pending(work, timer)
    BY <1>2, <2>1 DEF Pending
  <2>3. \A i : Starts(work', i) <=> Starts(work, i)
    BY <1>7, <1>8
  <2>4. \A i : Starts(work, i) => At(work', i) = At(work, i)
    BY <1>7
  <2>. QED BY <1>2, <1>3, <1>9, <1>10, <2>2, <2>3, <2>4 DEF PanSound
<1>. QED BY <1>7, <1>11, <1>12 DEF BaseInv

(* A request is served.                                                    *)
LEMMA ServedBase ==
  ASSUME BuffersInv, BaseInv, DoSet
  PROVE  BaseInv'
<1>. DEFINE l == F.layer
            a == F.attr
            v == F.value
<1>0. /\ Runs("setReq") /\ attr' = SetRequest(l, a, v) /\ timer' = timer /\ log' = log /\ pc' = pc
      /\ DOMAIN attr = Attrs /\ "setConf" \in Tame
  BY DEF DoSet, Tame, Fns, Writers, BuffersInv, BaseTyped
<1>1. PICK c : work' = Called(Filled(W, P, c), "setConf", P)
  BY DEF DoSet
<1>2. P \in Bufs
  BY <1>0, HeadFacts
<1>3. /\ Shaped(W) /\ Requests(W) /\ Spare(W, P) /\ PanSound(W, attr, log, timer, pc)
      /\ \A i, e : Brings(work, i, e) => i \in Nat /\ (i = 1 \/ (i - 1 >= 1 /\ Brings(W, i - 1, e)))
      /\ \A i, e : Brings(W, i, e) => i \in Nat /\ Brings(work, i + 1, e) /\ At(W, i) = At(work, i + 1)
      /\ 1 \in DOMAIN work.cb /\ work.cb[1].fn = "setReq" /\ At(work, 1) = F
  <2>1. "setReq" \notin {"startReq", "setPanid"}
    OBVIOUS
  <2>. QED BY <1>0, <1>2, <2>1, HeadGoes, HeadPan DEF Brings
<1>4. \A e : Brings(work, 1, e) <=> e = a /\ a \in Settable(l)
  BY <1>3 DEF Brings
<1>5. SetSound(work, attr, log.set)
  BY DEF BaseInv
<1>. HIDE DEF l, a, v
<1>6. /\ \A e \in Attrs : e # a \/ a \notin Settable(l) => attr'[e] = attr[e]
      /\ a \in Settable(l) => a \in Attrs /\ attr'[a] = Kept(a, v)
  BY <1>0, SetFacts
<1>7. a \in Settable(l) => a \in DOMAIN log.set /\ (v = log.set[a] \/ \E j : j > 1 /\ Brings(work, j, a))
  BY <1>3, <1>4, <1>5 DEF SetSound, v
<1>8. SetSound(W, attr', log.set)
  <2>1. ASSUME NEW i, NEW e, Brings(W, i, e)
        PROVE  e \in DOMAIN log.set /\ (At(W, i).value = log.set[e] \/ \E j : j > i /\ Brings(W, j, e))
    <3>1. i \in Nat /\ Brings(work, i + 1, e) /\ At(W, i) = At(work, i + 1)
      BY <1>3, <2>1
    <3>2. e \in DOMAIN log.set /\ (At(work, i + 1).value = log.set[e] \/ \E j : j > i + 1 /\ Brings(work, j, e))
      BY <1>5, <3>1 DEF SetSound
    <3>3. ASSUME NEW j, j > i + 1, Brings(work, j, e)
          PROVE  \E k : k > i /\ Brings(W, k, e)
      <4>1. j \in Nat /\ j # 1
        BY <1>3, <3>1, <3>3
      <4>. QED BY <1>3, <3>1, <3>3, <4>1
    <3>. QED BY <3>1, <3>2, <3>3
  <2>2. ASSUME NEW e \in DOMAIN log.set \ StackWrites
        PROVE  attr'[e] = Kept(e, log.set[e]) \/ \E i : Brings(W, i, e)
    <3>1. e \in Attrs /\ (attr[e] = Kept(e, log.set[e]) \/ \E i : Brings(work, i, e))
      BY <1>5, <2>2 DEF SetSound
    <3>2. CASE e = a /\ a \in Settable(l)
      <4>1. v = log.set[a] \/ \E j : j > 1 /\ Brings(W, j - 1, a)
        BY <1>3, <1>7, <3>2
      <4>. QED BY <1>6, <3>2, <4>1
    <3>3. CASE ~(e = a /\ a \in Settable(l))
      BY <1>3, <1>4, <1>6, <3>1, <3>3
    <3>. QED BY <3>2, <3>3
  <2>3. DOMAIN log.set \subseteq Attrs
    BY <1>5 DEF SetSound
  <2>. QED BY <2>1, <2>2, <2>3 DEF SetSound
<1>9. PanSound(W, attr', log, timer, pc)
  <2>1. attr'["PanId"] = attr["PanId"] \/ "PanId" \in DOMAIN log.set
    <3>1. "PanId" \in Attrs
      BY DEF Attrs, PibAttrs, PibWords
    <3>. QED BY <1>6, <1>7, <3>1
  <2>. QED BY <1>3, <2>1, PanStays
<1>10. Follows(work', W)
  <2>1. Follows(W, W)
    <3>1. Len(W.cb) \in Nat
      BY <1>3 DEF Shaped
    <3>. QED BY <1>3, <3>1 DEF Follows, Goes
  <2>2. Follows(Filled(W, P, c), W)
    BY <1>3, <2>1, FollowFills
  <2>3. P \in Bufs \cup {0}
    BY <1>2
  <2>. QED BY <1>0, <1>1, <1>3, <2>2, <2>3, FollowCalls
<1>11. Requests(work') /\ SetSound(work', attr', log'.set)
  BY <1>0, <1>3, <1>8, <1>10, GoesSound, GoesSet DEF Follows
<1>12. PanSound(work', attr', log', timer', pc')
  BY <1>0, <1>3, <1>9, <1>10, FollowsPan
<1>. QED BY <1>11, <1>12 DEF BaseInv

-----------------------------------------------------------------------------
\* The invariant of the base.

LEMMA AllTamed ==
  ASSUME BuffersInv, BaseInv, Next, ~Setting, ~SetPanidAlarm, ~DoSetPanid, ~StartRequest, ~DoSet
  PROVE  Tamed
<1>1. CASE Environment
  <2>1. \/ \E f \in Foreign \cup Repeated, k \in DOMAIN Nbt : Receive(f, k)
        \/ \E pan \in mix.pans : Beacon(pan)
        \/ \E d \in mix.dsts, r \in mix.radii : AppSend(d, r)
        \/ \E d \in mix.dsts : SendStatus(d)
        \/ \E g \in mix.gets : AppGet(g[1], g[2])
    BY <1>1 DEF Environment, Setting
  <2>. QED BY <2>1, FreeTamed
<1>2. CASE \/ ForwardDirect \/ ForwardBttFull \/ DropIndication
           \/ CallStatusIndication \/ NldeConfirm \/ NldeIndication \/ StatusIndication \/ IndicateStatus \/ IndicateData
           \/ SendStatusInd \/ GetConfirm \/ SetConfirm \/ DoGet \/ DataRequest
  BY <1>2, SimpleTamed
<1>3. CASE DataConfirm \/ CallBrConfirm
  BY <1>3, ConfirmedTamed
<1>4. CASE IndicateReport \/ IndicateUpdate \/ BeaconIndication \/ StartConfirm \/ SendNwkUpdate \/ ForwardBroadcast
  BY <1>4, ConflictTamed
<1>5. CASE BrAlarm \/ BtrExpiry \/ Elapse \/ BrNeedsBuffer \/ BrNothing
  BY <1>5, TimeTamed
<1>6. CASE SendNetworkReport \/ \E b \in Bufs : MacDone(b)
  BY <1>6, HeldTamed
<1>7. CASE BrTransmit
  BY <1>7, TransmitTamed
<1>8. CASE BroadcastIndication \/ UnicastIndication
  BY <1>8, ReceivedTamed
<1>9. CASE NewBuffer
  BY <1>9, NewBufferTamed
<1>. QED BY <1>1, <1>2, <1>3, <1>4, <1>5, <1>6, <1>7, <1>8, <1>9 DEF Next, Callback, Alarm

LEMMA BaseKept ==
  ASSUME BuffersInv, BaseInv, Next
  PROVE  BaseInv'
<1>1. CASE Setting
  BY <1>1, RequestBase DEF Setting
<1>2. CASE SetPanidAlarm
  BY <1>2, AlarmBase
<1>3. CASE DoSetPanid
  BY <1>3, StartBase
<1>4. CASE StartRequest
  BY <1>4, StartedBase
<1>5. CASE DoSet
  BY <1>5, ServedBase
<1>6. CASE ~Setting /\ ~SetPanidAlarm /\ ~DoSetPanid /\ ~StartRequest /\ ~DoSet
  <2>1. AttrSame
    BY <1>6, AttrsSame
  <2>2. CASE Tells
    BY <2>1, <2>2, TellsBase
  <2>3. CASE ~Tells
    <3>1. LogSame /\ PansSame /\ pc'.new = pc.new
      BY <1>6, <2>3, LogsSame, TimersSame, IdStays
    <3>. QED BY <1>6, <2>1, <3>1, SameAll, AllTamed, PlainBase
  <2>. QED BY <2>2, <2>3
<1>. QED BY <1>1, <1>2, <1>3, <1>4, <1>5, <1>6

LEMMA BaseRemains ==
  ASSUME BaseInv, UNCHANGED vars
  PROVE  BaseInv'
BY DEF BaseInv, vars

LEMMA BaseStarts ==
  ASSUME Init
  PROVE  BaseInv
<1>1. /\ work.cb = <<>> /\ work.wait = [d \in {"in", "out"} |-> <<>>] /\ log.set = <<>> /\ log.pan = -1 /\ timer.pans = <<>>
  BY DEF Init
<1>2. DOMAIN work.cb = {} /\ DOMAIN log.set = {} /\ \A d \in {"in", "out"} : DOMAIN work.wait[d] = {}
  BY <1>1
<1>3. ~Pending(work, timer)
  BY <1>1, <1>2 DEF Pending, Seeks
<1>. QED BY <1>1, <1>2, <1>3 DEF BaseInv, Requests, SetSound, PanSound, Brings, Starts

(* The requests that write the base in the order of the queue: the last    *)
(* request for an attribute brings what was set last, the last start the   *)
(* id announced last, which is kept until then (nwk_panid_conflict.c,      *)
(* zb_panid_conflict_set_panid; mac.c:1189-1330).                          *)
THEOREM BaseInductive == Spec => [](BuffersInv /\ BaseInv)
<1>1. Init => BuffersInv /\ BaseInv
  BY Starts0, BaseStarts
<1>2. BuffersInv /\ BaseInv /\ [Next]_vars => (BuffersInv /\ BaseInv)'
  BY Steps, BaseKept, BaseRemains
<1>. QED BY <1>1, <1>2, PTL DEF Spec

(* Once no change of the PAN id is under way the device has the id         *)
(* announced last, unless a new conflict cleared it first or it was set;   *)
(* and an attribute only requests write keeps what the last one left       *)
(* (nwk_panid_conflict.c, mac.c:1189-1330, nwk_nlme.c, aps_main.c).        *)
THEOREM BaseEndsAsMeant == Spec => []BaseSound
<1>1. BuffersInv /\ BaseInv => BaseSound
  <2>1. ASSUME BuffersInv, BaseInv, "PanId" \notin DOMAIN log.set, ~PanPending, ~Queued("startReq"), log.pan # -1, ~log.overtaken
        PROVE  attr["PanId"] = log.pan
    <3>1. ~Pending(work, timer)
      BY <2>1, PanPends
    <3>2. \A i : ~Starts(work, i)
      BY <2>1 DEF Queued, Starts
    <3>. QED BY <2>1, <3>1, <3>2 DEF BaseInv, PanSound
  <2>2. ASSUME BaseInv, NEW a \in DOMAIN log.set \ StackWrites,
               ~\E i \in DOMAIN work.cb : work.cb[i].fn = "setReq" /\ work.buf[work.cb[i].p].attr = a
        PROVE  attr[a] = Kept(a, log.set[a])
    <3>1. \A i : ~Brings(work, i, a)
      BY <2>2 DEF Brings, At
    <3>. QED BY <2>2, <3>1 DEF BaseInv, SetSound
  <2>. QED BY <2>1, <2>2 DEF BaseSound, PanSettled, AttrKept
<1>. QED BY <1>1, BaseInductive, PTL
=============================================================================
