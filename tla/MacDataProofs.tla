--------------------------- MODULE MacDataProofs ---------------------------
(***************************************************************************)
(* For every pool, pending queue, set of children and number of frames in  *)
(* flight: the pending queue, its alarms and the pending bit agree, a      *)
(* buffer is held once, and direct data requests are confirmed in order,   *)
(* until one service has used the buffer of another.                       *)
(***************************************************************************)
EXTENDS MacData, FunctionTheorems, FiniteSetTheorems,
        SequenceTheorems, WellFoundedInduction, TLAPS

-----------------------------------------------------------------------------
\* Natural numbers.

Below == {ss \in Nat \X Nat : ss[1] < ss[2]}

LEMMA BelowWellFounded == IsWellFoundedOn(Below, Nat)
BY NatLessThanWellFounded DEF OpToRel, Below

\* A set of natural numbers that is not empty has a least element.
LEMMA LeastElement ==
  ASSUME NEW S \in SUBSET Nat, S # {}
  PROVE  \E x \in S : \A y \in S : x <= y
<1>1. PICK x \in S : \A y \in S : ~(<<y, x>> \in Below)
  BY BelowWellFounded, WFMin
<1>2. \A y \in S : ~(y < x)
  BY <1>1 DEF Below
<1>. QED BY <1>2

\* Induction: a set with 0 and with the successor of each element.
LEMMA NatClosed ==
  ASSUME NEW T, 0 \in T, \A n \in Nat : n \in T => n + 1 \in T
  PROVE  Nat \subseteq T
<1>1. SUFFICES ASSUME Nat \ T # {} PROVE FALSE
  OBVIOUS
<1>2. PICK x \in Nat \ T : \A y \in Nat \ T : x <= y
  <2>1. Nat \ T \in SUBSET Nat
    OBVIOUS
  <2>. QED BY <1>1, <2>1, LeastElement
<1>3. x # 0 /\ x - 1 \in Nat
  BY <1>2
<1>4. x - 1 \in T
  BY <1>2, <1>3
<1>5. (x - 1) + 1 \in T
  BY <1>3, <1>4
<1>. QED BY <1>2, <1>3, <1>5

-----------------------------------------------------------------------------
\* Queues: their members, and how many of them refer to a buffer.
Members(q) == {q[i] : i \in DOMAIN q}
Positions(q, b) == {i \in DOMAIN q : q[i].buf = b}
Has(q, b) == Cardinality(Positions(q, b))

LEMMA HasFacts ==
  ASSUME NEW S, NEW q \in Seq(S), NEW b
  PROVE  /\ IsFiniteSet(Positions(q, b)) /\ Has(q, b) \in Nat
         /\ Has(q, b) = 0 <=> \A e \in Members(q) : e.buf # b
<1>1. IsFiniteSet(1 .. Len(q)) /\ DOMAIN q = 1 .. Len(q)
  BY FS_Interval, LenProperties
<1>2. IsFiniteSet(Positions(q, b))
  <2>1. Positions(q, b) \in SUBSET (1 .. Len(q))
    BY <1>1 DEF Positions
  <2>. QED BY <1>1, <2>1, FS_Subset
<1>3. Has(q, b) \in Nat /\ (Has(q, b) = 0 <=> Positions(q, b) = {})
  BY <1>2, FS_CardinalityType, FS_EmptySet DEF Has
<1>4. Positions(q, b) = {} <=> \A e \in Members(q) : e.buf # b
  BY DEF Positions, Members
<1>. QED BY <1>2, <1>3, <1>4

LEMMA PutFacts ==
  ASSUME NEW S, NEW q \in Seq(S), NEW e \in S
  PROVE  /\ Append(q, e) \in Seq(S) /\ Append(q, e) # << >>
         /\ Members(Append(q, e)) = Members(q) \cup {e}
         /\ \A b : Has(Append(q, e), b) = Has(q, b) + (IF e.buf = b THEN 1 ELSE 0)
<1>. DEFINE n == Len(q) + 1
<1>0. PICK p : p = Append(q, e)
  OBVIOUS
<1>1. /\ Len(q) \in Nat /\ DOMAIN q = 1 .. Len(q)
      /\ p \in Seq(S) /\ Len(p) = n /\ DOMAIN p = 1 .. n
      /\ p[n] = e /\ \A i \in 1 .. Len(q) : p[i] = q[i]
  <2>1. p \in Seq(S) /\ Len(p) = n /\ Len(q) \in Nat /\ DOMAIN q = 1 .. Len(q)
    BY <1>0, AppendProperties, LenProperties
  <2>2. p[n] = e /\ \A i \in 1 .. Len(q) : p[i] = q[i]
    BY <1>0, AppendProperties
  <2>. QED BY <2>1, <2>2, LenProperties
<1>2. p # << >>
  BY <1>1, EmptySeq
<1>3. DOMAIN p = DOMAIN q \cup {n} /\ n \notin DOMAIN q
  BY <1>1
<1>4. Members(p) = Members(q) \cup {e}
  BY <1>1, <1>3 DEF Members
<1>5. ASSUME NEW b PROVE Has(p, b) = Has(q, b) + (IF e.buf = b THEN 1 ELSE 0)
  <2>1. IsFiniteSet(Positions(q, b)) /\ Has(q, b) \in Nat
    BY HasFacts
  <2>2. n \notin Positions(q, b)
    BY <1>3 DEF Positions
  <2>3. CASE e.buf = b
    <3>1. Positions(p, b) = Positions(q, b) \cup {n}
      BY <1>1, <1>3, <2>3 DEF Positions
    <3>2. Cardinality(Positions(q, b) \cup {n}) = Cardinality(Positions(q, b)) + 1
      BY <2>1, <2>2, FS_AddElement
    <3>. QED BY <2>3, <3>1, <3>2 DEF Has
  <2>4. CASE e.buf # b
    <3>1. Positions(p, b) = Positions(q, b)
      BY <1>1, <1>3, <2>4 DEF Positions
    <3>. QED BY <2>1, <2>4, <3>1 DEF Has
  <2>. QED BY <2>3, <2>4
<1>. QED BY <1>0, <1>1, <1>2, <1>4, <1>5

LEMMA TookFacts ==
  ASSUME NEW S, NEW q \in Seq(S), q # << >>
  PROVE  /\ Head(q) \in S /\ Tail(q) \in Seq(S)
         /\ Members(q) = {Head(q)} \cup Members(Tail(q))
         /\ \A b : Has(q, b) = Has(Tail(q), b) + (IF Head(q).buf = b THEN 1 ELSE 0)
<1>. DEFINE t == Tail(q)
            N == Len(q)
<1>1. /\ Head(q) \in S /\ t \in Seq(S) /\ Len(t) = N - 1
      /\ \A i \in 1 .. Len(t) : t[i] = q[i + 1]
  BY HeadTailProperties
<1>2. N \in Nat \ {0} /\ DOMAIN q = 1 .. N /\ DOMAIN t = 1 .. N - 1 /\ Head(q) = q[1]
  BY <1>1, EmptySeq, LenProperties
<1>3. /\ \A i \in 1 .. N - 1 : i + 1 \in 2 .. N /\ t[i] = q[i + 1]
      /\ \A i \in 2 .. N : i - 1 \in 1 .. N - 1 /\ (i - 1) + 1 = i
      /\ 1 .. N = {1} \cup (2 .. N)
  BY <1>1, <1>2
<1>4. \A i \in 2 .. N : q[i] = t[i - 1]
  BY <1>3
<1>. HIDE DEF t
<1>5. Members(q) = {Head(q)} \cup Members(t)
  <2>1. ASSUME NEW i \in 1 .. N PROVE q[i] \in {Head(q)} \cup Members(t)
    <3>1. CASE i = 1
      BY <1>2, <3>1
    <3>2. CASE i # 1
      <4>1. i \in 2 .. N /\ i - 1 \in DOMAIN t
        BY <1>2, <3>2
      <4>2. q[i] = t[i - 1]
        BY <1>4, <4>1
      <4>. QED BY <4>1, <4>2 DEF Members
    <3>. QED BY <3>1, <3>2
  <2>2. ASSUME NEW i \in DOMAIN t PROVE t[i] \in Members(q)
    <3>1. i + 1 \in DOMAIN q /\ t[i] = q[i + 1]
      BY <1>2, <1>3
    <3>. QED BY <3>1 DEF Members
  <2>3. Head(q) \in Members(q)
    BY <1>2 DEF Members
  <2>. QED BY <1>2, <2>1, <2>2, <2>3 DEF Members
<1>6. ASSUME NEW b PROVE Has(q, b) = Has(t, b) + (IF Head(q).buf = b THEN 1 ELSE 0)
  <2>. DEFINE A == Positions(t, b)
              B == Positions(q, b) \ {1}
              f == [i \in A |-> i + 1]
  <2>1. IsFiniteSet(A) /\ Has(t, b) \in Nat /\ IsFiniteSet(Positions(q, b)) /\ Has(q, b) \in Nat
    BY <1>1, HasFacts
  <2>2. /\ \A i \in A : i \in 1 .. N - 1 /\ i + 1 \in B
        /\ \A i \in B : i \in 2 .. N /\ i - 1 \in A /\ f[i - 1] = i
    BY <1>2, <1>3, <1>4 DEF Positions
  <2>3. f \in Bijection(A, B)
    <3>1. f \in [A -> B]
      BY <2>2
    <3>2. \A i, j \in A : f[i] = f[j] => i = j
      BY <2>2
    <3>3. \A y \in B : \E x \in A : f[x] = y
      BY <2>2
    <3>. HIDE DEF f, A, B
    <3>4. f \in Injection(A, B)
      BY <3>1, <3>2, Fun_IsInj
    <3>5. f \in Surjection(A, B)
      BY <3>1, <3>3, Fun_IsSurj
    <3>. QED BY <3>4, <3>5, Fun_IsBij
  <2>4. IsFiniteSet(B) /\ Cardinality(B) = Cardinality(A)
    <3>. HIDE DEF f, A, B
    <3>1. ExistsBijection(A, B)
      BY <2>3 DEF ExistsBijection
    <3>. QED BY <2>1, <3>1, FS_Bijection
  <2>5. CASE Head(q).buf = b
    <3>1. Positions(q, b) = B \cup {1} /\ 1 \notin B
      BY <1>2, <2>5 DEF Positions
    <3>. HIDE DEF A, B
    <3>2. Cardinality(B \cup {1}) = Cardinality(B) + 1
      BY <2>4, <3>1, FS_AddElement
    <3>. QED BY <2>4, <2>5, <3>1, <3>2 DEF Has, A
  <2>6. CASE Head(q).buf # b
    <3>1. Positions(q, b) = B
      BY <1>2, <2>6 DEF Positions
    <3>2. Cardinality(Positions(q, b)) = Cardinality(Positions(t, b))
      BY <2>4, <3>1
    <3>. QED BY <2>1, <2>6, <3>2 DEF Has
  <2>. QED BY <2>5, <2>6
<1>. QED BY <1>1, <1>5, <1>6 DEF t

-----------------------------------------------------------------------------
\* The slots that refer to a buffer.
SlotsWith(t, b) == {s \in Slot : t[s].buf = b}
InSlots(t, b) == Cardinality(SlotsWith(t, b))

LEMMA SlotFacts ==
  ASSUME NEW t, NEW b
  PROVE  /\ IsFiniteSet(SlotsWith(t, b)) /\ InSlots(t, b) \in Nat
         /\ InSlots(t, b) = 0 <=> \A s \in Slot : t[s].buf # b
<1>1. IsFiniteSet(Slot)
  BY MacAssumption, FS_Interval DEF Slot
<1>2. SlotsWith(t, b) \in SUBSET Slot
  BY DEF SlotsWith
<1>3. IsFiniteSet(SlotsWith(t, b))
  BY <1>1, <1>2, FS_Subset
<1>4. InSlots(t, b) \in Nat /\ (InSlots(t, b) = 0 <=> SlotsWith(t, b) = {})
  BY <1>3, FS_CardinalityType, FS_EmptySet DEF InSlots
<1>. QED BY <1>3, <1>4 DEF SlotsWith

\* Overwriting one slot.
Written(t, s, v) == [t EXCEPT ![s] = v]
LEMMA SlotWritten ==
  ASSUME NEW R, NEW t \in [Slot -> R], NEW s \in Slot, NEW v
  PROVE  \A b : InSlots(Written(t, s, v), b) = InSlots(t, b) - (IF t[s].buf = b THEN 1 ELSE 0)
                                              + (IF v.buf = b THEN 1 ELSE 0)
<1>0. PICK u : u = Written(t, s, v)
  OBVIOUS
<1>1. SUFFICES ASSUME NEW b
              PROVE InSlots(u, b) = InSlots(t, b) - (IF t[s].buf = b THEN 1 ELSE 0)
                                                  + (IF v.buf = b THEN 1 ELSE 0)
  BY <1>0
<1>. DEFINE A == SlotsWith(t, b) \ {s}
<1>2. u[s] = v /\ \A x \in Slot : x # s => u[x] = t[x]
  BY <1>0 DEF Written
<1>3. IsFiniteSet(SlotsWith(t, b)) /\ InSlots(t, b) \in Nat
  BY SlotFacts
<1>4. /\ IsFiniteSet(A)
      /\ Cardinality(A) = IF s \in SlotsWith(t, b) THEN InSlots(t, b) - 1 ELSE InSlots(t, b)
  BY <1>3, FS_RemoveElement DEF InSlots
<1>5. s \in SlotsWith(t, b) <=> t[s].buf = b
  BY DEF SlotsWith
<1>6. Cardinality(A) \in Nat
  BY <1>4, FS_CardinalityType
<1>7. CASE v.buf = b
  <2>1. SlotsWith(u, b) = A \cup {s} /\ s \notin A
    BY <1>2, <1>7 DEF SlotsWith
  <2>. HIDE DEF A
  <2>2. Cardinality(A \cup {s}) = Cardinality(A) + 1
    BY <1>4, <2>1, FS_AddElement
  <2>3. InSlots(u, b) = Cardinality(A) + 1
    BY <2>1, <2>2, Zenon DEF InSlots
  <2>. QED BY <1>3, <1>4, <1>5, <1>6, <1>7, <2>3
<1>8. CASE v.buf # b
  <2>1. SlotsWith(u, b) = A
    BY <1>2, <1>8 DEF SlotsWith
  <2>. HIDE DEF A
  <2>. QED BY <1>3, <1>4, <1>5, <1>6, <1>8, <2>1 DEF InSlots
<1>. QED BY <1>7, <1>8

-----------------------------------------------------------------------------
\* After an entry in F the queue has no entry in G.
Closing(q, F, G) == \A i, j \in DOMAIN q : i < j /\ q[i] \in F => q[j] \notin G

LEMMA ClosingPut ==
  ASSUME NEW S, NEW q \in Seq(S), NEW e \in S, NEW F, NEW G,
         Closing(q, F, G), e \in G => \A x \in Members(q) : x \notin F
  PROVE  Closing(Append(q, e), F, G)
<1>. DEFINE n == Len(q) + 1
<1>0. PICK p : p = Append(q, e)
  OBVIOUS
<1>1. /\ Len(q) \in Nat /\ DOMAIN q = 1 .. Len(q) /\ DOMAIN p = 1 .. n
      /\ p[n] = e /\ \A i \in 1 .. Len(q) : p[i] = q[i]
  <2>1. p \in Seq(S) /\ Len(p) = n /\ Len(q) \in Nat /\ DOMAIN q = 1 .. Len(q)
    BY <1>0, AppendProperties, LenProperties
  <2>2. p[n] = e /\ \A i \in 1 .. Len(q) : p[i] = q[i]
    BY <1>0, AppendProperties
  <2>. QED BY <2>1, <2>2, LenProperties
<1>2. ASSUME NEW i \in 1 .. n, NEW j \in 1 .. n, i < j, p[i] \in F PROVE p[j] \notin G
  <2>1. i \in 1 .. Len(q)
    BY <1>1, <1>2
  <2>2. p[i] = q[i] /\ q[i] \in Members(q)
    BY <1>1, <2>1 DEF Members
  <2>3. CASE j = n
    BY <1>1, <1>2, <2>2, <2>3
  <2>4. CASE j # n
    <3>1. j \in 1 .. Len(q) /\ p[j] = q[j]
      BY <1>1, <2>4
    <3>. QED BY <1>1, <1>2, <2>1, <2>2, <3>1 DEF Closing
  <2>. QED BY <2>3, <2>4
<1>3. Closing(p, F, G)
  BY <1>1, <1>2 DEF Closing
<1>. QED BY <1>0, <1>3

LEMMA ClosingTook ==
  ASSUME NEW S, NEW q \in Seq(S), q # << >>, NEW F, NEW G, Closing(q, F, G)
  PROVE  /\ Closing(Tail(q), F, G)
         /\ Head(q) \in F => \A x \in Members(Tail(q)) : x \notin G
<1>. DEFINE t == Tail(q)
            N == Len(q)
<1>1. /\ t \in Seq(S) /\ Len(t) = N - 1 /\ \A i \in 1 .. Len(t) : t[i] = q[i + 1]
  BY HeadTailProperties
<1>2. N \in Nat \ {0} /\ DOMAIN q = 1 .. N /\ DOMAIN t = 1 .. N - 1 /\ Head(q) = q[1]
  BY <1>1, EmptySeq, LenProperties
<1>3. \A i \in DOMAIN t : t[i] = q[i + 1] /\ i + 1 \in DOMAIN q /\ 1 < i + 1
  BY <1>1, <1>2
<1>4. \A i, j \in DOMAIN t : i < j => i + 1 < j + 1
  BY <1>2
<1>5. 1 \in DOMAIN q
  BY <1>2
<1>. HIDE DEF t
<1>6. Closing(t, F, G)
  BY <1>3, <1>4 DEF Closing
<1>7. ASSUME Head(q) \in F, NEW x \in Members(t) PROVE x \notin G
  <2>1. PICK i \in DOMAIN t : x = t[i]
    BY <1>7 DEF Members
  <2>. QED BY <1>2, <1>3, <1>5, <1>7, <2>1 DEF Closing
<1>. QED BY <1>6, <1>7 DEF t

LEMMA ClosingFewer ==
  ASSUME NEW q, NEW F, NEW H, NEW G, Closing(q, F, G), \A x \in Members(q) : x \in H => x \in F
  PROVE  Closing(q, H, G)
BY DEF Closing, Members

-----------------------------------------------------------------------------
\* Picked: its recursive function exists, and what it returns follows by
\* induction from the front of the queue.
Picks(e, f, P) == e.func = f /\ e.buf \in P

PickStep(q, f, P, h, k) ==
  IF k = 0 THEN << >> ELSE IF q[k].func = f /\ q[k].buf \in P THEN Append(h[k - 1], q[k].buf) ELSE h[k - 1]

Follows(q, f, P, h, n) == \A k \in 0 .. n : h[k] = PickStep(q, f, P, h, k)
IsPicking(q, f, P, h, n) == h \in [0 .. n -> Seq(P)] /\ Follows(q, f, P, h, n)

Picking(q, f, P, h, n) == (\A k \in 0 .. n : h[k] \in Seq(P)) /\ Follows(q, f, P, h, n)

LEMMA PickingExists ==
  ASSUME NEW q, NEW f, NEW P
  PROVE  \A n \in Nat : \E h : IsPicking(q, f, P, h, n)
<1>. DEFINE T == {n \in Nat : \E h : IsPicking(q, f, P, h, n)}
<1>1. 0 \in T
  <2>. DEFINE h0 == [k \in 0 .. 0 |-> << >>]
  <2>1. << >> \in Seq(P)
    OBVIOUS
  <2>2. IsPicking(q, f, P, h0, 0)
    BY <2>1 DEF IsPicking, Follows, PickStep
  <2>. QED BY <2>2
<1>2. ASSUME NEW n \in Nat, n \in T PROVE n + 1 \in T
  <2>1. PICK h : IsPicking(q, f, P, h, n)
    BY <1>2
  <2>2. h[n] \in Seq(P)
    BY <2>1 DEF IsPicking, Follows
  <2>3. PICK x : x = q[n + 1]
    OBVIOUS
  <2>4. (IF x.func = f /\ x.buf \in P THEN Append(h[n], x.buf) ELSE h[n]) \in Seq(P)
    BY <2>2, AppendProperties
  <2>5. PICK last \in Seq(P) : last = IF x.func = f /\ x.buf \in P THEN Append(h[n], x.buf) ELSE h[n]
    BY <2>4
  <2>. DEFINE g == [k \in 0 .. n + 1 |-> IF k = n + 1 THEN last ELSE h[k]]
  <2>6. g \in [0 .. n + 1 -> Seq(P)]
    BY <2>1 DEF IsPicking, Follows
  <2>7. ASSUME NEW k \in 0 .. n + 1 PROVE g[k] = PickStep(q, f, P, g, k)
    <3>1. CASE k = n + 1
      <4>1. g[k] = last /\ k # 0 /\ k - 1 = n /\ g[k - 1] = h[n]
        BY <3>1
      <4>. HIDE DEF g
      <4>. QED BY <2>3, <2>5, <3>1, <4>1 DEF PickStep
    <3>2. CASE k # n + 1
      <4>1. k \in 0 .. n /\ g[k] = h[k] /\ (k # 0 => g[k - 1] = h[k - 1])
        BY <3>2
      <4>2. h[k] = PickStep(q, f, P, h, k)
        BY <2>1, <4>1 DEF IsPicking, Follows
      <4>. HIDE DEF g
      <4>. QED BY <4>1, <4>2 DEF PickStep
    <3>. QED BY <3>1, <3>2
  <2>. HIDE DEF g
  <2>8. IsPicking(q, f, P, g, n + 1)
    BY <2>6, <2>7 DEF IsPicking, Follows
  <2>. QED BY <2>8
<1>3. Nat \subseteq T
  <2>. HIDE DEF T
  <2>. QED BY <1>1, <1>2, NatClosed
<1>. QED BY <1>3

\* Any function with the recurrence has its values.
LEMMA PickingUnique ==
  ASSUME NEW q, NEW f, NEW P, NEW n \in Nat
  PROVE  \A h, g : IsPicking(q, f, P, h, n) /\ Follows(q, f, P, g, n) => g[n] = h[n]
<1>. SUFFICES ASSUME NEW h, IsPicking(q, f, P, h, n), NEW g, Follows(q, f, P, g, n)
              PROVE  g[n] = h[n]
  OBVIOUS
<1>. DEFINE T == {k \in Nat : k <= n => g[k] = h[k]}
<1>1. 0 \in T
  <2>1. 0 \in 0 .. n
    OBVIOUS
  <2>2. g[0] = PickStep(q, f, P, g, 0) /\ h[0] = PickStep(q, f, P, h, 0)
    BY <2>1, Zenon DEF IsPicking, Follows
  <2>3. g[0] = h[0]
    BY <2>2 DEF PickStep
  <2>. QED BY <2>3
<1>2. ASSUME NEW k \in Nat, k \in T PROVE k + 1 \in T
  <2>1. SUFFICES ASSUME k + 1 <= n PROVE g[k + 1] = h[k + 1]
    OBVIOUS
  <2>2. k + 1 \in 0 .. n /\ k + 1 # 0 /\ (k + 1) - 1 = k /\ g[k] = h[k]
    BY <1>2, <2>1
  <2>3. g[k + 1] = PickStep(q, f, P, g, k + 1) /\ h[k + 1] = PickStep(q, f, P, h, k + 1)
    BY <2>2 DEF IsPicking, Follows
  <2>. QED BY <2>2, <2>3 DEF PickStep
<1>3. Nat \subseteq T
  <2>. HIDE DEF T
  <2>. QED BY <1>1, <1>2, NatClosed
<1>. QED BY <1>3

LEMMA PickedBy ==
  ASSUME NEW S, NEW q \in Seq(S), NEW f, NEW P
  PROVE  \E h : Picked(q, f, P) = h[Len(q)] /\ IsPicking(q, f, P, h, Len(q))
<1>. DEFINE Rest(h) == h = [k \in 0 .. Len(q) |-> PickStep(q, f, P, h, k)]
            rest == CHOOSE h : Rest(h)
<1>1. Len(q) \in Nat
  BY LenProperties
<1>2. PICK h : IsPicking(q, f, P, h, Len(q))
  BY <1>1, PickingExists
<1>3. Rest(rest)
  <2>1. Rest(h)
    BY <1>2 DEF IsPicking, Follows
  <2>. HIDE DEF Rest
  <2>. QED BY <2>1
<1>4. Picked(q, f, P) = rest[Len(q)]
  BY DEF Picked, PickStep
<1>. HIDE DEF rest
<1>5. PICK r : Rest(r) /\ Picked(q, f, P) = r[Len(q)]
  <2>. HIDE DEF Rest
  <2>. QED BY <1>3, <1>4
<1>6. \A k \in 0 .. Len(q) : r[k] = PickStep(q, f, P, r, k)
  <2>1. r = [k \in 0 .. Len(q) |-> PickStep(q, f, P, r, k)]
    BY <1>5
  <2>. QED BY <2>1, Zenon
<1>7. r[Len(q)] = h[Len(q)]
  <2>1. PICK n \in Nat : n = Len(q)
    BY <1>1
  <2>2. IsPicking(q, f, P, h, n) /\ Follows(q, f, P, r, n)
    <3>1. IsPicking(q, f, P, h, n)
      BY <1>2, <2>1, Zenon
    <3>2. Follows(q, f, P, r, Len(q))
      BY <1>6 DEF Follows
    <3>3. Follows(q, f, P, r, n)
      BY <2>1, <3>2, Zenon
    <3>. QED BY <3>1, <3>3
  <2>3. n \in Nat
    BY <2>1
  <2>4. r[n] = h[n]
    BY <2>2, <2>3, PickingUnique
  <2>. QED BY <2>1, <2>4
<1>8. Picked(q, f, P) = h[Len(q)]
  <2>1. Picked(q, f, P) = r[Len(q)]
    BY <1>5
  <2>. HIDE DEF Rest
  <2>. QED BY <1>7, <2>1, Zenon
<1>. QED BY <1>2, <1>8, Zenon

LEMMA ConcatPut ==
  ASSUME NEW B, NEW a \in Seq(B), NEW u \in Seq(B), NEW z \in B
  PROVE  a \o Append(u, z) = Append(a \o u, z)
<1>1. <<z>> \in Seq(B)
  OBVIOUS
<1>2. Append(u, z) = u \o <<z>>
  BY AppendIsConcat
<1>3. a \o u \in Seq(B)
  BY ConcatProperties
<1>4. PICK w \in Seq(B) : w = a \o u
  BY <1>3
<1>5. Append(w, z) = w \o <<z>>
  BY AppendIsConcat
<1>6. PICK o \in Seq(B) : o = <<z>>
  BY <1>1
<1>7. (a \o u) \o o = a \o (u \o o)
  BY ConcatAssociative
<1>. QED BY <1>2, <1>4, <1>5, <1>6, <1>7

Aligned(q, t, f, P, R, d, n) ==
  \A k \in 1 .. n : q[k + d].func = f \/ t[k].func = f =>
     /\ q[k + d].func = f /\ t[k].func = f /\ q[k + d].buf = t[k].buf
     /\ (q[k + d].buf \in P <=> q[k + d].buf \in R)
Shifted(h, g, d, k) == h[k + d] = h[d] \o g[k]
Joined(h, g, d, n, m) == h[m] = h[d] \o g[n]

\* Two queues, one of which has d entries more at the front.
LEMMA PickingShift ==
  ASSUME NEW q, NEW t, NEW f, NEW P \in SUBSET Buf, NEW R \in SUBSET Buf, NEW d \in Nat, NEW n \in Nat,
         NEW m \in Nat, m = n + d, NEW h, NEW g,
         Picking(q, f, P, h, m), Picking(t, f, R, g, n), Aligned(q, t, f, P, R, d, n)
  PROVE  Joined(h, g, d, n, m)
<1>. DEFINE T == {k \in Nat : k <= n => Shifted(h, g, d, k)}
<1>1. \A k \in 0 .. n : k + d \in 0 .. n + d /\ h[k + d] \in Seq(P) /\ g[k] \in Seq(R)
  BY DEF Picking, Follows
<1>2. h[d] \in Seq(P) /\ h[d] \in Seq(Buf) /\ \A k \in 0 .. n : g[k] \in Seq(Buf)
  <2>1. 0 \in 0 .. n /\ 0 + d = d
    OBVIOUS
  <2>2. h[d] \in Seq(P)
    BY <1>1, <2>1
  <2>. QED BY <1>1, <2>2, SeqMonotonic
<1>3. 0 \in T
  <2>1. g[0] = << >>
    BY DEF Picking, Follows, PickStep
  <2>2. h[d] \o << >> = h[d]
    BY <1>2, ConcatEmptySeq
  <2>3. Shifted(h, g, d, 0)
    BY <2>1, <2>2 DEF Shifted
  <2>. QED BY <2>3
<1>4. ASSUME NEW k \in Nat, k \in T PROVE k + 1 \in T
  <2>1. SUFFICES ASSUME k + 1 <= n PROVE Shifted(h, g, d, k + 1)
    OBVIOUS
  <2>2. /\ k + 1 \in 1 .. n /\ k + 1 \in 0 .. n /\ k \in 0 .. n /\ (k + 1) + d \in 0 .. n + d
        /\ k + 1 # 0 /\ (k + 1) + d # 0 /\ (k + 1) - 1 = k /\ ((k + 1) + d) - 1 = k + d
    BY <2>1
  <2>3. h[k + d] = h[d] \o g[k]
    <3>1. Shifted(h, g, d, k)
      BY <1>4, <2>2
    <3>. QED BY <3>1 DEF Shifted
  <2>4. PICK x : x = q[(k + 1) + d]
    OBVIOUS
  <2>0. PICK y : y = t[k + 1]
    OBVIOUS
  <2>5. /\ h[(k + 1) + d] = IF x.func = f /\ x.buf \in P THEN Append(h[k + d], x.buf) ELSE h[k + d]
        /\ g[k + 1] = IF y.func = f /\ y.buf \in R THEN Append(g[k], y.buf) ELSE g[k]
    <3>1. /\ h[(k + 1) + d] = PickStep(q, f, P, h, (k + 1) + d)
          /\ g[k + 1] = PickStep(t, f, R, g, k + 1)
      BY <2>2 DEF Picking, Follows
    <3>2. PICK i : i = (k + 1) + d
      OBVIOUS
    <3>3. i # 0 /\ i - 1 = k + d
      BY <2>2, <3>2
    <3>4. h[i] = IF q[i].func = f /\ q[i].buf \in P THEN Append(h[i - 1], q[i].buf) ELSE h[i - 1]
      BY <3>1, <3>2, <3>3 DEF PickStep
    <3>5. h[(k + 1) + d] = IF x.func = f /\ x.buf \in P THEN Append(h[k + d], x.buf) ELSE h[k + d]
      BY <2>4, <3>2, <3>3, <3>4
    <3>6. g[k + 1] = IF y.func = f /\ y.buf \in R THEN Append(g[k], y.buf) ELSE g[k]
      BY <2>0, <2>2, <3>1 DEF PickStep
    <3>. QED BY <3>5, <3>6
  <2>6. x.func = f \/ y.func = f => x.func = f /\ y.func = f /\ x.buf = y.buf /\ (x.buf \in P <=> x.buf \in R)
    BY <2>0, <2>2, <2>4 DEF Aligned
  <2>7. CASE x.func = f /\ x.buf \in P
    <3>1. x.buf = y.buf /\ x.buf \in Buf /\ y.func = f /\ y.buf \in R
      BY <2>6, <2>7
    <3>2. PICK u \in Seq(Buf) : u = g[k]
      BY <1>2, <2>2
    <3>3. PICK a \in Seq(Buf) : a = h[d]
      BY <1>2
    <3>4. PICK z \in Buf : z = x.buf
      BY <3>1
    <3>5. a \o Append(u, z) = Append(a \o u, z)
      BY ConcatPut
    <3>. QED BY <2>3, <2>5, <2>7, <3>1, <3>2, <3>3, <3>4, <3>5 DEF Shifted
  <2>8. CASE ~(x.func = f /\ x.buf \in P)
    <3>1. ~(y.func = f /\ y.buf \in R)
      BY <2>6, <2>8
    <3>. QED BY <2>3, <2>5, <2>8, <3>1 DEF Shifted
  <2>. QED BY <2>7, <2>8
<1>5. Nat \subseteq T
  <2>. HIDE DEF T
  <2>. QED BY <1>3, <1>4, NatClosed
<1>6. Shifted(h, g, d, n)
  BY <1>5
<1>. QED BY <1>6 DEF Shifted, Joined

LEMMA PickedType ==
  ASSUME NEW S, NEW q \in Seq(S), NEW f, NEW P
  PROVE  Picked(q, f, P) \in Seq(P) /\ Picked(<< >>, f, P) = << >>
<1>1. PICK h : Picked(q, f, P) = h[Len(q)] /\ IsPicking(q, f, P, h, Len(q))
  BY PickedBy
<1>2. Len(q) \in 0 .. Len(q)
  BY LenProperties
<1>3. h[Len(q)] \in Seq(P)
  BY <1>1, <1>2 DEF IsPicking
<1>4. PICK o \in Seq(S) : o = << >> /\ Len(o) = 0
  BY EmptySeq
<1>5. PICK g : Picked(o, f, P) = g[Len(o)] /\ IsPicking(o, f, P, g, Len(o))
  BY PickedBy
<1>6. g[0] = << >>
  BY <1>4, <1>5 DEF IsPicking, Follows, PickStep
<1>. QED BY <1>1, <1>3, <1>4, <1>5, <1>6

LEMMA PickedSame ==
  ASSUME NEW S, NEW q \in Seq(S), NEW f, NEW P \in SUBSET Buf, NEW R \in SUBSET Buf,
         \A e \in Members(q) : e.func = f => (e.buf \in P <=> e.buf \in R)
  PROVE  Picked(q, f, P) = Picked(q, f, R)
<1>1. PICK h : Picked(q, f, P) = h[Len(q)] /\ IsPicking(q, f, P, h, Len(q))
  BY PickedBy
<1>2. PICK g : Picked(q, f, R) = g[Len(q)] /\ IsPicking(q, f, R, g, Len(q))
  BY PickedBy
<1>3. PICK n \in Nat : n = Len(q) /\ DOMAIN q = 1 .. n
  BY LenProperties
<1>4. n + 0 = n /\ \A k \in 1 .. n : k + 0 = k /\ q[k] \in Members(q)
  BY <1>3 DEF Members
<1>5. Picking(q, f, P, h, n) /\ Picking(q, f, R, g, n)
  BY <1>1, <1>2, <1>3, <1>4 DEF IsPicking, Picking
<1>6. Aligned(q, q, f, P, R, 0, n)
  BY <1>4 DEF Aligned
<1>7. h[n] = h[0] \o g[n]
  <2>1. Joined(h, g, 0, n, n)
    BY <1>3, <1>4, <1>5, <1>6, PickingShift
  <2>. QED BY <2>1 DEF Joined
<1>8. h[0] = << >> /\ g[n] \in Seq(R)
  BY <1>3, <1>5 DEF Picking, Follows, PickStep
<1>9. << >> \o g[n] = g[n]
  BY <1>8, ConcatEmptySeq
<1>. QED BY <1>1, <1>2, <1>3, <1>4, <1>7, <1>8, <1>9

LEMMA PickedPut ==
  ASSUME NEW S, NEW q \in Seq(S), NEW e \in S, NEW f, NEW P \in SUBSET Buf
  PROVE  Picked(Append(q, e), f, P) = IF e.func = f /\ e.buf \in P THEN Append(Picked(q, f, P), e.buf)
                           ELSE Picked(q, f, P)
<1>0. PICK p : p = Append(q, e)
  OBVIOUS
<1>1. PICK n \in Nat : n = Len(q) /\ DOMAIN q = 1 .. n
  BY LenProperties
<1>2. p \in Seq(S) /\ Len(p) = n + 1 /\ p[n + 1] = e /\ \A k \in 1 .. n : p[k] = q[k]
  BY <1>0, <1>1, AppendProperties
<1>3. PICK h : Picked(p, f, P) = h[n + 1] /\ IsPicking(p, f, P, h, n + 1)
  BY <1>2, PickedBy
<1>4. PICK g : Picked(q, f, P) = g[n] /\ IsPicking(q, f, P, g, n)
  BY <1>1, PickedBy
<1>5. n + 0 = n /\ (n + 1) - 1 = n /\ n + 1 # 0 /\ \A k \in 1 .. n : k + 0 = k
  OBVIOUS
<1>6. Picking(p, f, P, h, n) /\ Picking(q, f, P, g, n)
  BY <1>3, <1>4, <1>5 DEF IsPicking, Picking, Follows
<1>7. Aligned(p, q, f, P, P, 0, n)
  BY <1>2, <1>5 DEF Aligned
<1>8. h[n] = h[0] \o g[n]
  <2>1. Joined(h, g, 0, n, n)
    BY <1>1, <1>5, <1>6, <1>7, PickingShift
  <2>. QED BY <2>1 DEF Joined
<1>9. h[0] = << >> /\ g[n] \in Seq(P)
  BY <1>6 DEF Picking, Follows, PickStep
<1>10. h[n] = g[n]
  <2>1. << >> \o g[n] = g[n]
    BY <1>9, ConcatEmptySeq
  <2>. QED BY <1>5, <1>8, <1>9, <2>1
<1>11. h[n + 1] = PickStep(p, f, P, h, n + 1)
  BY <1>3 DEF IsPicking, Follows
<1>12. h[n + 1] = IF e.func = f /\ e.buf \in P THEN Append(h[n], e.buf) ELSE h[n]
  BY <1>2, <1>5, <1>11 DEF PickStep
<1>. QED BY <1>0, <1>3, <1>4, <1>10, <1>12

LEMMA PickedTook ==
  ASSUME NEW S, NEW q \in Seq(S), q # << >>, NEW f, NEW P \in SUBSET Buf
  PROVE  Picked(q, f, P) = IF Head(q).func = f /\ Head(q).buf \in P
                           THEN <<Head(q).buf>> \o Picked(Tail(q), f, P) ELSE Picked(Tail(q), f, P)
<1>1. PICK t : t = Tail(q)
  OBVIOUS
<1>2. t \in Seq(S) /\ Len(t) = Len(q) - 1 /\ \A k \in 1 .. Len(t) : t[k] = q[k + 1]
  BY <1>1, HeadTailProperties
<1>3. PICK n \in Nat : n = Len(t) /\ Len(q) = n + 1
  BY <1>2, EmptySeq
<1>4. PICK h : Picked(q, f, P) = h[n + 1] /\ IsPicking(q, f, P, h, n + 1)
  BY <1>3, PickedBy
<1>5. PICK g : Picked(t, f, P) = g[n] /\ IsPicking(t, f, P, g, n)
  BY <1>2, <1>3, PickedBy
<1>6. Picking(q, f, P, h, n + 1) /\ Picking(t, f, P, g, n)
  BY <1>4, <1>5 DEF IsPicking, Picking
<1>7. Aligned(q, t, f, P, P, 1, n)
  BY <1>2, <1>3 DEF Aligned
<1>8. h[n + 1] = h[1] \o g[n]
  <2>1. PICK m \in Nat : m = n + 1
    BY <1>3
  <2>2. Picking(q, f, P, h, m)
    BY <1>6, <2>1
  <2>3. Joined(h, g, 1, n, m)
    BY <1>3, <1>6, <1>7, <2>1, <2>2, PickingShift
  <2>. QED BY <2>1, <2>3 DEF Joined
<1>9. h[0] = << >> /\ h[1] = PickStep(q, f, P, h, 1) /\ g[n] \in Seq(P)
  BY <1>6 DEF Picking, Follows, PickStep
<1>10. PICK e : e = q[1] /\ e = Head(q)
  OBVIOUS
<1>11. h[1] = IF e.func = f /\ e.buf \in P THEN Append(<< >>, e.buf) ELSE << >>
  <2>1. h[1] = IF q[1].func = f /\ q[1].buf \in P THEN Append(h[0], q[1].buf) ELSE h[0]
    <3>1. PICK i : i = 1 /\ i # 0 /\ i - 1 = 0
      OBVIOUS
    <3>2. h[i] = PickStep(q, f, P, h, i)
      BY <1>9, <3>1
    <3>3. h[i] = IF q[i].func = f /\ q[i].buf \in P THEN Append(h[i - 1], q[i].buf) ELSE h[i - 1]
      BY <3>1, <3>2 DEF PickStep
    <3>. QED BY <3>1, <3>3
  <2>. QED BY <1>9, <1>10, <2>1
<1>12. CASE e.func = f /\ e.buf \in P
  <2>1. Append(<< >>, e.buf) = <<e.buf>>
    OBVIOUS
  <2>2. h[1] = <<e.buf>>
    BY <1>11, <1>12, <2>1
  <2>. QED BY <1>1, <1>4, <1>5, <1>8, <1>10, <1>12, <2>2
<1>13. CASE ~(e.func = f /\ e.buf \in P)
  <2>1. << >> \o g[n] = g[n]
    BY <1>9, ConcatEmptySeq
  <2>. QED BY <1>1, <1>4, <1>5, <1>8, <1>10, <1>11, <1>13, <2>1
<1>. QED BY <1>12, <1>13

-----------------------------------------------------------------------------
\* What is not confirmed yet is a sequence in three parts: confirms on their
\* way, the request in transmission, requests that wait for the transmitter.
LEMMA RequestWaits ==
  ASSUME NEW B, NEW a \in Seq(B), NEW t \in Seq(B), NEW w \in Seq(B), NEW b \in B
  PROVE  a \o t \o Append(w, b) = Append(a \o t \o w, b)
<1>1. PICK u \in Seq(B) : u = a \o t
  BY ConcatProperties
<1>2. u \o Append(w, b) = Append(u \o w, b)
  BY ConcatPut
<1>. QED BY <1>1, <1>2

LEMMA RequestSent ==
  ASSUME NEW B, NEW a \in Seq(B), NEW w \in Seq(B), NEW b \in B
  PROVE  a \o << >> \o (<<b>> \o w) = a \o <<b>> \o w
<1>1. PICK o \in Seq(B) : o = <<b>>
  <2>1. <<b>> \in Seq(B)
    OBVIOUS
  <2>. QED BY <2>1
<1>2. a \o << >> = a
  BY ConcatEmptySeq
<1>3. (a \o o) \o w = a \o (o \o w)
  BY ConcatAssociative
<1>. QED BY <1>1, <1>2, <1>3

LEMMA RequestConfirmed ==
  ASSUME NEW B, NEW a \in Seq(B), NEW w \in Seq(B), NEW b \in B
  PROVE  a \o <<b>> \o w = Append(a, b) \o << >> \o w
<1>1. Append(a, b) = a \o <<b>>
  BY AppendIsConcat
<1>2. PICK u \in Seq(B) : u = Append(a, b)
  BY AppendProperties
<1>3. u \o << >> = u
  BY ConcatEmptySeq
<1>. QED BY <1>1, <1>2, <1>3

Grouped(e, a, t, w) == e \o a \o t \o w = e \o (a \o t \o w)
LEMMA Regrouped ==
  ASSUME NEW B, NEW e \in Seq(B), NEW a \in Seq(B), NEW t \in Seq(B), NEW w \in Seq(B)
  PROVE  Grouped(e, a, t, w)
<1>1. (e \o a) \o t = e \o (a \o t)
  BY ConcatAssociative
<1>2. PICK u \in Seq(B) : u = a \o t
  BY ConcatProperties
<1>3. (e \o u) \o w = e \o (u \o w)
  BY ConcatAssociative
<1>4. (e \o (a \o t)) \o w = e \o ((a \o t) \o w)
  BY <1>2, <1>3, Zenon
<1>. QED BY <1>1, <1>4, Zenon DEF Grouped

LEMMA ConfirmTaken ==
  ASSUME NEW B, NEW e \in Seq(B), NEW r \in Seq(B), NEW b, Len(e) = 1, e[1] = b
  PROVE  e \o r # << >> /\ Head(e \o r) = b /\ Tail(e \o r) = r
<1>1. PICK o : o = e \o r
  OBVIOUS
<1>2. /\ o \in Seq(B) /\ Len(o) = 1 + Len(r)
      /\ \A i \in 1 .. 1 + Len(r) : o[i] = IF i <= 1 THEN e[i] ELSE r[i - 1]
  <2>1. /\ e \o r \in Seq(B) /\ Len(e \o r) = Len(e) + Len(r)
        /\ \A i \in 1 .. Len(e) + Len(r) : (e \o r)[i] = IF i <= Len(e) THEN e[i] ELSE r[i - Len(e)]
    BY ConcatProperties
  <2>. QED BY <1>1, <2>1
<1>3. Len(r) \in Nat /\ o # << >>
  BY <1>2, LenProperties, EmptySeq
<1>4. Head(o) = o[1] /\ o[1] = b
  BY <1>2, <1>3
<1>5. /\ Tail(o) \in Seq(B) /\ Len(Tail(o)) = Len(r)
      /\ \A i \in 1 .. Len(r) : Tail(o)[i] = o[i + 1]
  BY <1>2, <1>3, HeadTailProperties
<1>6. \A i \in 1 .. Len(r) : o[i + 1] = r[i]
  BY <1>2, <1>3
<1>7. Tail(o) = r
  <2>1. \A i \in 1 .. Len(r) : Tail(o)[i] = r[i]
    BY <1>5, <1>6
  <2>2. PICK z \in Seq(B) : z = Tail(o) /\ Len(z) = Len(r)
    BY <1>5
  <2>. QED BY <2>1, <2>2, SeqEqual
<1>. QED BY <1>1, <1>3, <1>4, <1>7

-----------------------------------------------------------------------------
(* The inductive invariant.  Types, stronger than TypeOK.                  *)
CbRefs == [func : Callbacks, buf : Buf]
TxRefs == [func : TxCallbacks, buf : Buf \cup {NONE}]
FlagSets == SUBSET {"indirect", "pendData", "ass", "poll"}
TimerSets == SUBSET {"resp", "indirect_ass", "indirect_poll"}
Typed ==
  /\ role \in Roles /\ content \in [Buf -> Contents]
  /\ cbq \in Seq(CbRefs) /\ txq \in Seq(TxRefs)
  /\ txWait \in [func : {"idle", "data_continue", "data_request_continue", "association_continue"},
                 buf : Buf \cup {NONE}]
  /\ txCnt \in BOOLEAN /\ onAir \in 0 .. MaxOnAir
  /\ pendingBuf \in Buf \cup {NONE} /\ bufRef \in Buf \cup {NONE}
  /\ slots \in [Slot -> [buf : Buf \cup {NONE}, dst : Peer \cup {NONE}]]
  /\ dataReq \in [slot : Slot, buf : Buf \cup {NONE}]
  /\ outq \subseteq Buf /\ asked \in Seq(Buf)
  /\ flags \in FlagSets /\ timers \in TimerSets
  /\ caller \in {"idle", "ass", "poll"}
  /\ upper \in [assoc : {"joined", "scanned", "asked", "failed"}, polling : BOOLEAN, buf : Buf \cup {NONE}]
  /\ fault \in BOOLEAN

(* What the buffers in each place hold.                                    *)
CbqKind == \A e \in Members(cbq) : content[e.buf].type # "assocReq"
Fits(e) ==
  /\ e.buf = NONE <=> e.func = "beacon_req"
  /\ e.buf # NONE => (content[e.buf].type = "assocReq" <=> e.func = "association_req")
  /\ e.func = "mcps_data_req" => content[e.buf].type \in {"direct", "indirect"}
  /\ e.func = "poll_request" => content[e.buf].type = "poll"
TxqKind == \A e \in Members(txq) : Fits(e)
SentKind ==
  /\ txWait.func = "data_continue" => txWait.buf \in Buf /\ content[txWait.buf].type = "direct"
  /\ txWait.func = "data_request_continue" => dataReq.buf \in Buf
SlotKind ==
  \A s \in Slot : slots[s] # EmptySlot =>
     slots[s].buf \in Buf /\ content[slots[s].buf].type \in {"indirect", "assocResp"}
OutKind == \A b \in outq : content[b].type = "indirect"
PollKept == bufRef # NONE /\ ("poll" \in flags \/ "indirect_ass" \in timers \/ "indirect_poll" \in timers)
PollKind == PollKept => content[bufRef].type = "poll"
AboveKind ==
  /\ upper.buf # NONE <=> upper.assoc = "scanned"
  /\ upper.buf # NONE => content[upper.buf].type = "assocReq"
Kinds == CbqKind /\ TxqKind /\ SentKind /\ SlotKind /\ OutKind /\ PollKind /\ AboveKind

(* How often a buffer is used: Holders, the buffer a poll or an indirect   *)
(* wait keeps, and the one an association request waits for.               *)
Awaited(b) == pendingBuf = b /\ content[b].type = "assocReq"
              /\ (txWait.func = "association_continue" \/ "resp" \in timers)
Uses(b) ==
  Has(cbq, b) + Has(txq, b) + InSlots(slots, b)
  + (IF txWait.func = "data_continue" /\ txWait.buf = b THEN 1 ELSE 0)
  + (IF b \in outq THEN 1 ELSE 0)
  + (IF PollKept /\ bufRef = b THEN 1 ELSE 0)
  + (IF upper.buf = b THEN 1 ELSE 0)
  + (IF Awaited(b) THEN 1 ELSE 0)
UsedOnce == \A b \in Buf : Uses(b) <= (IF content[b].type = "free" THEN 0 ELSE 1)

(* The association of the child side: one request at a time, and nothing   *)
(* of an earlier one is left when a request is made.                       *)
Confirms == {e \in CbRefs : e.func = "associate_confirm"}
Failing == {e \in Confirms : content[e.buf].type # "assocOk"}
Queued == \E e \in Members(txq) : e.func = "association_req"
Asking == Queued \/ txWait.func = "association_continue" \/ "resp" \in timers
Owed == "ass" \in flags \/ "indirect_ass" \in timers \/ caller = "ass"
OneRequest ==
  /\ \A e, f \in Members(txq) : e.func = "association_req" /\ f.func = "association_req" => e = f
  /\ Queued => txWait.func # "association_continue" /\ "resp" \notin timers
  /\ txWait.func = "association_continue" => "resp" \notin timers
NothingLeft ==
  /\ Asking => upper.assoc = "asked"
  /\ Asking \/ upper.assoc \in {"scanned", "failed"} => ~Owed /\ \A e \in Members(cbq) : e \notin Confirms
FailureLast ==
  /\ ~("indirect_ass" \in timers /\ caller = "ass")
  /\ (\E e \in Members(cbq) : e \in Failing) => ~Owed
  /\ Closing(cbq, Failing, Confirms)
Associating == OneRequest /\ NothingLeft /\ FailureLast

Ordered == asked = Picked(cbq, "data_confirm", Direct) \o Transmitting \o Picked(txq, "mcps_data_req", Direct)
Sound == Kinds /\ UsedOnce /\ Associating /\ Ordered
MacInv == Typed /\ SlotsGuarded /\ (fault \/ Sound)

-----------------------------------------------------------------------------
\* Where a buffer is not.
Off(q, b) == \A e \in Members(q) : e.buf # b
Aside(b) ==
  /\ \A s \in Slot : slots[s].buf # b
  /\ ~(txWait.func = "data_continue" /\ txWait.buf = b)
  /\ b \notin outq /\ ~(PollKept /\ bufRef = b) /\ upper.buf # b
Apart(b) == Aside(b) /\ ~Awaited(b)

LEMMA UsesFacts ==
  ASSUME Typed, UsedOnce, NEW b \in Buf
  PROVE  /\ Has(cbq, b) \in Nat /\ (Has(cbq, b) = 0 <=> Off(cbq, b))
         /\ Has(txq, b) \in Nat /\ (Has(txq, b) = 0 <=> Off(txq, b))
         /\ InSlots(slots, b) \in Nat /\ (InSlots(slots, b) = 0 <=> \A s \in Slot : slots[s].buf # b)
         /\ Uses(b) \in {0, 1} /\ (content[b].type = "free" => Uses(b) = 0)
<1>1. /\ Has(cbq, b) \in Nat /\ (Has(cbq, b) = 0 <=> Off(cbq, b))
      /\ Has(txq, b) \in Nat /\ (Has(txq, b) = 0 <=> Off(txq, b))
  <2>1. cbq \in Seq(CbRefs) /\ txq \in Seq(TxRefs)
    BY DEF Typed
  <2>. QED BY <2>1, HasFacts DEF Off
<1>2. InSlots(slots, b) \in Nat /\ (InSlots(slots, b) = 0 <=> \A s \in Slot : slots[s].buf # b)
  BY SlotFacts
<1>3. Uses(b) \in Nat
  BY <1>1, <1>2 DEF Uses
<1>4. Uses(b) <= (IF content[b].type = "free" THEN 0 ELSE 1)
  BY DEF UsedOnce
<1>. QED BY <1>1, <1>2, <1>3, <1>4

\* A free buffer is nowhere.
LEMMA Unused ==
  ASSUME Typed, UsedOnce, NEW b \in Buf, content[b].type = "free"
  PROVE  Off(cbq, b) /\ Off(txq, b) /\ Apart(b) /\ Has(cbq, b) = 0 /\ Has(txq, b) = 0
         /\ InSlots(slots, b) = 0
<1>1. Uses(b) = 0
  BY UsesFacts
<1>2. /\ Has(cbq, b) = 0 /\ Has(txq, b) = 0 /\ InSlots(slots, b) = 0
      /\ ~(txWait.func = "data_continue" /\ txWait.buf = b)
      /\ b \notin outq /\ ~(PollKept /\ bufRef = b) /\ upper.buf # b /\ ~Awaited(b)
  <2>1. Has(cbq, b) \in Nat /\ Has(txq, b) \in Nat /\ InSlots(slots, b) \in Nat /\ ~(Uses(b) >= 1)
    BY <1>1, UsesFacts
  <2>. QED BY <2>1 DEF Uses
<1>. QED BY <1>2, UsesFacts DEF Apart, Aside

\* The buffer of the next callback is nowhere else.
LEMMA AtHead ==
  ASSUME Typed, UsedOnce, cbq # << >>, NEW b, b = Head(cbq).buf
  PROVE  /\ b \in Buf /\ content[b].type # "free"
         /\ Off(Tail(cbq), b) /\ Off(txq, b) /\ Apart(b)
         /\ Has(cbq, b) = 1 /\ Has(Tail(cbq), b) = 0 /\ Has(txq, b) = 0 /\ InSlots(slots, b) = 0
<1>1. cbq \in Seq(CbRefs)
  BY DEF Typed
<1>2. /\ Head(cbq) \in CbRefs /\ Tail(cbq) \in Seq(CbRefs)
      /\ Has(cbq, b) = Has(Tail(cbq), b) + (IF Head(cbq).buf = b THEN 1 ELSE 0)
  BY <1>1, TookFacts
<1>3. Has(Tail(cbq), b) \in Nat /\ (Has(Tail(cbq), b) = 0 <=> Off(Tail(cbq), b))
  BY <1>2, HasFacts DEF Off
<1>4. b \in Buf
  BY <1>2 DEF CbRefs
<1>5. Has(cbq, b) >= 1
  BY <1>2, <1>3
<1>6. /\ content[b].type # "free" /\ Has(cbq, b) = 1 /\ Has(txq, b) = 0 /\ InSlots(slots, b) = 0
      /\ ~(txWait.func = "data_continue" /\ txWait.buf = b)
      /\ b \notin outq /\ ~(PollKept /\ bufRef = b) /\ upper.buf # b /\ ~Awaited(b)
  BY <1>4, <1>5, UsesFacts DEF Uses
<1>7. Has(Tail(cbq), b) = 0
  BY <1>2, <1>3, <1>6
<1>. QED BY <1>3, <1>4, <1>6, <1>7, UsesFacts DEF Apart, Aside

\* Nor is the buffer of the next transmission.
LEMMA AtTxHead ==
  ASSUME Typed, UsedOnce, txq # << >>, NEW b \in Buf, b = Head(txq).buf
  PROVE  /\ content[b].type # "free"
         /\ Off(cbq, b) /\ Off(Tail(txq), b) /\ Apart(b)
         /\ Has(cbq, b) = 0 /\ Has(txq, b) = 1 /\ Has(Tail(txq), b) = 0 /\ InSlots(slots, b) = 0
<1>1. txq \in Seq(TxRefs)
  BY DEF Typed
<1>2. /\ Tail(txq) \in Seq(TxRefs)
      /\ Has(txq, b) = Has(Tail(txq), b) + (IF Head(txq).buf = b THEN 1 ELSE 0)
  BY <1>1, TookFacts
<1>3. Has(Tail(txq), b) \in Nat /\ (Has(Tail(txq), b) = 0 <=> Off(Tail(txq), b))
  BY <1>2, HasFacts DEF Off
<1>5. Has(txq, b) >= 1
  BY <1>2, <1>3
<1>6. /\ content[b].type # "free" /\ Has(txq, b) = 1 /\ Has(cbq, b) = 0 /\ InSlots(slots, b) = 0
      /\ ~(txWait.func = "data_continue" /\ txWait.buf = b)
      /\ b \notin outq /\ ~(PollKept /\ bufRef = b) /\ upper.buf # b /\ ~Awaited(b)
  BY <1>5, UsesFacts DEF Uses
<1>7. Has(Tail(txq), b) = 0
  BY <1>2, <1>3, <1>6
<1>. QED BY <1>3, <1>6, <1>7, UsesFacts DEF Apart, Aside

-----------------------------------------------------------------------------
\* A step that neither makes, sends nor confirms a direct request.
LEMMA OrderKept ==
  ASSUME Ordered, cbq' \in Seq(CbRefs), txq' \in Seq(TxRefs), asked' = asked,
         Transmitting' = Transmitting,
         Picked(cbq', "data_confirm", Direct) = Picked(cbq, "data_confirm", Direct),
         Picked(txq', "mcps_data_req", Direct) = Picked(txq, "mcps_data_req", Direct),
         \A e \in Members(cbq') : e.func = "data_confirm" => (e.buf \in Direct <=> e.buf \in Direct'),
         \A e \in Members(txq') : e.func = "mcps_data_req" => (e.buf \in Direct <=> e.buf \in Direct')
  PROVE  Ordered'
<1>1. Direct \in SUBSET Buf /\ Direct' \in SUBSET Buf
  BY DEF Direct, Buf
<1>2. Picked(cbq', "data_confirm", Direct) = Picked(cbq', "data_confirm", Direct')
  BY <1>1, PickedSame
<1>3. Picked(txq', "mcps_data_req", Direct) = Picked(txq', "mcps_data_req", Direct')
  BY <1>1, PickedSame
<1>. QED BY <1>2, <1>3 DEF Ordered

\* The content of one buffer changes.
ContentTypes == Requests \cup ParentFrames \cup ChildFrames \cup {"free", "assocOk", "assocFail"}
LEMMA ContentFilled ==
  ASSUME Typed, NEW b \in Buf, NEW t \in ContentTypes, NEW p \in Peer \cup {NONE},
         content' = Filled(content, b, t, p)
  PROVE  /\ content' \in [Buf -> Contents] /\ content'[b].type = t
         /\ \A x \in Buf : x # b => content'[x] = content[x]
<1>1. PICK v \in Contents : v = [type |-> t, peer |-> p] /\ v.type = t
  <2>1. [type |-> t, peer |-> p] \in Contents
    BY DEF Contents, ContentTypes
  <2>. QED BY <2>1
<1>2. content \in [Buf -> Contents] /\ content' = [content EXCEPT ![b] = v]
  BY <1>1 DEF Typed, Filled
<1>. QED BY <1>1, <1>2

LEMMA ContentReleased ==
  ASSUME Typed, NEW b \in Buf, content' = Released(content, b)
  PROVE  /\ content' \in [Buf -> Contents] /\ content'[b].type = "free"
         /\ \A x \in Buf : x # b => content'[x] = content[x]
<1>1. PICK v \in Contents : v = Free /\ v.type = "free"
  <2>1. Free \in Contents /\ Free.type = "free"
    BY DEF Contents, Free
  <2>. QED BY <2>1
<1>2. content \in [Buf -> Contents] /\ content' = [content EXCEPT ![b] = v]
  BY <1>1 DEF Typed, Released
<1>. QED BY <1>1, <1>2

\* Scheduling and taking callbacks.
LEMMA CbqPut ==
  ASSUME Typed, NEW f \in Callbacks, NEW b \in Buf, NEW e, e = Ref(f, b), cbq' = Append(cbq, e)
  PROVE  /\ e \in CbRefs /\ e.func = f /\ e.buf = b /\ cbq' \in Seq(CbRefs)
         /\ Members(cbq') = Members(cbq) \cup {e}
         /\ \A x : Has(cbq', x) = Has(cbq, x) + (IF b = x THEN 1 ELSE 0)
         /\ \A c : \A P \in SUBSET Buf : Picked(cbq', c, P) = IF f = c /\ b \in P THEN Append(Picked(cbq, c, P), b)
                                                          ELSE Picked(cbq, c, P)
<1>1. e \in CbRefs /\ e.func = f /\ e.buf = b
  BY DEF CbRefs, Ref
<1>2. cbq \in Seq(CbRefs)
  BY DEF Typed
<1>3. /\ cbq' \in Seq(CbRefs) /\ Members(cbq') = Members(cbq) \cup {e}
      /\ \A x : Has(cbq', x) = Has(cbq, x) + (IF e.buf = x THEN 1 ELSE 0)
  BY <1>1, <1>2, PutFacts
<1>4. ASSUME NEW c, NEW P \in SUBSET Buf
      PROVE  Picked(cbq', c, P) = IF e.func = c /\ e.buf \in P THEN Append(Picked(cbq, c, P), e.buf)
                                  ELSE Picked(cbq, c, P)
  BY <1>1, <1>2, PickedPut
<1>. QED BY <1>1, <1>3, <1>4

LEMMA CbqTook ==
  ASSUME Typed, cbq # << >>, cbq' = Tail(cbq), NEW h, h = Head(cbq)
  PROVE  /\ h \in CbRefs /\ cbq' \in Seq(CbRefs)
         /\ Members(cbq) = {h} \cup Members(cbq')
         /\ \A x : Has(cbq, x) = Has(cbq', x) + (IF h.buf = x THEN 1 ELSE 0)
         /\ \A c : \A P \in SUBSET Buf : Picked(cbq, c, P) = IF h.func = c /\ h.buf \in P
                                                         THEN <<h.buf>> \o Picked(cbq', c, P) ELSE Picked(cbq', c, P)
<1>1. cbq \in Seq(CbRefs)
  BY DEF Typed
<1>2. /\ h \in CbRefs /\ cbq' \in Seq(CbRefs)
      /\ Members(cbq) = {h} \cup Members(cbq')
      /\ \A x : Has(cbq, x) = Has(cbq', x) + (IF h.buf = x THEN 1 ELSE 0)
  BY <1>1, TookFacts
<1>3. ASSUME NEW c, NEW P \in SUBSET Buf
      PROVE  Picked(cbq, c, P) = IF h.func = c /\ h.buf \in P
                                 THEN <<h.buf>> \o Picked(cbq', c, P) ELSE Picked(cbq', c, P)
  BY <1>1, PickedTook
<1>. QED BY <1>2, <1>3

\* Queueing for the transmitter, and taking the next transmit callback.
LEMMA TxqPut ==
  ASSUME Typed, NEW f \in TxCallbacks, NEW b \in Buf \cup {NONE}, NEW e, e = Ref(f, b), txq' = Append(txq, e)
  PROVE  /\ e \in TxRefs /\ e.func = f /\ e.buf = b /\ txq' \in Seq(TxRefs)
         /\ Members(txq') = Members(txq) \cup {e}
         /\ \A x : Has(txq', x) = Has(txq, x) + (IF b = x THEN 1 ELSE 0)
         /\ \A c : \A P \in SUBSET Buf : Picked(txq', c, P) = IF f = c /\ b \in P THEN Append(Picked(txq, c, P), b)
                                                          ELSE Picked(txq, c, P)
<1>1. e \in TxRefs /\ e.func = f /\ e.buf = b
  BY DEF TxRefs, Ref
<1>2. txq \in Seq(TxRefs)
  BY DEF Typed
<1>3. /\ txq' \in Seq(TxRefs) /\ Members(txq') = Members(txq) \cup {e}
      /\ \A x : Has(txq', x) = Has(txq, x) + (IF e.buf = x THEN 1 ELSE 0)
  BY <1>1, <1>2, PutFacts
<1>4. ASSUME NEW c, NEW P \in SUBSET Buf
      PROVE  Picked(txq', c, P) = IF e.func = c /\ e.buf \in P THEN Append(Picked(txq, c, P), e.buf)
                                  ELSE Picked(txq, c, P)
  BY <1>1, <1>2, PickedPut
<1>. QED BY <1>1, <1>3, <1>4

LEMMA TxqTook ==
  ASSUME Typed, txq # << >>, txq' = Tail(txq), NEW h, h = Head(txq)
  PROVE  /\ h \in TxRefs /\ txq' \in Seq(TxRefs)
         /\ Members(txq) = {h} \cup Members(txq')
         /\ \A x : Has(txq, x) = Has(txq', x) + (IF h.buf = x THEN 1 ELSE 0)
         /\ \A c : \A P \in SUBSET Buf : Picked(txq, c, P) = IF h.func = c /\ h.buf \in P
                                                         THEN <<h.buf>> \o Picked(txq', c, P) ELSE Picked(txq', c, P)
<1>1. txq \in Seq(TxRefs)
  BY DEF Typed
<1>2. /\ h \in TxRefs /\ txq' \in Seq(TxRefs)
      /\ Members(txq) = {h} \cup Members(txq')
      /\ \A x : Has(txq, x) = Has(txq', x) + (IF h.buf = x THEN 1 ELSE 0)
  BY <1>1, TookFacts
<1>3. ASSUME NEW c, NEW P \in SUBSET Buf
      PROVE  Picked(txq, c, P) = IF h.func = c /\ h.buf \in P
                                 THEN <<h.buf>> \o Picked(txq', c, P) ELSE Picked(txq', c, P)
  BY <1>1, PickedTook
<1>. QED BY <1>2, <1>3

\* Writing a slot.
SlotValues == [buf : Buf \cup {NONE}, dst : Peer \cup {NONE}]
SlotStored(s, v) ==
  /\ slots'[s] = v /\ \A t \in Slot : t # s => slots'[t] = slots[t]
  /\ \A b : InSlots(slots', b) = InSlots(slots, b) - (IF slots[s].buf = b THEN 1 ELSE 0)
                                                   + (IF v.buf = b THEN 1 ELSE 0)
LEMMA SlotSet ==
  ASSUME Typed, NEW s \in Slot, NEW v \in SlotValues, slots' = [slots EXCEPT ![s] = v]
  PROVE  slots' \in [Slot -> SlotValues] /\ SlotStored(s, v)
<1>1. slots \in [Slot -> SlotValues]
  BY DEF Typed, SlotValues
<1>2. \A b : InSlots(slots', b) = InSlots(slots, b) - (IF slots[s].buf = b THEN 1 ELSE 0)
                                                    + (IF v.buf = b THEN 1 ELSE 0)
  <2>1. \A b : InSlots(Written(slots, s, v), b) = InSlots(slots, b) - (IF slots[s].buf = b THEN 1 ELSE 0)
                                                                  + (IF v.buf = b THEN 1 ELSE 0)
    BY <1>1, SlotWritten
  <2>2. slots' = Written(slots, s, v)
    BY DEF Written
  <2>. QED BY <2>1, <2>2, Zenon
<1>3. slots' \in [Slot -> SlotValues] /\ slots'[s] = v /\ \A t \in Slot : t # s => slots'[t] = slots[t]
  BY <1>1
<1>. QED BY <1>2, <1>3, Zenon DEF SlotStored

LEMMA SlotCleared ==
  ASSUME Typed, NEW s \in Slot, ClearSlot(s)
  PROVE  /\ slots'[s] = EmptySlot /\ \A t \in Slot : t # s => slots'[t] = slots[t]
         /\ \A b \in Buf : InSlots(slots', b) = InSlots(slots, b) - (IF slots[s].buf = b THEN 1 ELSE 0)
<1>1. PICK v \in SlotValues : v = EmptySlot /\ v.buf = NONE
  <2>1. EmptySlot \in SlotValues /\ EmptySlot.buf = NONE
    BY DEF EmptySlot, SlotValues
  <2>. QED BY <2>1
<1>2. slots' = [slots EXCEPT ![s] = v]
  BY <1>1 DEF ClearSlot
<1>s. SlotStored(s, v)
  BY <1>2, SlotSet
<1>3. /\ slots'[s] = v /\ \A t \in Slot : t # s => slots'[t] = slots[t]
      /\ \A b : InSlots(slots', b) = InSlots(slots, b) - (IF slots[s].buf = b THEN 1 ELSE 0)
                                                       + (IF v.buf = b THEN 1 ELSE 0)
  BY <1>s, Zenon DEF SlotStored
<1>4. ASSUME NEW b \in Buf
      PROVE  InSlots(slots', b) = InSlots(slots, b) - (IF slots[s].buf = b THEN 1 ELSE 0)
  <2>1. v.buf # b /\ InSlots(slots, b) \in Nat
    BY <1>1, SlotFacts DEF NONE, Buf
  <2>2. InSlots(slots', b) = InSlots(slots, b) - (IF slots[s].buf = b THEN 1 ELSE 0) + 0
    BY <1>3, <2>1
  <2>. QED BY <2>1, <2>2
<1>. QED BY <1>1, <1>3, <1>4

\* Places that a step leaves alone, when the buffers whose content it changes
\* are not in them.
LEMMA PlacesKept ==
  ASSUME Typed, Kinds, \A x \in Buf : content'[x] = content[x] \/ Aside(x),
         UNCHANGED <<txWait, dataReq, slots, outq>>
  PROVE  SentKind' /\ SlotKind' /\ OutKind'
<1>1. SentKind'
  BY DEF Kinds, SentKind, Aside
<1>2. SlotKind'
  BY DEF Kinds, SlotKind, Aside
<1>3. OutKind'
  BY DEF Kinds, OutKind, Aside, Typed
<1>. QED BY <1>1, <1>2, <1>3

LEMMA PollKindKept ==
  ASSUME Typed, Kinds, \A x \in Buf : content'[x] = content[x] \/ Aside(x),
         bufRef' = bufRef, PollKept' => PollKept
  PROVE  PollKind'
BY DEF Kinds, PollKind, PollKept, Aside, Typed

LEMMA AboveKindKept ==
  ASSUME Typed, Kinds, \A x \in Buf : content'[x] = content[x] \/ Aside(x),
         upper'.buf = upper.buf, upper'.assoc = "scanned" <=> upper.assoc = "scanned"
  PROVE  AboveKind'
<1>1. upper.buf \in Buf \cup {NONE}
  BY DEF Typed
<1>. QED BY <1>1 DEF Kinds, AboveKind, Aside
-----------------------------------------------------------------------------
\* A buffer in one place is in no other.
LEMMA InSlot ==
  ASSUME Typed, UsedOnce, NEW s \in Slot, NEW b \in Buf, slots[s].buf = b
  PROVE  /\ content[b].type # "free" /\ Off(cbq, b) /\ Off(txq, b)
         /\ Has(cbq, b) = 0 /\ Has(txq, b) = 0 /\ InSlots(slots, b) = 1
         /\ ~(txWait.func = "data_continue" /\ txWait.buf = b)
         /\ b \notin outq /\ ~(PollKept /\ bufRef = b) /\ upper.buf # b /\ ~Awaited(b)
<1>1. /\ Has(cbq, b) \in Nat /\ Has(txq, b) \in Nat /\ InSlots(slots, b) \in Nat \ {0}
      /\ ~(Uses(b) >= 2) /\ (content[b].type = "free" => ~(Uses(b) >= 1))
  BY UsesFacts
<1>2. /\ content[b].type # "free"
      /\ Has(cbq, b) = 0 /\ Has(txq, b) = 0 /\ InSlots(slots, b) = 1
      /\ ~(txWait.func = "data_continue" /\ txWait.buf = b)
      /\ b \notin outq /\ ~(PollKept /\ bufRef = b) /\ upper.buf # b /\ ~Awaited(b)
  BY <1>1 DEF Uses
<1>. QED BY <1>2, UsesFacts

LEMMA InTransmission ==
  ASSUME Typed, UsedOnce, NEW b \in Buf, txWait.func = "data_continue", txWait.buf = b
  PROVE  /\ content[b].type # "free" /\ Off(cbq, b) /\ Off(txq, b)
         /\ Has(cbq, b) = 0 /\ Has(txq, b) = 0 /\ InSlots(slots, b) = 0
         /\ b \notin outq /\ ~(PollKept /\ bufRef = b) /\ upper.buf # b /\ ~Awaited(b)
<1>1. /\ Has(cbq, b) \in Nat /\ Has(txq, b) \in Nat /\ InSlots(slots, b) \in Nat
      /\ ~(Uses(b) >= 2) /\ (content[b].type = "free" => ~(Uses(b) >= 1))
  BY UsesFacts
<1>2. /\ content[b].type # "free"
      /\ Has(cbq, b) = 0 /\ Has(txq, b) = 0 /\ InSlots(slots, b) = 0
      /\ b \notin outq /\ ~(PollKept /\ bufRef = b) /\ upper.buf # b /\ ~Awaited(b)
  BY <1>1 DEF Uses
<1>. QED BY <1>2, UsesFacts

LEMMA KeptForPoll ==
  ASSUME Typed, UsedOnce, NEW b \in Buf, PollKept, bufRef = b
  PROVE  /\ content[b].type # "free" /\ Off(cbq, b) /\ Off(txq, b)
         /\ Has(cbq, b) = 0 /\ Has(txq, b) = 0 /\ InSlots(slots, b) = 0
         /\ ~(txWait.func = "data_continue" /\ txWait.buf = b)
         /\ b \notin outq /\ upper.buf # b /\ ~Awaited(b)
<1>1. /\ Has(cbq, b) \in Nat /\ Has(txq, b) \in Nat /\ InSlots(slots, b) \in Nat
      /\ ~(Uses(b) >= 2) /\ (content[b].type = "free" => ~(Uses(b) >= 1))
  BY UsesFacts
<1>2. /\ content[b].type # "free"
      /\ Has(cbq, b) = 0 /\ Has(txq, b) = 0 /\ InSlots(slots, b) = 0
      /\ ~(txWait.func = "data_continue" /\ txWait.buf = b)
      /\ b \notin outq /\ upper.buf # b /\ ~Awaited(b)
  BY <1>1 DEF Uses
<1>. QED BY <1>2, UsesFacts

LEMMA HeldAbove ==
  ASSUME Typed, UsedOnce, NEW b \in Buf, upper.buf = b
  PROVE  /\ content[b].type # "free" /\ Off(cbq, b) /\ Off(txq, b)
         /\ Has(cbq, b) = 0 /\ Has(txq, b) = 0 /\ InSlots(slots, b) = 0
         /\ ~(txWait.func = "data_continue" /\ txWait.buf = b)
         /\ b \notin outq /\ ~(PollKept /\ bufRef = b) /\ ~Awaited(b)
<1>1. /\ Has(cbq, b) \in Nat /\ Has(txq, b) \in Nat /\ InSlots(slots, b) \in Nat
      /\ ~(Uses(b) >= 2) /\ (content[b].type = "free" => ~(Uses(b) >= 1))
  BY UsesFacts
<1>2. /\ content[b].type # "free"
      /\ Has(cbq, b) = 0 /\ Has(txq, b) = 0 /\ InSlots(slots, b) = 0
      /\ ~(txWait.func = "data_continue" /\ txWait.buf = b)
      /\ b \notin outq /\ ~(PollKept /\ bufRef = b) /\ ~Awaited(b)
  BY <1>1 DEF Uses
<1>. QED BY <1>2, UsesFacts

LEMMA AwaitedAside ==
  ASSUME Typed, UsedOnce, NEW b \in Buf, Awaited(b)
  PROVE  /\ content[b].type # "free" /\ Off(cbq, b) /\ Off(txq, b) /\ Aside(b)
         /\ Has(cbq, b) = 0 /\ Has(txq, b) = 0 /\ InSlots(slots, b) = 0
<1>1. /\ Has(cbq, b) \in Nat /\ Has(txq, b) \in Nat /\ InSlots(slots, b) \in Nat
      /\ ~(Uses(b) >= 2) /\ (content[b].type = "free" => ~(Uses(b) >= 1))
  BY UsesFacts
<1>2. /\ content[b].type # "free"
      /\ Has(cbq, b) = 0 /\ Has(txq, b) = 0 /\ InSlots(slots, b) = 0
      /\ ~(txWait.func = "data_continue" /\ txWait.buf = b)
      /\ b \notin outq /\ ~(PollKept /\ bufRef = b) /\ upper.buf # b
  BY <1>1 DEF Uses
<1>. QED BY <1>2, UsesFacts DEF Aside

\* FirstSlot, and what a cleared and a filled slot do to the alarms.
LEMMA FirstSlotIn ==
  ASSUME NEW S \in SUBSET Slot, S # {}
  PROVE  FirstSlot(S) \in S
<1>1. S \in SUBSET Nat
  BY MacAssumption DEF Slot
<1>2. \E s \in S : \A t \in S : s <= t
  BY <1>1, LeastElement
<1>. QED BY <1>2 DEF FirstSlot

LEMMA ClearedGuarded ==
  ASSUME Typed, SlotsGuarded, NEW s \in Slot, ClearSlot(s)
  PROVE  SlotsGuarded' /\ EmptySlot \in SlotValues
<1>1. /\ slots'[s] = EmptySlot /\ \A t \in Slot : t # s => slots'[t] = slots[t]
  BY DEF Typed, ClearSlot
<1>2. slotAlarm' = slotAlarm \ {s}
  BY DEF ClearSlot
<1>3. slotAlarm = {t \in Slot : slots[t] # EmptySlot} /\ (pendingBit <=> slotAlarm # {})
  BY DEF SlotsGuarded
<1>4. slotAlarm' = {t \in Slot : slots'[t] # EmptySlot}
  BY <1>1, <1>2, <1>3
<1>5. pendingBit' <=> (slotAlarm' # {})
  <2>1. slotAlarm' # {} <=> \E t \in Slot \ {s} : slots[t] # EmptySlot
    BY <1>2, <1>3
  <2>2. pendingBit' <=> pendingBit /\ \E t \in Slot \ {s} : slots[t] # EmptySlot
    BY DEF ClearSlot
  <2>3. (\E t \in Slot \ {s} : slots[t] # EmptySlot) => pendingBit
    BY <1>3
  <2>. QED BY <2>1, <2>2, <2>3, Zenon
<1>6. EmptySlot \in SlotValues
  BY DEF EmptySlot, SlotValues
<1>. QED BY <1>4, <1>5, <1>6 DEF SlotsGuarded

LEMMA FilledGuarded ==
  ASSUME Typed, SlotsGuarded, NEW b \in Buf, NEW p \in Peer \cup {NONE}, PutDataToPendingQueue(b, p)
  PROVE  /\ SlotsGuarded'
         /\ IF FreeSlots = {} THEN slots' = slots
            ELSE \E s \in Slot, v \in SlotValues : /\ slots[s] = EmptySlot /\ slots' = [slots EXCEPT ![s] = v]
                                                   /\ v.buf = b
<1>1. slotAlarm = {t \in Slot : slots[t] # EmptySlot} /\ (pendingBit <=> slotAlarm # {})
  BY DEF SlotsGuarded
<1>2. CASE FreeSlots = {}
  <2>1. slots' = slots /\ slotAlarm' = slotAlarm /\ pendingBit' = TRUE
    BY <1>2 DEF PutDataToPendingQueue
  <2>2. 1 \in Slot
    BY MacAssumption DEF Slot
  <2>3. slotAlarm # {}
    BY <1>1, <1>2, <2>2 DEF FreeSlots
  <2>. QED BY <1>1, <1>2, <2>1, <2>3 DEF SlotsGuarded
<1>3. CASE FreeSlots # {}
  <2>1. FreeSlots \in SUBSET Slot
    BY DEF FreeSlots
  <2>2. PICK s \in FreeSlots : s = FirstSlot(FreeSlots)
    BY <1>3, <2>1, FirstSlotIn
  <2>3. s \in Slot /\ slots[s] = EmptySlot
    BY <2>2 DEF FreeSlots
  <2>4. /\ slots' = [slots EXCEPT ![s] = [buf |-> b, dst |-> p]]
        /\ slotAlarm' = slotAlarm \cup {s} /\ pendingBit' = TRUE
    BY <1>3, <2>2 DEF PutDataToPendingQueue, PutToSlot
  <2>5. [buf |-> b, dst |-> p] \in SlotValues
    BY DEF SlotValues
  <2>6. PICK v \in SlotValues : v = [buf |-> b, dst |-> p] /\ v.buf = b
    BY <2>5
  <2>7. v # EmptySlot
    BY <2>6 DEF EmptySlot, Buf, NONE
  <2>8. slots' = [slots EXCEPT ![s] = v]
    BY <2>4, <2>6
  <2>9. slots'[s] = v /\ \A t \in Slot : t # s => slots'[t] = slots[t]
    BY <2>3, <2>8 DEF Typed
  <2>10. slotAlarm' = {t \in Slot : slots'[t] # EmptySlot}
    BY <1>1, <2>3, <2>4, <2>7, <2>9
  <2>11. SlotsGuarded'
    BY <2>4, <2>10 DEF SlotsGuarded
  <2>. QED BY <1>3, <2>3, <2>6, <2>8, <2>11
<1>. QED BY <1>2, <1>3
-----------------------------------------------------------------------------
\* The types and the pending queue, one lemma per group of actions.
LEMMA AllocatedFree == ASSUME NEW b \in Allocated PROVE b \in Buf /\ content[b].type = "free"
BY DEF Allocated, IsFree

LEMMA FreshTypes ==
  ASSUME Typed, NEW b \in Buf,
         \/ \E p \in Peer, t \in {"direct", "indirect"} : McpsDataRequest(b, p, t)
         \/ \E p \in Peer, t \in ParentFrames \cup ChildFrames : Receive(b, t, p)
         \/ PollRequest(b) \/ Rescan(b) \/ IndirectDataCallbackCaller(b)
  PROVE  Typed'
<1>1. CASE \E p \in Peer, t \in {"direct", "indirect"} : McpsDataRequest(b, p, t)
  <2>1. PICK p \in Peer, t \in {"direct", "indirect"} : McpsDataRequest(b, p, t)
    BY <1>1
  <2>2. content' \in [Buf -> Contents]
    BY <2>1, ContentFilled DEF McpsDataRequest, ContentTypes, Requests
  <2>3. txq' \in Seq(TxRefs)
    BY <2>1, TxqPut DEF McpsDataRequest, TxCallbacks
  <2>4. asked' \in Seq(Buf)
    BY <2>1, AppendProperties DEF Typed, McpsDataRequest
  <2>. QED BY <2>1, <2>2, <2>3, <2>4 DEF Typed, McpsDataRequest, parent, radio, child
<1>2. CASE \E p \in Peer, t \in ParentFrames \cup ChildFrames : Receive(b, t, p)
  <2>1. PICK p \in Peer, t \in ParentFrames \cup ChildFrames : Receive(b, t, p)
    BY <1>2
  <2>2. content' \in [Buf -> Contents]
    BY <2>1, ContentFilled DEF Receive, ContentTypes
  <2>3. cbq' \in Seq(CbRefs)
    BY <2>1, CbqPut DEF Receive, Callbacks
  <2>. QED BY <2>1, <2>2, <2>3 DEF Typed, Receive, parent, radio, child
<1>3. CASE PollRequest(b)
  <2>2. content' \in [Buf -> Contents]
    BY <1>3, ContentFilled DEF PollRequest, ContentTypes, Requests
  <2>3. txq' \in Seq(TxRefs)
    BY <1>3, TxqPut DEF PollRequest, TxCallbacks
  <2>. QED BY <1>3, <2>2, <2>3 DEF Typed, PollRequest, parent, radio
<1>4. CASE Rescan(b)
  <2>2. content' \in [Buf -> Contents]
    BY <1>4, ContentFilled DEF Rescan, ContentTypes, Requests
  <2>. QED BY <1>4, <2>2 DEF Typed, Rescan, parent, radio
<1>5. CASE IndirectDataCallbackCaller(b)
  <2>2. content' \in [Buf -> Contents]
    BY <1>5, ContentFilled DEF IndirectDataCallbackCaller, ContentTypes
  <2>3. cbq' \in Seq(CbRefs)
    BY <1>5, CbqPut DEF IndirectDataCallbackCaller, CallIndirectDataCallback, Callbacks
  <2>4. flags' \in FlagSets
    BY <1>5 DEF Typed, FlagSets, IndirectDataCallbackCaller, CallIndirectDataCallback
  <2>. QED BY <1>5, <2>2, <2>3, <2>4 DEF Typed, IndirectDataCallbackCaller, parent, radio
<1>. QED BY <1>1, <1>2, <1>3, <1>4, <1>5

LEMMA AlarmTypes ==
  ASSUME Typed, SlotsGuarded, fault \/ SlotKind,
         \/ \E s \in Slot : ~fault /\ PendingDataTimeout(s)
         \/ \E t \in {"ass", "poll"} : IndirectDataTimeout(t)
         \/ AssociateRequest \/ RespTimeout \/ TxInterrupt
  PROVE  Typed'
<1>1. CASE \E s \in Slot : ~fault /\ PendingDataTimeout(s)
  <2>1. PICK s \in Slot : ~fault /\ PendingDataTimeout(s)
    BY <1>1
  <2>2. slots[s] # EmptySlot
    BY <2>1 DEF PendingDataTimeout, SlotsGuarded
  <2>3. slots[s].buf \in Buf
    BY <2>1, <2>2 DEF SlotKind
  <2>4. cbq' \in Seq(CbRefs)
    BY <2>1, <2>3, CbqPut DEF PendingDataTimeout, Callbacks
  <2>5. EmptySlot \in SlotValues /\ slots' = [slots EXCEPT ![s] = EmptySlot]
    BY <2>1 DEF PendingDataTimeout, ClearPendingSlot, ClearSlot, EmptySlot, SlotValues
  <2>6. slots' \in [Slot -> SlotValues]
    BY <2>5, SlotSet
  <2>. QED BY <2>1, <2>4, <2>6 DEF Typed, SlotValues, PendingDataTimeout, radio, child
<1>2. CASE \E t \in {"ass", "poll"} : IndirectDataTimeout(t)
  <2>1. PICK t \in {"ass", "poll"} : IndirectDataTimeout(t)
    BY <1>2
  <2>2. cbq' \in Seq(CbRefs)
    <3>1. CASE bufRef # NONE /\ CallIndirectDataCallback(t, bufRef, cbq)
      <4>1. bufRef \in Buf
        BY <3>1 DEF Typed
      <4>. QED BY <3>1, <4>1, CbqPut DEF CallIndirectDataCallback, Callbacks
    <3>. QED BY <2>1, <3>1 DEF IndirectDataTimeout, IndirectDataCall, TimeoutCall, Typed
  <2>3. flags' \in FlagSets /\ timers' \in TimerSets /\ bufRef' \in Buf \cup {NONE} /\ caller' \in {"idle", "ass", "poll"}
    BY <2>1 DEF Typed, FlagSets, TimerSets, IndirectDataTimeout, IndirectDataCall, TimeoutCall, CallIndirectDataCallback
  <2>. QED BY <2>1, <2>2, <2>3 DEF Typed, IndirectDataTimeout, parent, radio
<1>3. CASE AssociateRequest
  <2>1. txq' \in Seq(TxRefs)
    <3>1. upper.buf \in Buf \cup {NONE} /\ "association_req" \in TxCallbacks
      BY DEF Typed, TxCallbacks
    <3>2. PICK e : e = Ref("association_req", upper.buf) /\ txq' = Append(txq, e)
      BY <1>3 DEF AssociateRequest
    <3>. QED BY <3>1, <3>2, TxqPut
  <2>. QED BY <1>3, <2>1 DEF Typed, AssociateRequest, parent, radio
<1>4. CASE RespTimeout
  <2>0. flags' \in FlagSets /\ timers' \in TimerSets /\ bufRef' \in Buf \cup {NONE} /\ pendingBuf' \in Buf \cup {NONE}
        /\ fault' \in BOOLEAN
    BY <1>4 DEF Typed, FlagSets, TimerSets, RespTimeout
  <2>1. CASE ~ScanBufferKept
    BY <1>4, <2>0, <2>1 DEF Typed, RespTimeout, parent, radio
  <2>2. CASE ScanBufferKept
    <3>1. pendingBuf \in Buf
      BY <2>2 DEF Typed, ScanBufferKept
    <3>2. CASE content' = Released(content, pendingBuf) /\ UNCHANGED cbq
      <4>1. content' \in [Buf -> Contents]
        BY <3>1, <3>2, ContentReleased
      <4>. QED BY <1>4, <2>0, <2>2, <3>2, <4>1 DEF Typed, RespTimeout, parent, radio
    <3>3. CASE /\ content' = Filled(content, pendingBuf, "assocFail", NONE)
               /\ cbq' = Append(cbq, Ref("associate_confirm", pendingBuf))
      <4>1. content' \in [Buf -> Contents]
        BY <3>1, <3>3, ContentFilled DEF ContentTypes
      <4>2. cbq' \in Seq(CbRefs)
        BY <3>1, <3>3, CbqPut DEF Callbacks
      <4>. QED BY <1>4, <2>0, <2>2, <4>1, <4>2 DEF Typed, RespTimeout, parent, radio
    <3>. QED BY <1>4, <2>2, <3>2, <3>3 DEF RespTimeout
  <2>. QED BY <2>1, <2>2
<1>5. CASE TxInterrupt
  BY <1>5, MacAssumption DEF Typed, TxInterrupt, parent, child
<1>. QED BY <1>1, <1>2, <1>3, <1>4, <1>5
-----------------------------------------------------------------------------
\* What a step does to a queue of callbacks without a confirm: it takes the
\* head, adds another callback, or both.
Calm(e) == e.func # "associate_confirm" /\ e.func # "data_confirm"

LEMMA CalmPut ==
  ASSUME NEW q \in Seq(CbRefs), NEW e \in CbRefs, Calm(e), Closing(q, Failing, Confirms)
  PROVE  /\ Append(q, e) \in Seq(CbRefs)
         /\ Closing(Append(q, e), Failing, Confirms)
         /\ \A x \in Members(Append(q, e)) : ~Calm(x) => x \in Members(q)
         /\ Picked(Append(q, e), "data_confirm", Direct) = Picked(q, "data_confirm", Direct)
<1>1. e \notin Confirms
  BY DEF Calm, Confirms
<1>2. Closing(Append(q, e), Failing, Confirms)
  BY <1>1, ClosingPut
<1>3. Append(q, e) \in Seq(CbRefs) /\ Members(Append(q, e)) = Members(q) \cup {e}
  BY PutFacts
<1>4. Direct \in SUBSET Buf
  BY DEF Direct
<1>5. Picked(Append(q, e), "data_confirm", Direct) = Picked(q, "data_confirm", Direct)
  BY <1>4, PickedPut DEF Calm
<1>. QED BY <1>2, <1>3, <1>5

LEMMA CalmTook ==
  ASSUME NEW q \in Seq(CbRefs), q # << >>, Closing(q, Failing, Confirms)
  PROVE  /\ Tail(q) \in Seq(CbRefs)
         /\ Closing(Tail(q), Failing, Confirms)
         /\ \A x \in Members(Tail(q)) : x \in Members(q)
         /\ Head(q) \in Failing => \A x \in Members(Tail(q)) : x \notin Confirms
         /\ Head(q).func # "data_confirm" => Picked(Tail(q), "data_confirm", Direct) = Picked(q, "data_confirm", Direct)
<1>1. /\ Closing(Tail(q), Failing, Confirms)
      /\ Head(q) \in Failing => \A x \in Members(Tail(q)) : x \notin Confirms
  BY ClosingTook
<1>2. Tail(q) \in Seq(CbRefs) /\ Members(q) = {Head(q)} \cup Members(Tail(q))
  BY TookFacts
<1>3. Direct \in SUBSET Buf
  BY DEF Direct
<1>4. Head(q).func # "data_confirm" => Picked(Tail(q), "data_confirm", Direct) = Picked(q, "data_confirm", Direct)
  BY <1>3, PickedTook
<1>. QED BY <1>1, <1>2, <1>4

\* A step that leaves the requests and the confirms of associations alone.
AssocKept ==
  /\ upper'.assoc = upper.assoc
  /\ \A e \in Members(txq') : e.func = "association_req" => e \in Members(txq)
  /\ txWait'.func = "association_continue" => txWait.func = "association_continue"
  /\ "resp" \in timers' => "resp" \in timers
  /\ "indirect_ass" \in timers' => "indirect_ass" \in timers
  /\ caller' = "ass" => caller = "ass"
  /\ "ass" \in flags' => "ass" \in flags
ConfirmsKept ==
  \A e \in Members(cbq') : e.func = "associate_confirm" => e \in Members(cbq) /\ content'[e.buf] = content[e.buf]

LEMMA AssociatingKept ==
  ASSUME Typed', Associating, AssocKept, ConfirmsKept, Closing(cbq', Failing, Confirms)
  PROVE  Associating'
<1>1. /\ Queued' => Queued
      /\ Asking' => Asking
      /\ Owed' => Owed
  BY DEF AssocKept, Queued, Asking, Owed
<1>2. OneRequest'
  BY <1>1 DEF Associating, OneRequest, AssocKept, Queued
<1>3. \A e \in Members(cbq') : e \in Confirms => e \in Members(cbq)
  BY DEF ConfirmsKept, Confirms
<1>4. NothingLeft'
  BY <1>1, <1>3, Zenon DEF Associating, NothingLeft, AssocKept
<1>5. \A e \in Members(cbq') : e \in Failing' => e \in Failing /\ e \in Members(cbq)
  BY DEF ConfirmsKept, Confirms, Failing
<1>6. Closing(cbq', Failing', Confirms)
  <2>1. \A x \in Members(cbq') : x \in Failing' => x \in Failing
    BY <1>5
  <2>. QED BY <2>1, ClosingFewer
<1>7. FailureLast'
  <2>1. ~("indirect_ass" \in timers' /\ caller' = "ass")
    BY DEF AssocKept, Associating, FailureLast
  <2>2. (\E e \in Members(cbq') : e \in Failing') => ~Owed'
    BY <1>1, <1>5, Zenon DEF Associating, FailureLast
  <2>. QED BY <1>6, <2>1, <2>2 DEF FailureLast
<1>. QED BY <1>2, <1>4, <1>7 DEF Associating

-----------------------------------------------------------------------------
\* A buffer is in no more places after the step.
NoMore(x) ==
  /\ Has(cbq', x) <= Has(cbq, x) /\ Has(txq', x) <= Has(txq, x) /\ InSlots(slots', x) <= InSlots(slots, x)
  /\ txWait'.func = "data_continue" /\ txWait'.buf = x => txWait.func = "data_continue" /\ txWait.buf = x
  /\ x \in outq' => x \in outq
  /\ PollKept' /\ bufRef' = x => PollKept /\ bufRef = x
  /\ upper'.buf = x => upper.buf = x
  /\ Awaited(x)' => Awaited(x)

LEMMA UsesFewer ==
  ASSUME Typed, Typed', NEW x \in Buf, NoMore(x)
  PROVE  Uses(x)' <= Uses(x) /\ Uses(x)' \in Nat /\ Uses(x) \in Nat
<1>1. /\ Has(cbq, x) \in Nat /\ Has(cbq', x) \in Nat /\ Has(txq, x) \in Nat /\ Has(txq', x) \in Nat
      /\ InSlots(slots, x) \in Nat /\ InSlots(slots', x) \in Nat
  <2>1. cbq \in Seq(CbRefs) /\ txq \in Seq(TxRefs) /\ cbq' \in Seq(CbRefs) /\ txq' \in Seq(TxRefs)
    BY DEF Typed
  <2>. QED BY <2>1, HasFacts, SlotFacts
<1>. QED BY <1>1 DEF Uses, NoMore

LEMMA UsedOnceKept ==
  ASSUME Typed, Typed', UsedOnce, NEW b,
         \A x \in Buf : x # b => NoMore(x) /\ (content'[x] = content[x] \/ content'[x].type # "free"),
         b \in Buf => Uses(b)' <= (IF content'[b].type = "free" THEN 0 ELSE 1)
  PROVE  UsedOnce'
<1>1. ASSUME NEW x \in Buf PROVE Uses(x)' <= (IF content'[x].type = "free" THEN 0 ELSE 1)
  <2>1. CASE x = b
    BY <2>1
  <2>2. CASE x # b
    <3>1. Uses(x)' <= Uses(x) /\ Uses(x)' \in Nat /\ Uses(x) \in Nat
      BY <2>2, UsesFewer
    <3>2. Uses(x) <= (IF content[x].type = "free" THEN 0 ELSE 1)
      BY DEF UsedOnce
    <3>. QED BY <2>2, <3>1, <3>2
  <2>. QED BY <2>1, <2>2
<1>. QED BY <1>1 DEF UsedOnce

\* A buffer that left its place or changed it.
LEMMA InOnePlace ==
  ASSUME Typed', NEW b \in Buf,
         \A s \in Slot : slots'[s].buf # b,
         ~(txWait'.func = "data_continue" /\ txWait'.buf = b), b \notin outq',
         ~(PollKept' /\ bufRef' = b), upper'.buf # b, ~Awaited(b)'
  PROVE  Uses(b)' = Has(cbq', b) + Has(txq', b)
<1>1. Has(cbq', b) \in Nat /\ Has(txq', b) \in Nat
  <2>1. cbq' \in Seq(CbRefs) /\ txq' \in Seq(TxRefs)
    BY DEF Typed
  <2>. QED BY <2>1, HasFacts
<1>2. InSlots(slots', b) = 0
  BY SlotFacts
<1>. QED BY <1>1, <1>2 DEF Uses
-----------------------------------------------------------------------------
\* The buffer and the callback at the head of the queue.
LEMMA HeadOfCbq ==
  ASSUME Typed, cbq # << >>
  PROVE  /\ Head(cbq) \in CbRefs /\ Head(cbq).func \in Callbacks /\ Head(cbq).buf \in Buf
         /\ Tail(cbq) \in Seq(CbRefs) /\ Head(cbq) \in Members(cbq)
         /\ content[Head(cbq).buf].type \in ContentTypes /\ content[Head(cbq).buf].peer \in Peer \cup {NONE}
<1>1. cbq \in Seq(CbRefs)
  BY DEF Typed
<1>2. /\ Head(cbq) \in CbRefs /\ Tail(cbq) \in Seq(CbRefs)
      /\ Members(cbq) = {Head(cbq)} \cup Members(Tail(cbq))
  BY <1>1, TookFacts
<1>3. Head(cbq).func \in Callbacks /\ Head(cbq).buf \in Buf
  BY <1>2 DEF CbRefs
<1>4. content[Head(cbq).buf] \in Contents
  BY <1>3 DEF Typed
<1>. QED BY <1>2, <1>3, <1>4 DEF Contents, ContentTypes

LEMMA HeadOfTxq ==
  ASSUME Typed, txq # << >>
  PROVE  /\ Head(txq) \in TxRefs /\ Head(txq).func \in TxCallbacks /\ Head(txq).buf \in Buf \cup {NONE}
         /\ Tail(txq) \in Seq(TxRefs) /\ Head(txq) \in Members(txq)
<1>1. txq \in Seq(TxRefs)
  BY DEF Typed
<1>2. /\ Head(txq) \in TxRefs /\ Tail(txq) \in Seq(TxRefs)
      /\ Members(txq) = {Head(txq)} \cup Members(Tail(txq))
  BY <1>1, TookFacts
<1>3. Head(txq).func \in TxCallbacks /\ Head(txq).buf \in Buf \cup {NONE}
  BY <1>2 DEF TxRefs
<1>. QED BY <1>2, <1>3

\* Callbacks keep types.
LEMMA ParseTypes ==
  ASSUME Typed, cbq # << >>, NEW b, b = Head(cbq).buf, ParseRecvData(b),
         UNCHANGED <<role, txq, asked, fault>>, UNCHANGED radio
  PROVE  Typed'
<1>1. b \in Buf /\ Tail(cbq) \in Seq(CbRefs)
  BY HeadOfCbq
<1>2. content' \in [Buf -> Contents]
  <2>1. CASE content' = Released(content, b)
    BY <1>1, <2>1, ContentReleased
  <2>. QED BY <2>1 DEF ParseRecvData, Typed
<1>3. Dispatch(b) \in CbRefs
  BY <1>1 DEF Dispatch, Ref, CbRefs, Callbacks
<1>4. cbq' \in Seq(CbRefs)
  <2>1. Append(Tail(cbq), Dispatch(b)) \in Seq(CbRefs)
    BY <1>1, <1>3, AppendProperties
  <2>2. ASSUME bufRef # NONE
        PROVE  Append(Append(Tail(cbq), Ref("poll_confirm", bufRef)), Dispatch(b)) \in Seq(CbRefs)
    <3>1. Ref("poll_confirm", bufRef) \in CbRefs
      BY <2>2 DEF Typed, Ref, CbRefs, Callbacks
    <3>2. Append(Tail(cbq), Ref("poll_confirm", bufRef)) \in Seq(CbRefs)
      BY <1>1, <3>1, AppendProperties
    <3>. QED BY <1>3, <3>2, AppendProperties
  <2>. QED BY <1>1, <2>1, <2>2 DEF ParseRecvData
<1>5. flags' \in FlagSets /\ timers' \in TimerSets
  BY DEF Typed, FlagSets, TimerSets, ParseRecvData
<1>6. /\ slots' = slots /\ outq' = outq /\ txWait' = txWait /\ txCnt' = txCnt /\ onAir' = onAir /\ dataReq' = dataReq
      /\ pendingBuf' = pendingBuf /\ bufRef' = bufRef /\ caller' = caller /\ upper' = upper
  BY DEF ParseRecvData, parent, radio
<1>. QED BY <1>2, <1>4, <1>5, <1>6 DEF Typed

LEMMA CommandTypes ==
  ASSUME Typed, cbq # << >>, NEW b, b = Head(cbq).buf, CommandAccept(b),
         UNCHANGED <<role, asked, fault>>, UNCHANGED radio
  PROVE  Typed'
<1>1. b \in Buf /\ Tail(cbq) \in Seq(CbRefs)
  BY HeadOfCbq
<1>2. content' \in [Buf -> Contents]
  <2>1. CASE content' = Released(content, b)
    BY <1>1, <2>1, ContentReleased
  <2>2. CASE content' = Filled(content, b, "assocOk", NONE)
    BY <1>1, <2>2, ContentFilled DEF ContentTypes
  <2>. QED BY <2>1, <2>2 DEF CommandAccept, Typed
<1>3. cbq' \in Seq(CbRefs)
  <2>1. \A f \in Callbacks : Append(Tail(cbq), Ref(f, b)) \in Seq(CbRefs)
    <3>1. \A f \in Callbacks : Ref(f, b) \in CbRefs
      BY <1>1 DEF Ref, CbRefs
    <3>. QED BY <1>1, <3>1, AppendProperties
  <2>2. "accept_ass_request" \in Callbacks /\ "associate_confirm" \in Callbacks
    BY DEF Callbacks
  <2>. QED BY <1>1, <2>1, <2>2 DEF CommandAccept
<1>4. txq' \in Seq(TxRefs)
  <2>1. txq \in Seq(TxRefs)
    BY DEF Typed
  <2>2. Append(txq, Ref("beacon_req", NONE)) \in Seq(TxRefs) /\ Append(txq, Ref("accept_data_request", b)) \in Seq(TxRefs)
    <3>1. Ref("beacon_req", NONE) \in TxRefs /\ Ref("accept_data_request", b) \in TxRefs
      BY <1>1 DEF Ref, TxRefs, TxCallbacks
    <3>. QED BY <2>1, <3>1, AppendProperties
  <2>. QED BY <2>1, <2>2 DEF CommandAccept
<1>5. flags' \in FlagSets
  BY DEF Typed, FlagSets, CommandAccept
<1>6. /\ slots' = slots /\ outq' = outq /\ txWait' = txWait /\ txCnt' = txCnt /\ onAir' = onAir /\ dataReq' = dataReq
      /\ pendingBuf' = pendingBuf /\ bufRef' = bufRef /\ caller' = caller /\ upper' = upper /\ timers' = timers
  BY DEF CommandAccept, parent, radio
<1>. QED BY <1>2, <1>3, <1>4, <1>5, <1>6 DEF Typed

LEMMA UpperTypes ==
  ASSUME Typed, cbq # << >>, NEW b, b = Head(cbq).buf, NEW f, UpperCallback(f, b),
         UNCHANGED <<role, txq, fault>>, UNCHANGED radio, asked' \in Seq(Buf)
  PROVE  Typed'
<1>1. b \in Buf /\ Tail(cbq) \in Seq(CbRefs)
  BY HeadOfCbq
<1>2. content' \in [Buf -> Contents]
  <2>1. CASE content' = Released(content, b)
    BY <1>1, <2>1, ContentReleased
  <2>. QED BY <2>1 DEF UpperCallback, Typed
<1>3. cbq' \in Seq(CbRefs)
  <2>1. Append(Tail(cbq), Ref("associate_response", b)) \in Seq(CbRefs)
    <3>1. Ref("associate_response", b) \in CbRefs
      BY <1>1 DEF Ref, CbRefs, Callbacks
    <3>. QED BY <1>1, <3>1, AppendProperties
  <2>. QED BY <1>1, <2>1 DEF UpperCallback
<1>4. upper' \in [assoc : {"joined", "scanned", "asked", "failed"}, polling : BOOLEAN, buf : Buf \cup {NONE}]
  BY DEF UpperCallback, Typed
<1>6. /\ slots' = slots /\ outq' = outq /\ txWait' = txWait /\ txCnt' = txCnt /\ onAir' = onAir /\ dataReq' = dataReq
      /\ pendingBuf' = pendingBuf /\ bufRef' = bufRef /\ caller' = caller /\ flags' = flags /\ timers' = timers
  BY DEF UpperCallback, parent, radio
<1>. QED BY <1>2, <1>3, <1>4, <1>6 DEF Typed
LEMMA ResponseFacts ==
  ASSUME Typed, SlotsGuarded, cbq # << >>, NEW b, b = Head(cbq).buf, AssociateResponse(b),
         UNCHANGED <<role, txq, asked, fault>>, UNCHANGED radio
  PROVE  Typed' /\ SlotsGuarded'
<1>1. b \in Buf /\ Tail(cbq) \in Seq(CbRefs) /\ content[b].peer \in Peer \cup {NONE}
  BY HeadOfCbq
<1>2. content' \in [Buf -> Contents]
  BY <1>1, ContentFilled DEF AssociateResponse, ContentTypes, Requests
<1>3. PICK p \in Peer \cup {NONE} : p = content[b].peer
  BY <1>1
<1>4. /\ SlotsGuarded'
      /\ IF FreeSlots = {} THEN slots' = slots
         ELSE \E s \in Slot, v \in SlotValues : /\ slots[s] = EmptySlot /\ slots' = [slots EXCEPT ![s] = v]
                                                /\ v.buf = b
  BY <1>1, <1>3, FilledGuarded DEF AssociateResponse
<1>5. slots' \in [Slot -> SlotValues]
  <2>1. CASE FreeSlots = {}
    BY <1>4, <2>1 DEF Typed, SlotValues
  <2>2. CASE FreeSlots # {}
    <3>1. PICK s \in Slot, v \in SlotValues : slots' = [slots EXCEPT ![s] = v]
      BY <1>4, <2>2
    <3>. QED BY <3>1, SlotSet
  <2>. QED BY <2>1, <2>2
<1>6. cbq' \in Seq(CbRefs)
  <2>1. Ref("comm_status", b) \in CbRefs
    BY <1>1 DEF Ref, CbRefs, Callbacks
  <2>2. Append(Tail(cbq), Ref("comm_status", b)) \in Seq(CbRefs)
    BY <1>1, <2>1, AppendProperties
  <2>. QED BY <1>1, <2>2 DEF AssociateResponse
<1>7. /\ outq' = outq /\ txWait' = txWait /\ txCnt' = txCnt /\ onAir' = onAir /\ dataReq' = dataReq
      /\ pendingBuf' \in Buf \cup {NONE} /\ bufRef' = bufRef /\ caller' = caller /\ upper' = upper
      /\ flags' = flags /\ timers' = timers
  BY <1>1 DEF AssociateResponse, radio, child
<1>. QED BY <1>2, <1>4, <1>5, <1>6, <1>7 DEF Typed, SlotValues

\* What is asked after a callback.
AskedAfter ==
  LET f == Head(cbq).func
      b == Head(cbq).buf
  IN  asked' = IF f = "data_confirm" /\ asked # << >> /\ Head(asked) = b THEN Tail(asked) ELSE asked

LEMMA AskedTypes == ASSUME Typed, AskedAfter PROVE asked' \in Seq(Buf)
<1>1. asked \in Seq(Buf)
  BY DEF Typed
<1>2. asked # << >> => Tail(asked) \in Seq(Buf)
  BY <1>1, HeadTailProperties
<1>. QED BY <1>1, <1>2 DEF AskedAfter

LEMMA CalledTypes ==
  ASSUME Typed, SlotsGuarded, RunCallback
  PROVE  Typed' /\ SlotsGuarded'
<1>. DEFINE f == Head(cbq).func
            b == Head(cbq).buf
<1>1. cbq # << >> /\ UNCHANGED <<role, fault>> /\ UNCHANGED radio /\ AskedAfter
  BY DEF RunCallback, AskedAfter
<1>2. b \in Buf /\ Tail(cbq) \in Seq(CbRefs) /\ asked' \in Seq(Buf)
  BY <1>1, HeadOfCbq, AskedTypes
<1>3. f # "data_confirm" => asked' = asked
  BY <1>1 DEF AskedAfter
<1>4. ASSUME UNCHANGED parent PROVE SlotsGuarded'
  BY <1>4 DEF parent, SlotsGuarded
<1>5. CASE f = "parse_recv_data" /\ ParseRecvData(b) /\ UNCHANGED txq
  <2>1. Typed'
    BY <1>1, <1>3, <1>5, ParseTypes
  <2>2. UNCHANGED parent
    BY <1>5 DEF ParseRecvData
  <2>. QED BY <1>4, <2>1, <2>2
<1>6. CASE f = "command_accept" /\ CommandAccept(b)
  <2>1. Typed'
    BY <1>1, <1>3, <1>6, CommandTypes
  <2>2. UNCHANGED parent
    BY <1>6 DEF CommandAccept
  <2>. QED BY <1>4, <2>1, <2>2
<1>7. CASE UpperCallback(f, b) /\ UNCHANGED txq
  <2>1. Typed'
    BY <1>1, <1>2, <1>7, UpperTypes
  <2>2. UNCHANGED parent
    BY <1>7 DEF UpperCallback
  <2>. QED BY <1>4, <2>1, <2>2
<1>8. CASE f = "associate_response" /\ AssociateResponse(b) /\ UNCHANGED txq
  BY <1>1, <1>3, <1>8, ResponseFacts
<1>9. CASE \/ f = "handle_data_frame" /\ HandleDataFrame(b) /\ UNCHANGED txq
           \/ f = "accept_ass_request" /\ AcceptAssRequestCmd(b) /\ UNCHANGED txq
  <2>1. cbq' \in Seq(CbRefs)
    <3>1. \A g \in Callbacks : Append(Tail(cbq), Ref(g, b)) \in Seq(CbRefs)
      <4>1. \A g \in Callbacks : Ref(g, b) \in CbRefs
        BY <1>2 DEF Ref, CbRefs
      <4>. QED BY <1>2, <4>1, AppendProperties
    <3>2. "data_indication" \in Callbacks /\ "associate_indication" \in Callbacks
      BY DEF Callbacks
    <3>. QED BY <1>9, <3>1, <3>2 DEF HandleDataFrame, AcceptAssRequestCmd
  <2>2. /\ UNCHANGED parent /\ UNCHANGED child /\ content' = content /\ pendingBuf' = b /\ txq' = txq
    BY <1>9 DEF HandleDataFrame, AcceptAssRequestCmd
  <2>3. Typed'
    BY <1>1, <1>2, <2>1, <2>2 DEF Typed, parent, radio, child
  <2>. QED BY <1>4, <2>2, <2>3
<1>. QED BY <1>5, <1>6, <1>7, <1>8, <1>9 DEF RunCallback

LEMMA EndedTypes ==
  ASSUME Typed, SlotsGuarded, Kinds, MainLoopTxDone
  PROVE  Typed' /\ SlotsGuarded'
<1>0. UNCHANGED <<role, txq, txCnt, onAir, asked>> /\ txWait' = Ref("idle", NONE)
  BY DEF MainLoopTxDone
<1>t. txWait' \in [func : {"idle", "data_continue", "data_request_continue", "association_continue"},
                  buf : Buf \cup {NONE}]
  BY <1>0 DEF Ref
<1>1. CASE txWait.func = "data_continue" /\ HandleMcpsDataReqContinue(txWait.buf)
  <2>1. txWait.buf \in Buf
    BY <1>1 DEF Kinds, SentKind
  <2>2. cbq' \in Seq(CbRefs)
    BY <1>1, <2>1, CbqPut DEF HandleMcpsDataReqContinue, DataContinue, Callbacks
  <2>3. /\ UNCHANGED <<content, dataReq, fault>> /\ UNCHANGED parent /\ UNCHANGED child /\ pendingBuf' = NONE
    BY <1>1 DEF HandleMcpsDataReqContinue, DataContinue
  <2>4. Typed'
    BY <1>0, <1>t, <2>2, <2>3 DEF Typed, parent, child
  <2>. QED BY <2>3, <2>4 DEF parent, SlotsGuarded
<1>2. CASE txWait.func = "association_continue" /\ SendAssociationReqContinue
  <2>1. timers' \in TimerSets
    BY <1>2 DEF Typed, TimerSets, SendAssociationReqContinue
  <2>2. /\ UNCHANGED <<content, cbq, pendingBuf, dataReq, flags, bufRef, caller, upper, fault>> /\ UNCHANGED parent
    BY <1>2 DEF SendAssociationReqContinue
  <2>3. Typed'
    BY <1>0, <1>t, <2>1, <2>2 DEF Typed, parent
  <2>. QED BY <2>2, <2>3 DEF parent, SlotsGuarded
<1>3. CASE txWait.func = "data_request_continue" /\ HandleDataRequestCmdContinue
  <2>1. CASE ~ServiceIntact
    <3>1. /\ fault' = TRUE /\ UNCHANGED <<content, cbq, pendingBuf, dataReq>> /\ UNCHANGED parent /\ UNCHANGED child
      BY <1>3, <2>1 DEF HandleDataRequestCmdContinue, DataRequestContinue
    <3>2. Typed'
      BY <1>0, <1>t, <3>1 DEF Typed, parent, child
    <3>. QED BY <3>1, <3>2 DEF parent, SlotsGuarded
  <2>2. CASE ServiceIntact
    <3>1. PICK s \in Slot : s = dataReq.slot
      BY DEF Typed
    <3>2. PICK d \in Buf : d = slots[s].buf
      BY <1>3, <2>2, <3>1 DEF ServiceIntact, Kinds, SentKind
    <3>3. PICK p \in Buf : p = pendingBuf
      BY <2>2 DEF ServiceIntact, Typed
    <3>4. /\ ClearSlot(s) /\ pendingBuf' = NONE /\ dataReq' = NoService /\ UNCHANGED <<outq, fault>> /\ UNCHANGED child
          /\ \/ cbq' = Append(cbq, Ref("comm_status", p)) /\ content' = Released(content, d)
             \/ cbq' = Append(cbq, Ref("data_confirm", d)) /\ content' = Released(content, p)
      BY <1>3, <2>2, <3>1, <3>2, <3>3 DEF HandleDataRequestCmdContinue, DataRequestContinue, ClearPendingSlot
    <3>5. content' \in [Buf -> Contents]
      BY <3>4, ContentReleased
    <3>6. cbq' \in Seq(CbRefs)
      BY <3>4, CbqPut DEF Callbacks
    <3>7. SlotsGuarded' /\ EmptySlot \in SlotValues
      BY <3>4, ClearedGuarded
    <3>8. slots' \in [Slot -> SlotValues]
      BY <3>4, <3>7, SlotSet DEF ClearSlot
    <3>9. NoService \in [slot : Slot, buf : Buf \cup {NONE}]
      BY MacAssumption DEF NoService, Slot
    <3>10. Typed'
      BY <1>0, <1>t, <3>4, <3>5, <3>6, <3>8, <3>9 DEF Typed, SlotValues, child
    <3>. QED BY <3>7, <3>10
  <2>. QED BY <2>1, <2>2
<1>. QED BY <1>1, <1>2, <1>3 DEF MainLoopTxDone
LEMMA TxWaitType ==
  ASSUME Typed, NEW f \in {"data_continue", "data_request_continue", "association_continue"},
         NEW b \in Buf \cup {NONE}, Send(f, b)
  PROVE  /\ txWait' \in [func : {"idle", "data_continue", "data_request_continue", "association_continue"},
                         buf : Buf \cup {NONE}]
         /\ txWait'.func = f /\ txWait'.buf = b
         /\ txCnt' \in BOOLEAN /\ onAir' \in 0 .. MaxOnAir
<1>1. txWait' = Ref(f, b) /\ onAir < MaxOnAir /\ onAir' = onAir + 1 /\ txCnt' = FALSE
  BY DEF Send
<1>2. onAir \in 0 .. MaxOnAir /\ MaxOnAir \in Nat
  BY MacAssumption DEF Typed
<1>3. onAir' \in 0 .. MaxOnAir
  BY <1>1, <1>2
<1>. QED BY <1>1, <1>3 DEF Ref

\* Everybody who waits for the transmitter but a beacon has a buffer.
LEMMA TxHeadBuffer ==
  ASSUME Typed, Kinds, txq # << >>, Head(txq).func # "beacon_req"
  PROVE  Head(txq).buf \in Buf /\ content[Head(txq).buf].peer \in Peer \cup {NONE}
<1>1. Head(txq).buf \in Buf
  BY HeadOfTxq DEF Kinds, TxqKind, Fits
<1>2. content[Head(txq).buf] \in Contents
  BY <1>1 DEF Typed
<1>. QED BY <1>1, <1>2 DEF Contents

LEMMA StartedTypes ==
  ASSUME Typed, SlotsGuarded, Kinds, MainLoopTxNext
  PROVE  Typed' /\ SlotsGuarded'
<1>. DEFINE f == Head(txq).func
            b == Head(txq).buf
<1>0. txq # << >> /\ txq' = Tail(txq) /\ UNCHANGED <<role, asked>>
  BY DEF MainLoopTxNext
<1>1. txq' \in Seq(TxRefs)
  BY <1>0, HeadOfTxq
<1>2. f # "beacon_req" => b \in Buf /\ content[b].peer \in Peer \cup {NONE}
  BY <1>0, TxHeadBuffer
<1>3. ASSUME UNCHANGED parent PROVE SlotsGuarded'
  BY <1>3 DEF parent, SlotsGuarded
<1>4. txWait.buf \in Buf \cup {NONE}
  BY DEF Typed
<1>5. CASE f = "mcps_data_req" /\ HandleMcpsDataReq(b)
  <2>0. pendingBuf' = b /\ UNCHANGED <<content, cbq, fault>> /\ UNCHANGED child
    BY <1>5 DEF HandleMcpsDataReq
  <2>1. CASE FillHdrIndirect(b) /\ UNCHANGED radio
    <3>1. PICK p \in Peer \cup {NONE} : p = content[b].peer
      BY <1>2, <1>5
    <3>2. /\ SlotsGuarded'
          /\ IF FreeSlots = {} THEN slots' = slots
             ELSE \E s \in Slot, v \in SlotValues : /\ slots[s] = EmptySlot /\ slots' = [slots EXCEPT ![s] = v]
                                                    /\ v.buf = b
      BY <1>2, <1>5, <2>1, <3>1, FilledGuarded DEF FillHdrIndirect
    <3>3. slots' \in [Slot -> SlotValues]
      <4>1. CASE FreeSlots = {}
        BY <3>2, <4>1 DEF Typed, SlotValues
      <4>2. CASE FreeSlots # {}
        <5>1. PICK s \in Slot, v \in SlotValues : slots' = [slots EXCEPT ![s] = v]
          BY <3>2, <4>2
        <5>. QED BY <5>1, SlotSet
      <4>. QED BY <4>1, <4>2
    <3>4. outq' \subseteq Buf
      BY <1>2, <1>5, <2>1 DEF FillHdrIndirect, PutRequestToQueue, Typed
    <3>5. Typed'
      BY <1>0, <1>1, <1>2, <1>5, <2>0, <2>1, <3>3, <3>4 DEF Typed, SlotValues, radio, child
    <3>. QED BY <3>2, <3>5
  <2>2. CASE Send("data_continue", b) /\ UNCHANGED dataReq /\ UNCHANGED parent
    <3>1. /\ txWait' \in [func : {"idle", "data_continue", "data_request_continue", "association_continue"},
                          buf : Buf \cup {NONE}]
          /\ txCnt' \in BOOLEAN /\ onAir' \in 0 .. MaxOnAir
      BY <1>2, <1>5, <2>2, TxWaitType
    <3>2. Typed'
      BY <1>0, <1>1, <1>2, <1>5, <2>0, <2>2, <3>1 DEF Typed, parent, child
    <3>. QED BY <1>3, <2>2, <3>2
  <2>. QED BY <1>5, <2>1, <2>2 DEF HandleMcpsDataReq
<1>6. CASE f = "accept_data_request" /\ HandleDataRequestCmd(b)
  <2>0. UNCHANGED <<cbq, fault>> /\ UNCHANGED parent /\ UNCHANGED child
    BY <1>6 DEF HandleDataRequestCmd
  <2>. DEFINE s == CheckPendingData(content[b].peer)
  <2>1. CASE s # 0 /\ pendingBuf' = b /\ Send("data_request_continue", txWait.buf)
             /\ dataReq' = [slot |-> s, buf |-> slots[s].buf] /\ UNCHANGED content
    <3>1. /\ txWait' \in [func : {"idle", "data_continue", "data_request_continue", "association_continue"},
                          buf : Buf \cup {NONE}]
          /\ txCnt' \in BOOLEAN /\ onAir' \in 0 .. MaxOnAir
      BY <1>4, <2>1, TxWaitType
    <3>2. s \in Slot
      <4>1. SlotsFor(content[b].peer) \in SUBSET Slot
        BY DEF SlotsFor
      <4>. QED BY <2>1, <4>1, FirstSlotIn DEF CheckPendingData
    <3>3. dataReq' \in [slot : Slot, buf : Buf \cup {NONE}]
      <4>1. slots[s].buf \in Buf \cup {NONE}
        BY <3>2 DEF Typed
      <4>2. PICK z \in Slot : z = s
        BY <3>2
      <4>. QED BY <2>1, <4>1, <4>2
    <3>4. Typed'
      BY <1>0, <1>1, <1>2, <1>6, <2>0, <2>1, <3>1, <3>3 DEF Typed, parent, child
    <3>. QED BY <1>3, <2>0, <3>4
  <2>2. CASE pendingBuf' = NONE /\ content' = Released(content, b) /\ UNCHANGED radio
    <3>1. content' \in [Buf -> Contents]
      BY <1>2, <1>6, <2>2, ContentReleased
    <3>2. Typed'
      BY <1>0, <1>1, <2>0, <2>2, <3>1 DEF Typed, parent, radio, child
    <3>. QED BY <1>3, <2>0, <3>2
  <2>. QED BY <1>6, <2>1, <2>2 DEF HandleDataRequestCmd
<1>7. CASE f = "beacon_req" /\ HandleBeaconReq
  <2>1. /\ txCnt' \in BOOLEAN /\ onAir' \in 0 .. MaxOnAir
        /\ UNCHANGED <<content, cbq, txWait, dataReq, pendingBuf, fault>> /\ UNCHANGED parent /\ UNCHANGED child
    <3>1. onAir \in 0 .. MaxOnAir /\ MaxOnAir \in Nat /\ txCnt \in BOOLEAN
      BY MacAssumption DEF Typed
    <3>2. onAir < MaxOnAir /\ onAir' = onAir + 1 => onAir' \in 0 .. MaxOnAir
      BY <3>1
    <3>. QED BY <1>7, <3>1, <3>2 DEF HandleBeaconReq
  <2>2. Typed'
    BY <1>0, <1>1, <2>1 DEF Typed, parent, child
  <2>. QED BY <1>3, <2>1, <2>2
<1>8. CASE f = "association_req" /\ SendAssociationReq(b)
  <2>0. /\ Send("association_continue", txWait.buf)
        /\ UNCHANGED <<content, cbq, pendingBuf, dataReq, fault>> /\ UNCHANGED parent /\ UNCHANGED child
    BY <1>8 DEF SendAssociationReq
  <2>1. /\ txWait' \in [func : {"idle", "data_continue", "data_request_continue", "association_continue"},
                        buf : Buf \cup {NONE}]
        /\ txCnt' \in BOOLEAN /\ onAir' \in 0 .. MaxOnAir
    BY <1>4, <2>0, TxWaitType
  <2>2. Typed'
    BY <1>0, <1>1, <2>0, <2>1 DEF Typed, parent, child
  <2>. QED BY <1>3, <2>0, <2>2
<1>9. CASE f = "poll_request" /\ HandlePollRequest(b)
  <2>0. /\ pendingBuf' = NONE /\ txCnt' = TRUE
        /\ UNCHANGED <<content, txWait, onAir, dataReq, caller, upper, fault>> /\ UNCHANGED parent
    BY <1>9 DEF HandlePollRequest
  <2>1. flags' \in FlagSets /\ timers' \in TimerSets
    BY <1>9 DEF Typed, FlagSets, TimerSets, HandlePollRequest
  <2>2. bufRef' \in Buf \cup {NONE}
    BY <1>2, <1>9 DEF Typed, HandlePollRequest
  <2>3. cbq' \in Seq(CbRefs)
    <3>1. CASE cbq' = Append(cbq, Ref("poll_confirm", b))
      BY <1>2, <1>9, <3>1, CbqPut DEF Callbacks
    <3>. QED BY <1>9, <3>1 DEF Typed, HandlePollRequest
  <2>4. Typed'
    BY <1>0, <1>1, <2>0, <2>1, <2>2, <2>3 DEF Typed, parent
  <2>. QED BY <1>3, <2>0, <2>4
<1>. QED BY <1>5, <1>6, <1>7, <1>8, <1>9 DEF MainLoopTxNext

\* The whole step.
LEMMA StepTypes ==
  ASSUME Typed, SlotsGuarded, fault \/ Kinds, Next
  PROVE  Typed' /\ SlotsGuarded'
<1>0. ~fault /\ Kinds
  BY DEF Next, Idle, Typed
<1>1. ASSUME UNCHANGED parent PROVE SlotsGuarded'
  BY <1>1 DEF parent, SlotsGuarded
<1>2. CASE \/ \E b \in Buf, p \in Peer, t \in {"direct", "indirect"} : McpsDataRequest(b, p, t)
           \/ \E b \in Buf, p \in Peer, t \in ParentFrames \cup ChildFrames : Receive(b, t, p)
           \/ \E b \in Buf : PollRequest(b) \/ Rescan(b)
           \/ CallerServed
  <2>1. UNCHANGED parent
    BY <1>2 DEF McpsDataRequest, Receive, PollRequest, Rescan, CallerServed, IndirectDataCallbackCaller
  <2>2. PICK b \in Buf : \/ \E p \in Peer, t \in {"direct", "indirect"} : McpsDataRequest(b, p, t)
                         \/ \E p \in Peer, t \in ParentFrames \cup ChildFrames : Receive(b, t, p)
                         \/ PollRequest(b) \/ Rescan(b) \/ IndirectDataCallbackCaller(b)
    BY <1>2, Zenon DEF CallerServed
  <2>3. Typed'
    BY <2>2, FreshTypes
  <2>. QED BY <1>1, <2>1, <2>3
<1>3. CASE \E s \in Slot : PendingDataTimeout(s)
  <2>1. Typed'
    BY <1>0, <1>3, AlarmTypes DEF Kinds
  <2>2. PICK s \in Slot : ClearSlot(s)
    BY <1>3 DEF PendingDataTimeout, ClearPendingSlot
  <2>. QED BY <2>1, <2>2, ClearedGuarded
<1>4. CASE (\E t \in {"ass", "poll"} : IndirectDataTimeout(t)) \/ AssociateRequest \/ RespTimeout \/ TxInterrupt
  <2>1. UNCHANGED parent
    BY <1>4 DEF IndirectDataTimeout, AssociateRequest, RespTimeout, TxInterrupt
  <2>2. Typed'
    BY <1>0, <1>4, AlarmTypes DEF Kinds
  <2>. QED BY <1>1, <2>1, <2>2
<1>5. CASE RunCallback
  BY <1>5, CalledTypes
<1>6. CASE MainLoopTxDone
  BY <1>0, <1>6, EndedTypes
<1>7. CASE MainLoopTxNext
  BY <1>0, <1>7, StartedTypes
<1>. QED BY <1>2, <1>3, <1>4, <1>5, <1>6, <1>7 DEF Next
-----------------------------------------------------------------------------
\* Sound, one lemma per action.  What stays of the queues.
LEMMA MembersTyped ==
  ASSUME Typed
  PROVE  /\ \A e \in Members(cbq) : e \in CbRefs /\ e.buf \in Buf /\ e.func \in Callbacks
         /\ \A e \in Members(txq) : e \in TxRefs /\ e.buf \in Buf \cup {NONE} /\ e.func \in TxCallbacks
<1>1. \A S : \A q \in Seq(S) : \A e \in Members(q) : e \in S
  BY ElementOfSeq, LenProperties DEF Members
<1>2. /\ \A e \in Members(cbq) : e \in CbRefs
      /\ \A e \in Members(txq) : e \in TxRefs
  BY <1>1 DEF Typed
<1>. QED BY <1>2 DEF CbRefs, TxRefs

LEMMA FitsKept ==
  ASSUME Typed, Kinds, \A e \in Members(txq) : e.buf # NONE => content'[e.buf] = content[e.buf]
  PROVE  \A e \in Members(txq) : Fits(e)'
<1>1. ASSUME NEW e \in Members(txq) PROVE Fits(e)'
  <2>1. Fits(e)
    BY DEF Kinds, TxqKind
  <2>2. e.buf # NONE => content'[e.buf] = content[e.buf]
    OBVIOUS
  <2>. QED BY <2>1, <2>2 DEF Fits, TxCallbacks
<1>. QED BY <1>1

\* A free buffer is filled.
LEMMA FreshRest ==
  ASSUME Typed, Typed', Sound, NEW b \in Buf, content[b].type = "free",
         NEW t \in ContentTypes, NEW p \in Peer \cup {NONE}, content' = Filled(content, b, t, p),
         UNCHANGED <<txWait, dataReq, slots, outq>>, bufRef' = bufRef, PollKept' => PollKept
  PROVE  /\ content'[b].type = t /\ \A x \in Buf : x # b => content'[x] = content[x]
         /\ Off(cbq, b) /\ Off(txq, b) /\ Aside(b) /\ ~Awaited(b)
         /\ Has(cbq, b) = 0 /\ Has(txq, b) = 0
         /\ \A e \in Members(cbq) : content'[e.buf] = content[e.buf]
         /\ \A e \in Members(txq) : e.buf # NONE => content'[e.buf] = content[e.buf]
         /\ SentKind' /\ SlotKind' /\ OutKind' /\ PollKind'
         /\ \A e \in Members(txq) : Fits(e)'
<1>1. content'[b].type = t /\ \A x \in Buf : x # b => content'[x] = content[x]
  BY ContentFilled
<1>2. /\ Off(cbq, b) /\ Off(txq, b) /\ Apart(b) /\ Has(cbq, b) = 0 /\ Has(txq, b) = 0
  BY Unused DEF Sound
<1>3. /\ \A e \in Members(cbq) : content'[e.buf] = content[e.buf]
      /\ \A e \in Members(txq) : e.buf # NONE => content'[e.buf] = content[e.buf]
  BY <1>1, <1>2, MembersTyped DEF Off
<1>4. \A x \in Buf : content'[x] = content[x] \/ Aside(x)
  BY <1>1, <1>2 DEF Apart
<1>5. SentKind' /\ SlotKind' /\ OutKind'
  BY <1>4, PlacesKept DEF Sound
<1>6. PollKind'
  BY <1>4, PollKindKept DEF Sound
<1>7. \A e \in Members(txq) : Fits(e)'
  BY <1>3, FitsKept DEF Sound
<1>. QED BY <1>1, <1>2, <1>3, <1>5, <1>6, <1>7 DEF Apart

LEMMA McpsDataRequestSound ==
  ASSUME Typed, Typed', Sound, NEW b \in Buf, NEW p \in Peer, NEW t \in {"direct", "indirect"},
         McpsDataRequest(b, p, t)
  PROVE  Sound'
<1>0. /\ content[b].type = "free" /\ t \in ContentTypes /\ p \in Peer \cup {NONE} /\ content' = Filled(content, b, t, p)
      /\ UNCHANGED <<cbq, pendingBuf>> /\ UNCHANGED parent /\ UNCHANGED radio /\ UNCHANGED child
      /\ asked' = IF t = "direct" THEN Append(asked, b) ELSE asked
      /\ "mcps_data_req" \in TxCallbacks
  BY AllocatedFree DEF McpsDataRequest, ContentTypes, Requests, TxCallbacks
<1>u. /\ UNCHANGED <<txWait, dataReq, slots, outq>> /\ bufRef' = bufRef /\ (PollKept' => PollKept)
      /\ upper' = upper /\ timers' = timers /\ flags' = flags /\ caller' = caller
  BY <1>0 DEF parent, radio, child, PollKept
<1>1. /\ content'[b].type = t /\ \A x \in Buf : x # b => content'[x] = content[x]
      /\ Off(cbq, b) /\ Off(txq, b) /\ Aside(b) /\ ~Awaited(b)
      /\ Has(cbq, b) = 0 /\ Has(txq, b) = 0
      /\ \A e \in Members(cbq) : content'[e.buf] = content[e.buf]
      /\ SentKind' /\ SlotKind' /\ OutKind' /\ PollKind'
      /\ \A e \in Members(txq) : Fits(e)'
  BY <1>0, <1>u, FreshRest
<1>2. PICK e : e = Ref("mcps_data_req", b) /\ txq' = Append(txq, e)
  BY DEF McpsDataRequest
<1>3. /\ e.func = "mcps_data_req" /\ e.buf = b /\ txq' \in Seq(TxRefs)
      /\ Members(txq') = Members(txq) \cup {e}
      /\ \A x : Has(txq', x) = Has(txq, x) + (IF b = x THEN 1 ELSE 0)
      /\ \A c : \A P \in SUBSET Buf : Picked(txq', c, P) = IF "mcps_data_req" = c /\ b \in P THEN Append(Picked(txq, c, P), b)
                                                       ELSE Picked(txq, c, P)
  BY <1>0, <1>2, TxqPut
<1>4. Kinds'
  <2>1. CbqKind'
    BY <1>0, <1>1 DEF Sound, Kinds, CbqKind
  <2>2. Fits(e)'
    BY <1>1, <1>3 DEF Fits, Buf, NONE
  <2>3. TxqKind'
    BY <1>1, <1>3, <2>2 DEF TxqKind
  <2>4. AboveKind'
    BY <1>1, <1>u, AboveKindKept DEF Sound
  <2>. QED BY <1>1, <2>1, <2>3, <2>4 DEF Kinds
<1>5. UsedOnce'
  <2>1. ASSUME NEW x \in Buf, x # b PROVE NoMore(x)
    <3>1. InSlots(slots, x) \in Nat /\ Has(cbq, x) \in Nat /\ Has(txq, x) \in Nat
      BY UsesFacts DEF Sound
    <3>2. Awaited(x)' => Awaited(x)
      BY <1>0, <1>1, <1>u, <2>1 DEF Awaited
    <3>3. Has(txq', x) = Has(txq, x) + 0
      BY <1>3, <2>1
    <3>. QED BY <1>0, <1>u, <3>1, <3>2, <3>3 DEF NoMore
  <2>2. Uses(b)' = Has(cbq', b) + Has(txq', b)
    <3>1. ~Awaited(b)'
      BY <1>1 DEF Awaited
    <3>2. /\ \A s \in Slot : slots'[s].buf # b
          /\ ~(txWait'.func = "data_continue" /\ txWait'.buf = b) /\ b \notin outq'
          /\ ~(PollKept' /\ bufRef' = b) /\ upper'.buf # b
      BY <1>u, <1>1 DEF Aside
    <3>. QED BY <3>1, <3>2, InOnePlace
  <2>3. Has(cbq', b) = 0 /\ Has(txq', b) = 1
    BY <1>0, <1>1, <1>3
  <2>. QED BY <1>1, <2>1, <2>2, <2>3, UsedOnceKept DEF Sound
<1>6. Associating'
  <2>1. AssocKept /\ ConfirmsKept
    BY <1>0, <1>u, <1>1, <1>3 DEF AssocKept, ConfirmsKept
  <2>2. Closing(cbq', Failing, Confirms)
    BY <1>0 DEF Sound, Associating, FailureLast
  <2>. QED BY <2>1, <2>2, AssociatingKept DEF Sound
<1>7. Ordered'
  <2>0. Direct \in SUBSET Buf /\ Direct' \in SUBSET Buf /\ b \notin Direct /\ (b \in Direct' <=> t = "direct")
        /\ \A x \in Buf : x # b => (x \in Direct <=> x \in Direct')
    BY <1>0, <1>1 DEF Direct
  <2>1. Picked(cbq', "data_confirm", Direct') = Picked(cbq, "data_confirm", Direct)
    <3>1. \A x \in Members(cbq) : x.buf \in Direct <=> x.buf \in Direct'
      BY <1>1, <2>0, MembersTyped DEF Off
    <3>2. cbq \in Seq(CbRefs)
      BY DEF Typed
    <3>. QED BY <1>0, <2>0, <3>1, <3>2, PickedSame
  <2>2. Picked(txq, "mcps_data_req", Direct') = Picked(txq, "mcps_data_req", Direct)
    <3>1. \A x \in Members(txq) : x.buf \in Direct <=> x.buf \in Direct'
      BY <1>1, <2>0, MembersTyped DEF Off, Direct
    <3>2. txq \in Seq(TxRefs)
      BY DEF Typed
    <3>. QED BY <2>0, <3>1, <3>2, PickedSame
  <2>3. Transmitting' = Transmitting
    BY <1>u DEF Transmitting
  <2>4. Picked(txq', "mcps_data_req", Direct') = IF t = "direct" THEN Append(Picked(txq, "mcps_data_req", Direct), b)
                                                 ELSE Picked(txq, "mcps_data_req", Direct)
    BY <1>3, <2>0, <2>2
  <2>5. CASE t = "direct"
    <3>1. PICK a \in Seq(Buf), w \in Seq(Buf), m \in Seq(Buf) :
             a = Picked(cbq, "data_confirm", Direct) /\ w = Picked(txq, "mcps_data_req", Direct) /\ m = Transmitting
      <4>1. Picked(cbq, "data_confirm", Direct) \in Seq(Buf) /\ Picked(txq, "mcps_data_req", Direct) \in Seq(Buf)
        BY <2>0, PickedType, SeqMonotonic DEF Typed
      <4>2. Transmitting \in Seq(Buf)
        BY DEF Transmitting, Sound, Kinds, SentKind
      <4>. QED BY <4>1, <4>2
    <3>2. asked = a \o m \o w /\ asked' = Append(a \o m \o w, b)
      BY <1>0, <2>5, <3>1 DEF Sound, Ordered
    <3>3. a \o m \o Append(w, b) = Append(a \o m \o w, b)
      BY RequestWaits
    <3>. QED BY <2>1, <2>3, <2>4, <2>5, <3>1, <3>2, <3>3 DEF Ordered
  <2>6. CASE t = "indirect"
    BY <1>0, <2>1, <2>3, <2>4, <2>6 DEF Sound, Ordered
  <2>. QED BY <2>5, <2>6
<1>. QED BY <1>4, <1>5, <1>6, <1>7 DEF Sound
LEMMA FreshUsed ==
  ASSUME Typed, Typed', Sound, NEW b \in Buf, content'[b].type \notin {"free", "assocReq"},
         \A x \in Buf : x # b => content'[x] = content[x], Aside(b),
         UNCHANGED <<txWait, slots, outq, pendingBuf, timers>>, bufRef' = bufRef, PollKept' => PollKept,
         upper'.buf = upper.buf, Has(cbq', b) + Has(txq', b) = 1,
         \A x \in Buf : x # b => Has(cbq', x) = Has(cbq, x) /\ Has(txq', x) = Has(txq, x)
  PROVE  UsedOnce'
<1>1. ASSUME NEW x \in Buf, x # b PROVE NoMore(x)
  <2>1. InSlots(slots, x) \in Nat /\ Has(cbq, x) \in Nat /\ Has(txq, x) \in Nat
    BY UsesFacts DEF Sound
  <2>2. Awaited(x)' => Awaited(x)
    BY <1>1 DEF Awaited
  <2>. QED BY <1>1, <2>1, <2>2 DEF NoMore
<1>2. Uses(b)' = Has(cbq', b) + Has(txq', b)
  <2>1. ~Awaited(b)'
    BY DEF Awaited
  <2>2. /\ \A s \in Slot : slots'[s].buf # b
        /\ ~(txWait'.func = "data_continue" /\ txWait'.buf = b) /\ b \notin outq'
        /\ ~(PollKept' /\ bufRef' = b) /\ upper'.buf # b
    BY DEF Aside
  <2>. QED BY <2>1, <2>2, InOnePlace
<1>. QED BY <1>1, <1>2, UsedOnceKept DEF Sound

LEMMA OrderCalm ==
  ASSUME Typed', Ordered, asked' = asked, Transmitting' = Transmitting,
         Picked(cbq', "data_confirm", Direct) = Picked(cbq, "data_confirm", Direct),
         Picked(txq', "mcps_data_req", Direct) = Picked(txq, "mcps_data_req", Direct),
         \A e \in Members(cbq') : e.func = "data_confirm" => content'[e.buf] = content[e.buf],
         \A e \in Members(txq') : e.func = "mcps_data_req" => content'[e.buf] = content[e.buf]
  PROVE  Ordered'
<1>1. /\ \A e \in Members(cbq') : e.func = "data_confirm" => (e.buf \in Direct <=> e.buf \in Direct')
      /\ \A e \in Members(txq') : e.func = "mcps_data_req" => (e.buf \in Direct <=> e.buf \in Direct')
  BY DEF Direct
<1>2. cbq' \in Seq(CbRefs) /\ txq' \in Seq(TxRefs)
  BY DEF Typed
<1>. QED BY <1>1, <1>2, OrderKept

LEMMA ReceiveSound ==
  ASSUME Typed, Typed', Sound, NEW b \in Buf, NEW p \in Peer, NEW t \in ParentFrames \cup ChildFrames,
         Receive(b, t, p)
  PROVE  Sound'
<1>0. /\ content[b].type = "free" /\ t \in ContentTypes /\ p \in Peer \cup {NONE} /\ content' = Filled(content, b, t, p)
      /\ UNCHANGED <<txq, pendingBuf, asked>> /\ UNCHANGED parent /\ UNCHANGED radio /\ UNCHANGED child
      /\ "parse_recv_data" \in Callbacks /\ t \notin {"free", "assocReq"}
  BY AllocatedFree DEF Receive, ContentTypes, Callbacks, ParentFrames, ChildFrames
<1>u. /\ UNCHANGED <<txWait, dataReq, slots, outq>> /\ bufRef' = bufRef /\ (PollKept' => PollKept)
      /\ upper' = upper /\ timers' = timers /\ flags' = flags /\ caller' = caller
  BY <1>0 DEF parent, radio, child, PollKept
<1>1. /\ content'[b].type = t /\ \A x \in Buf : x # b => content'[x] = content[x]
      /\ Off(cbq, b) /\ Off(txq, b) /\ Aside(b) /\ ~Awaited(b)
      /\ Has(cbq, b) = 0 /\ Has(txq, b) = 0
      /\ \A e \in Members(cbq) : content'[e.buf] = content[e.buf]
      /\ \A e \in Members(txq) : e.buf # NONE => content'[e.buf] = content[e.buf]
      /\ SentKind' /\ SlotKind' /\ OutKind' /\ PollKind'
      /\ \A e \in Members(txq) : Fits(e)'
  BY <1>0, <1>u, FreshRest
<1>2. PICK e : e = Ref("parse_recv_data", b) /\ cbq' = Append(cbq, e)
  BY DEF Receive
<1>3. /\ e \in CbRefs /\ e.func = "parse_recv_data" /\ e.buf = b
      /\ Members(cbq') = Members(cbq) \cup {e}
      /\ \A x : Has(cbq', x) = Has(cbq, x) + (IF b = x THEN 1 ELSE 0)
  BY <1>0, <1>2, CbqPut
<1>c. /\ Closing(cbq', Failing, Confirms)
      /\ \A x \in Members(cbq') : ~Calm(x) => x \in Members(cbq)
      /\ Picked(cbq', "data_confirm", Direct) = Picked(cbq, "data_confirm", Direct)
  <2>1. cbq \in Seq(CbRefs) /\ Closing(cbq, Failing, Confirms) /\ Calm(e)
    BY <1>3 DEF Typed, Sound, Associating, FailureLast, Calm
  <2>. QED BY <1>2, <1>3, <2>1, CalmPut
<1>4. Kinds'
  <2>1. CbqKind'
    BY <1>0, <1>1, <1>3 DEF Sound, Kinds, CbqKind
  <2>2. TxqKind'
    BY <1>0, <1>1 DEF TxqKind
  <2>3. AboveKind'
    BY <1>1, <1>u, AboveKindKept DEF Sound
  <2>. QED BY <1>1, <2>1, <2>2, <2>3 DEF Kinds
<1>5. UsedOnce'
  <2>1. Has(cbq', b) + Has(txq', b) = 1
    BY <1>0, <1>1, <1>3
  <2>2. \A x \in Buf : x # b => Has(cbq', x) = Has(cbq, x) /\ Has(txq', x) = Has(txq, x)
    <3>1. \A x \in Buf : Has(cbq, x) \in Nat
      BY UsesFacts DEF Sound
    <3>. QED BY <1>0, <1>3, <3>1
  <2>. QED BY <1>0, <1>u, <1>1, <2>1, <2>2, FreshUsed
<1>6. Associating'
  <2>1. AssocKept /\ ConfirmsKept
    BY <1>0, <1>u, <1>1, <1>c DEF AssocKept, ConfirmsKept, Calm
  <2>. QED BY <1>c, <2>1, AssociatingKept DEF Sound
<1>7. Ordered'
  <2>1. /\ \A x \in Members(cbq') : x.func = "data_confirm" => content'[x.buf] = content[x.buf]
        /\ \A x \in Members(txq') : x.func = "mcps_data_req" => content'[x.buf] = content[x.buf]
    <3>1. \A x \in Members(txq) : x.func = "mcps_data_req" => x.buf # NONE
      BY DEF Sound, Kinds, TxqKind, Fits
    <3>. QED BY <1>0, <1>1, <1>c, <3>1 DEF Calm
  <2>. QED BY <1>0, <1>u, <1>c, <2>1, OrderCalm DEF Sound, Transmitting
<1>. QED BY <1>4, <1>5, <1>6, <1>7 DEF Sound

LEMMA PollRequestSound ==
  ASSUME Typed, Typed', Sound, NEW b \in Buf, PollRequest(b)
  PROVE  Sound'
<1>0. /\ content[b].type = "free" /\ "poll" \in ContentTypes /\ NONE \in Peer \cup {NONE}
      /\ content' = Filled(content, b, "poll", NONE)
      /\ UNCHANGED <<cbq, pendingBuf, flags, bufRef, timers, caller, asked>> /\ UNCHANGED parent /\ UNCHANGED radio
      /\ upper'.assoc = upper.assoc /\ upper'.buf = upper.buf
      /\ "poll_request" \in TxCallbacks
  BY AllocatedFree DEF PollRequest, ContentTypes, Requests, TxCallbacks, Typed
<1>u. UNCHANGED <<txWait, dataReq, slots, outq>> /\ (PollKept' => PollKept)
  BY <1>0 DEF parent, radio, PollKept
<1>1. /\ content'[b].type = "poll" /\ \A x \in Buf : x # b => content'[x] = content[x]
      /\ Off(cbq, b) /\ Off(txq, b) /\ Aside(b) /\ ~Awaited(b)
      /\ Has(cbq, b) = 0 /\ Has(txq, b) = 0
      /\ \A e \in Members(cbq) : content'[e.buf] = content[e.buf]
      /\ \A e \in Members(txq) : e.buf # NONE => content'[e.buf] = content[e.buf]
      /\ SentKind' /\ SlotKind' /\ OutKind' /\ PollKind'
      /\ \A e \in Members(txq) : Fits(e)'
  BY <1>0, <1>u, FreshRest
<1>2. PICK e : e = Ref("poll_request", b) /\ txq' = Append(txq, e)
  BY DEF PollRequest
<1>3. /\ e.func = "poll_request" /\ e.buf = b
      /\ Members(txq') = Members(txq) \cup {e}
      /\ \A x : Has(txq', x) = Has(txq, x) + (IF b = x THEN 1 ELSE 0)
      /\ \A c : \A P \in SUBSET Buf : Picked(txq', c, P) = IF "poll_request" = c /\ b \in P THEN Append(Picked(txq, c, P), b)
                                                           ELSE Picked(txq, c, P)
  BY <1>0, <1>2, TxqPut
<1>4. Kinds'
  <2>1. CbqKind'
    BY <1>0, <1>1 DEF Sound, Kinds, CbqKind
  <2>2. Fits(e)'
    BY <1>1, <1>3 DEF Fits, Buf, NONE
  <2>3. TxqKind'
    BY <1>1, <1>3, <2>2 DEF TxqKind
  <2>4. AboveKind'
    BY <1>0, <1>1, AboveKindKept DEF Sound
  <2>. QED BY <1>1, <2>1, <2>3, <2>4 DEF Kinds
<1>5. UsedOnce'
  <2>1. Has(cbq', b) + Has(txq', b) = 1
    BY <1>0, <1>1, <1>3
  <2>2. \A x \in Buf : x # b => Has(cbq', x) = Has(cbq, x) /\ Has(txq', x) = Has(txq, x)
    <3>1. \A x \in Buf : Has(txq, x) \in Nat
      BY UsesFacts DEF Sound
    <3>. QED BY <1>0, <1>3, <3>1
  <2>. QED BY <1>0, <1>u, <1>1, <2>1, <2>2, FreshUsed
<1>6. Associating'
  <2>1. AssocKept /\ ConfirmsKept
    BY <1>0, <1>u, <1>1, <1>3 DEF AssocKept, ConfirmsKept
  <2>2. Closing(cbq', Failing, Confirms)
    BY <1>0 DEF Sound, Associating, FailureLast
  <2>. QED BY <2>1, <2>2, AssociatingKept DEF Sound
<1>7. Ordered'
  <2>1. /\ \A x \in Members(cbq') : x.func = "data_confirm" => content'[x.buf] = content[x.buf]
        /\ \A x \in Members(txq') : x.func = "mcps_data_req" => content'[x.buf] = content[x.buf]
    <3>1. \A x \in Members(txq) : x.func = "mcps_data_req" => x.buf # NONE
      BY DEF Sound, Kinds, TxqKind, Fits
    <3>. QED BY <1>0, <1>1, <1>3, <3>1
  <2>2. Direct \in SUBSET Buf
    BY DEF Direct
  <2>3. Picked(txq', "mcps_data_req", Direct) = Picked(txq, "mcps_data_req", Direct)
    BY <1>3, <2>2
  <2>. QED BY <1>0, <1>u, <2>1, <2>3, OrderCalm DEF Sound, Transmitting
<1>. QED BY <1>4, <1>5, <1>6, <1>7 DEF Sound
LEMMA RescanSound ==
  ASSUME Typed, Typed', Sound, NEW b \in Buf, Rescan(b)
  PROVE  Sound'
<1>0. /\ content[b].type = "free" /\ "assocReq" \in ContentTypes /\ NONE \in Peer \cup {NONE}
      /\ content' = Filled(content, b, "assocReq", NONE) /\ pendingBuf' = b
      /\ UNCHANGED <<cbq, txq, flags, bufRef, timers, caller, asked>> /\ UNCHANGED parent /\ UNCHANGED radio
      /\ upper.assoc = "failed" /\ upper'.assoc = "scanned" /\ upper'.buf = b
  BY AllocatedFree DEF Rescan, ContentTypes, Requests
<1>u. UNCHANGED <<txWait, dataReq, slots, outq>> /\ (PollKept' => PollKept)
  BY <1>0 DEF parent, radio, PollKept
<1>1. /\ content'[b].type = "assocReq" /\ \A x \in Buf : x # b => content'[x] = content[x]
      /\ Off(cbq, b) /\ Off(txq, b) /\ Aside(b)
      /\ Has(cbq, b) = 0 /\ Has(txq, b) = 0 /\ InSlots(slots, b) = 0
      /\ \A e \in Members(cbq) : content'[e.buf] = content[e.buf]
      /\ \A e \in Members(txq) : e.buf # NONE => content'[e.buf] = content[e.buf]
      /\ SentKind' /\ SlotKind' /\ OutKind' /\ PollKind'
      /\ \A e \in Members(txq) : Fits(e)'
  <2>1. InSlots(slots, b) = 0
    BY <1>0, Unused DEF Sound
  <2>. QED BY <1>0, <1>u, <2>1, FreshRest
<1>2. /\ ~Asking /\ ~Asking' /\ ~Owed /\ ~Owed'
      /\ \A e \in Members(cbq) : e \notin Confirms
  <2>1. ~Asking /\ ~Owed /\ \A e \in Members(cbq) : e \notin Confirms
    BY <1>0 DEF Sound, Associating, NothingLeft
  <2>. QED BY <1>0, <1>u, <2>1 DEF Asking, Owed, Queued
<1>4. Kinds'
  <2>1. CbqKind'
    BY <1>0, <1>1 DEF Sound, Kinds, CbqKind
  <2>3. TxqKind'
    BY <1>0, <1>1 DEF TxqKind
  <2>4. AboveKind'
    BY <1>0, <1>1 DEF AboveKind, Buf, NONE
  <2>. QED BY <1>1, <2>1, <2>3, <2>4 DEF Kinds
<1>5. UsedOnce'
  <2>0. ~(txWait'.func = "association_continue" \/ "resp" \in timers')
    BY <1>2 DEF Asking
  <2>1. ASSUME NEW x \in Buf, x # b PROVE NoMore(x)
    <3>1. InSlots(slots, x) \in Nat /\ Has(cbq, x) \in Nat /\ Has(txq, x) \in Nat
      BY UsesFacts DEF Sound
    <3>2. ~Awaited(x)'
      BY <2>0 DEF Awaited
    <3>. QED BY <1>0, <1>u, <2>1, <3>1, <3>2 DEF NoMore
  <2>2. Uses(b)' = 1
    <3>1. ~Awaited(b)'
      BY <2>0 DEF Awaited
    <3>2. /\ Has(cbq', b) = 0 /\ Has(txq', b) = 0 /\ InSlots(slots', b) = 0
      BY <1>0, <1>u, <1>1
    <3>3. /\ ~(txWait'.func = "data_continue" /\ txWait'.buf = b) /\ b \notin outq'
          /\ ~(PollKept' /\ bufRef' = b)
      BY <1>0, <1>u, <1>1 DEF Aside
    <3>. QED BY <1>0, <3>1, <3>2, <3>3 DEF Uses
  <2>. QED BY <1>1, <2>1, <2>2, UsedOnceKept DEF Sound
<1>6. Associating'
  <2>1. OneRequest'
    BY <1>0, <1>u DEF Sound, Associating, OneRequest, Queued
  <2>2. NothingLeft'
    BY <1>0, <1>2 DEF NothingLeft
  <2>3. FailureLast'
    <3>1. Closing(cbq', Failing', Confirms)
      BY <1>0, <1>2 DEF Closing, Members
    <3>2. ~("indirect_ass" \in timers' /\ caller' = "ass")
      BY <1>0 DEF Sound, Associating, FailureLast
    <3>. QED BY <1>2, <3>1, <3>2 DEF FailureLast
  <2>. QED BY <2>1, <2>2, <2>3 DEF Associating
<1>7. Ordered'
  <2>1. /\ \A x \in Members(cbq') : x.func = "data_confirm" => content'[x.buf] = content[x.buf]
        /\ \A x \in Members(txq') : x.func = "mcps_data_req" => content'[x.buf] = content[x.buf]
    <3>1. \A x \in Members(txq) : x.func = "mcps_data_req" => x.buf # NONE
      BY DEF Sound, Kinds, TxqKind, Fits
    <3>. QED BY <1>0, <1>1, <3>1
  <2>. QED BY <1>0, <1>u, <2>1, OrderCalm DEF Sound, Transmitting
<1>. QED BY <1>4, <1>5, <1>6, <1>7 DEF Sound

\* A confirm of an association is scheduled when no request is under way, and no
\* failure if the parent's answer is still owed.
LEMMA ConfirmGiven ==
  ASSUME Typed, Typed', Associating, NEW q \in Seq(CbRefs), NEW e \in CbRefs, e.func = "associate_confirm",
         cbq' = Append(q, e), Closing(q, Failing, Confirms),
         \A x \in Members(q) : x \notin Failing /\ (x.func = "associate_confirm" => content'[x.buf] = content[x.buf]),
         OneRequest', ~Asking', upper'.assoc \notin {"scanned", "failed"},
         content'[e.buf].type = "assocOk" \/ ~Owed', ~("indirect_ass" \in timers' /\ caller' = "ass")
  PROVE  Associating'
<1>1. \A x \in Members(q) : x \notin Failing'
  BY DEF Failing, Confirms
<1>2. Closing(q, Failing', Confirms)
  BY <1>1, ClosingFewer
<1>3. PICK F : F = Failing'
  OBVIOUS
<1>4. Closing(q, F, Confirms) /\ \A x \in Members(q) : x \notin F
  BY <1>1, <1>2, <1>3
<1>5. Closing(cbq', F, Confirms)
  BY <1>4, ClosingPut
<1>6. Members(cbq') = Members(q) \cup {e}
  BY PutFacts
<1>7. (\E x \in Members(cbq') : x \in Failing') => ~Owed'
  <2>1. e \in Failing' => ~Owed'
    BY DEF Failing
  <2>. QED BY <1>1, <1>6, <2>1
<1>8. FailureLast'
  BY <1>3, <1>5, <1>7 DEF FailureLast
<1>9. NothingLeft'
  BY DEF NothingLeft
<1>. QED BY <1>8, <1>9 DEF Associating

LEMMA CallerServedSound ==
  ASSUME Typed, Typed', Sound, NEW b \in Buf, IndirectDataCallbackCaller(b)
  PROVE  Sound'
<1>f. PICK f \in Callbacks : f = IF caller = "ass" THEN "associate_confirm" ELSE "poll_confirm"
  BY DEF Callbacks
<1>0. /\ content[b].type = "free" /\ "assocFail" \in ContentTypes /\ NONE \in Peer \cup {NONE}
      /\ content' = Filled(content, b, "assocFail", NONE)
      /\ UNCHANGED <<txq, pendingBuf, bufRef, timers, upper, asked>> /\ UNCHANGED parent /\ UNCHANGED radio
      /\ caller \in {"ass", "poll"} /\ caller' = "idle" /\ flags' = flags \ {caller}
      /\ cbq' = Append(cbq, Ref(f, b))
  BY <1>f, AllocatedFree DEF IndirectDataCallbackCaller, CallIndirectDataCallback, ContentTypes, Typed
<1>u. UNCHANGED <<txWait, dataReq, slots, outq>> /\ (PollKept' => PollKept)
  BY <1>0 DEF parent, radio, PollKept
<1>1. /\ content'[b].type = "assocFail" /\ \A x \in Buf : x # b => content'[x] = content[x]
      /\ Off(cbq, b) /\ Off(txq, b) /\ Aside(b) /\ ~Awaited(b)
      /\ Has(cbq, b) = 0 /\ Has(txq, b) = 0
      /\ \A e \in Members(cbq) : content'[e.buf] = content[e.buf]
      /\ \A e \in Members(txq) : e.buf # NONE => content'[e.buf] = content[e.buf]
      /\ SentKind' /\ SlotKind' /\ OutKind' /\ PollKind'
      /\ \A e \in Members(txq) : Fits(e)'
  BY <1>0, <1>u, FreshRest
<1>2. PICK e : e = Ref(f, b) /\ cbq' = Append(cbq, e)
  BY <1>0
<1>3. /\ e \in CbRefs /\ e.func = f /\ e.buf = b
      /\ Members(cbq') = Members(cbq) \cup {e}
      /\ \A x : Has(cbq', x) = Has(cbq, x) + (IF b = x THEN 1 ELSE 0)
      /\ \A c : \A P \in SUBSET Buf : Picked(cbq', c, P) = IF f = c /\ b \in P THEN Append(Picked(cbq, c, P), b)
                                                           ELSE Picked(cbq, c, P)
  BY <1>0, <1>2, CbqPut
<1>4. Kinds'
  <2>1. CbqKind'
    BY <1>0, <1>1, <1>3 DEF Sound, Kinds, CbqKind
  <2>2. TxqKind'
    BY <1>0, <1>1 DEF TxqKind
  <2>3. AboveKind'
    BY <1>0, <1>1, <1>u, AboveKindKept DEF Sound
  <2>. QED BY <1>1, <2>1, <2>2, <2>3 DEF Kinds
<1>5. UsedOnce'
  <2>1. Has(cbq', b) + Has(txq', b) = 1
    BY <1>0, <1>1, <1>3
  <2>2. \A x \in Buf : x # b => Has(cbq', x) = Has(cbq, x) /\ Has(txq', x) = Has(txq, x)
    <3>1. \A x \in Buf : Has(cbq, x) \in Nat
      BY UsesFacts DEF Sound
    <3>. QED BY <1>0, <1>3, <3>1
  <2>. QED BY <1>0, <1>u, <1>1, <2>1, <2>2, FreshUsed
<1>6. Associating'
  <2>0. cbq \in Seq(CbRefs) /\ Closing(cbq, Failing, Confirms)
    BY DEF Typed, Sound, Associating, FailureLast
  <2>1. CASE caller = "poll"
    <3>1. Calm(e)
      BY <1>f, <1>3, <2>1 DEF Calm
    <3>2. /\ Closing(cbq', Failing, Confirms)
          /\ \A x \in Members(cbq') : ~Calm(x) => x \in Members(cbq)
      BY <1>2, <1>3, <2>0, <3>1, CalmPut
    <3>3. AssocKept /\ ConfirmsKept
      BY <1>0, <1>u, <1>1, <2>1, <3>2 DEF AssocKept, ConfirmsKept, Calm
    <3>. QED BY <3>2, <3>3, AssociatingKept DEF Sound
  <2>2. CASE caller = "ass"
    <3>1. Owed
      BY <2>2 DEF Owed
    <3>2. /\ ~Asking /\ upper.assoc \notin {"scanned", "failed"}
          /\ (\A x \in Members(cbq) : x \notin Failing) /\ "indirect_ass" \notin timers
      BY <2>2, <3>1 DEF Sound, Associating, NothingLeft, FailureLast
    <3>3. ~Asking' /\ upper'.assoc \notin {"scanned", "failed"} /\ OneRequest'
      BY <1>0, <1>u, <3>2 DEF Asking, Queued, Sound, Associating, OneRequest
    <3>4. ~Owed'
      BY <1>0, <2>2, <3>2 DEF Owed
    <3>5. e.func = "associate_confirm"
      BY <1>f, <1>3, <2>2
    <3>6. ~("indirect_ass" \in timers' /\ caller' = "ass")
      BY <1>0
    <3>. QED BY <1>1, <1>2, <1>3, <2>0, <3>2, <3>3, <3>4, <3>5, <3>6, ConfirmGiven DEF Sound
  <2>. QED BY <1>0, <2>1, <2>2
<1>7. Ordered'
  <2>0. e.func # "data_confirm"
    BY <1>f, <1>3
  <2>1. /\ \A x \in Members(cbq') : x.func = "data_confirm" => content'[x.buf] = content[x.buf]
        /\ \A x \in Members(txq') : x.func = "mcps_data_req" => content'[x.buf] = content[x.buf]
    <3>1. \A x \in Members(txq) : x.func = "mcps_data_req" => x.buf # NONE
      BY DEF Sound, Kinds, TxqKind, Fits
    <3>. QED BY <1>0, <1>1, <1>3, <2>0, <3>1
  <2>2. Direct \in SUBSET Buf
    BY DEF Direct
  <2>3. Picked(cbq', "data_confirm", Direct) = Picked(cbq, "data_confirm", Direct)
    BY <1>3, <2>0, <2>2
  <2>. QED BY <1>0, <1>u, <2>1, <2>3, OrderCalm DEF Sound, Transmitting
<1>. QED BY <1>4, <1>5, <1>6, <1>7 DEF Sound

LEMMA PendingDataTimeoutSound ==
  ASSUME Typed, Typed', SlotsGuarded, Sound, NEW s \in Slot, PendingDataTimeout(s)
  PROVE  Sound'
<1>0. /\ UNCHANGED <<content, txq, pendingBuf, outq, asked>> /\ UNCHANGED radio /\ UNCHANGED child
      /\ slots' = [slots EXCEPT ![s] = EmptySlot] /\ "comm_status" \in Callbacks
      /\ EmptySlot \in SlotValues /\ EmptySlot.buf = NONE
  BY DEF PendingDataTimeout, ClearPendingSlot, ClearSlot, Callbacks, EmptySlot, SlotValues
<1>u. /\ UNCHANGED <<txWait, dataReq, bufRef, upper, timers, flags, caller>>
      /\ PollKept' = PollKept
  BY <1>0 DEF radio, child, PollKept
<1>1. PICK d \in Buf : d = slots[s].buf /\ content[d].type \in {"indirect", "assocResp"}
  BY DEF PendingDataTimeout, SlotsGuarded, Sound, Kinds, SlotKind
<1>2. /\ content[d].type # "free" /\ Off(cbq, d) /\ Off(txq, d)
      /\ Has(cbq, d) = 0 /\ Has(txq, d) = 0 /\ InSlots(slots, d) = 1
      /\ ~(txWait.func = "data_continue" /\ txWait.buf = d)
      /\ d \notin outq /\ ~(PollKept /\ bufRef = d) /\ upper.buf # d /\ ~Awaited(d)
  BY <1>1, InSlot DEF Sound
<1>3. PICK e : e = Ref("comm_status", d) /\ cbq' = Append(cbq, e)
  BY <1>1 DEF PendingDataTimeout
<1>4. /\ e \in CbRefs /\ e.func = "comm_status" /\ e.buf = d
      /\ Members(cbq') = Members(cbq) \cup {e}
      /\ \A x : Has(cbq', x) = Has(cbq, x) + (IF d = x THEN 1 ELSE 0)
  BY <1>0, <1>3, CbqPut
<1>c. /\ Closing(cbq', Failing, Confirms)
      /\ \A x \in Members(cbq') : ~Calm(x) => x \in Members(cbq)
      /\ Picked(cbq', "data_confirm", Direct) = Picked(cbq, "data_confirm", Direct)
  <2>1. cbq \in Seq(CbRefs) /\ Closing(cbq, Failing, Confirms) /\ Calm(e)
    BY <1>4 DEF Typed, Sound, Associating, FailureLast, Calm
  <2>. QED BY <1>3, <1>4, <2>1, CalmPut
<1>5. /\ slots'[s] = EmptySlot /\ \A t \in Slot : t # s => slots'[t] = slots[t]
      /\ \A b \in Buf : InSlots(slots', b) = InSlots(slots, b) - (IF d = b THEN 1 ELSE 0)
  <2>1. /\ slots'[s] = EmptySlot /\ \A t \in Slot : t # s => slots'[t] = slots[t]
        /\ \A b \in Buf : InSlots(slots', b) = InSlots(slots, b) - (IF slots[s].buf = b THEN 1 ELSE 0)
    BY SlotCleared DEF PendingDataTimeout, ClearPendingSlot
  <2>. QED BY <1>1, <2>1
<1>6. Kinds'
  <2>1. CbqKind'
    BY <1>0, <1>1, <1>4 DEF Sound, Kinds, CbqKind
  <2>2. SlotKind'
    BY <1>0, <1>5 DEF Sound, Kinds, SlotKind
  <2>3. TxqKind' /\ SentKind' /\ OutKind' /\ PollKind' /\ AboveKind'
    BY <1>0, <1>u DEF Sound, Kinds, TxqKind, Fits, SentKind, OutKind, PollKind, AboveKind
  <2>. QED BY <2>1, <2>2, <2>3 DEF Kinds
<1>7. UsedOnce'
  <2>0. NONE \notin Buf
    BY DEF NONE, Buf
  <2>1. ASSUME NEW x \in Buf, x # d PROVE NoMore(x) /\ content'[x] = content[x]
    <3>1. InSlots(slots, x) \in Nat /\ Has(cbq, x) \in Nat /\ Has(txq, x) \in Nat
      BY UsesFacts DEF Sound
    <3>2. Has(cbq', x) = Has(cbq, x) + 0 /\ InSlots(slots', x) = InSlots(slots, x) - 0
      BY <1>4, <1>5, <2>0, <2>1
    <3>3. Awaited(x)' => Awaited(x)
      BY <1>0, <1>u DEF Awaited
    <3>. QED BY <1>0, <1>u, <3>1, <3>2, <3>3 DEF NoMore
  <2>2. Uses(d)' = Has(cbq', d) + Has(txq', d)
    <3>1. InSlots(slots', d) = 0
      BY <1>2, <1>5, <2>0
    <3>2. \A t \in Slot : slots'[t].buf # d
      BY <3>1, SlotFacts
    <3>3. ~Awaited(d)'
      BY <1>0, <1>u, <1>2 DEF Awaited
    <3>. QED BY <1>0, <1>u, <1>2, <3>2, <3>3, InOnePlace
  <2>3. Has(cbq', d) = 1 /\ Has(txq', d) = 0
    BY <1>0, <1>2, <1>4
  <2>4. content'[d].type # "free"
    BY <1>0, <1>2
  <2>. QED BY <2>1, <2>2, <2>3, <2>4, UsedOnceKept DEF Sound
<1>8. Associating'
  <2>1. AssocKept /\ ConfirmsKept
    BY <1>0, <1>u, <1>c DEF AssocKept, ConfirmsKept, Calm
  <2>. QED BY <1>c, <2>1, AssociatingKept DEF Sound
<1>9. Ordered'
  BY <1>0, <1>u, <1>c, OrderCalm DEF Sound, Transmitting
<1>. QED BY <1>6, <1>7, <1>8, <1>9 DEF Sound

\* The wait for an indirect frame ends with the buffer the poll left.
LEMMA WaitEndedSound ==
  ASSUME Typed, Typed', Sound, NEW t \in {"ass", "poll"}, IndirectDataTimeout(t), bufRef # NONE
  PROVE  Sound'
<1>f. PICK f \in Callbacks : f = IF t = "ass" THEN "associate_confirm" ELSE "poll_confirm"
  BY DEF Callbacks
<1>0. /\ UNCHANGED <<content, txq, pendingBuf, upper, asked, caller>> /\ UNCHANGED parent /\ UNCHANGED radio
      /\ bufRef' = NONE /\ flags' = flags \ {t} /\ cbq' = Append(cbq, Ref(f, bufRef))
      /\ (t = "ass" => "indirect_ass" \in timers) /\ (t = "poll" => "indirect_poll" \in timers)
      /\ timers' = timers \ {IF t = "ass" THEN "indirect_ass" ELSE "indirect_poll"}
  BY <1>f DEF IndirectDataTimeout, IndirectDataCall, TimeoutCall, CallIndirectDataCallback
<1>u. UNCHANGED <<txWait, dataReq, slots, outq>> /\ PollKept /\ ~PollKept'
  BY <1>0 DEF parent, radio, PollKept
<1>1. PICK b \in Buf : b = bufRef /\ content[b].type = "poll"
  BY <1>u DEF Typed, Sound, Kinds, PollKind
<1>2. /\ Off(cbq, b) /\ Off(txq, b)
      /\ Has(cbq, b) = 0 /\ Has(txq, b) = 0 /\ InSlots(slots, b) = 0
      /\ ~(txWait.func = "data_continue" /\ txWait.buf = b)
      /\ b \notin outq /\ upper.buf # b /\ ~Awaited(b)
  BY <1>1, <1>u, KeptForPoll DEF Sound
<1>3. PICK e : e = Ref(f, b) /\ cbq' = Append(cbq, e)
  BY <1>0, <1>1
<1>4. /\ e \in CbRefs /\ e.func = f /\ e.buf = b
      /\ Members(cbq') = Members(cbq) \cup {e}
      /\ \A x : Has(cbq', x) = Has(cbq, x) + (IF b = x THEN 1 ELSE 0)
      /\ \A c : \A P \in SUBSET Buf : Picked(cbq', c, P) = IF f = c /\ b \in P THEN Append(Picked(cbq, c, P), b)
                                                           ELSE Picked(cbq, c, P)
  BY <1>3, CbqPut
<1>6. Kinds'
  <2>1. CbqKind'
    BY <1>0, <1>1, <1>4 DEF Sound, Kinds, CbqKind
  <2>2. TxqKind' /\ SentKind' /\ SlotKind' /\ OutKind' /\ PollKind' /\ AboveKind'
    BY <1>0, <1>u DEF Sound, Kinds, TxqKind, Fits, SentKind, SlotKind, OutKind, PollKind, AboveKind
  <2>. QED BY <2>1, <2>2 DEF Kinds
<1>7. UsedOnce'
  <2>1. ASSUME NEW x \in Buf, x # b PROVE NoMore(x) /\ content'[x] = content[x]
    <3>1. InSlots(slots, x) \in Nat /\ Has(cbq, x) \in Nat /\ Has(txq, x) \in Nat
      BY UsesFacts DEF Sound
    <3>2. Has(cbq', x) = Has(cbq, x) + 0
      BY <1>4, <2>1
    <3>3. Awaited(x)' => Awaited(x)
      BY <1>0, <1>u DEF Awaited
    <3>. QED BY <1>0, <1>u, <3>1, <3>2, <3>3 DEF NoMore
  <2>2. Uses(b)' = Has(cbq', b) + Has(txq', b)
    <3>1. \A s \in Slot : slots'[s].buf # b
      BY <1>u, <1>2, SlotFacts
    <3>2. ~Awaited(b)'
      BY <1>0, <1>u, <1>2 DEF Awaited
    <3>. QED BY <1>0, <1>u, <1>2, <3>1, <3>2, InOnePlace
  <2>3. Has(cbq', b) = 1 /\ Has(txq', b) = 0
    BY <1>0, <1>2, <1>4
  <2>4. content'[b].type # "free"
    BY <1>0, <1>1
  <2>. QED BY <2>1, <2>2, <2>3, <2>4, UsedOnceKept DEF Sound
<1>8. Associating'
  <2>0. cbq \in Seq(CbRefs) /\ Closing(cbq, Failing, Confirms)
    BY DEF Typed, Sound, Associating, FailureLast
  <2>1. CASE t = "poll"
    <3>1. Calm(e)
      BY <1>f, <1>4, <2>1 DEF Calm
    <3>2. /\ Closing(cbq', Failing, Confirms)
          /\ \A x \in Members(cbq') : ~Calm(x) => x \in Members(cbq)
      BY <1>3, <1>4, <2>0, <3>1, CalmPut
    <3>3. AssocKept /\ ConfirmsKept
      BY <1>0, <1>u, <2>1, <3>2 DEF AssocKept, ConfirmsKept, Calm
    <3>. QED BY <3>2, <3>3, AssociatingKept DEF Sound
  <2>2. CASE t = "ass"
    <3>1. Owed /\ caller # "ass"
      BY <1>0, <2>2 DEF Owed, Sound, Associating, FailureLast
    <3>2. /\ ~Asking /\ upper.assoc \notin {"scanned", "failed"}
          /\ \A x \in Members(cbq) : x \notin Failing
      BY <3>1 DEF Sound, Associating, NothingLeft, FailureLast
    <3>3. ~Asking' /\ upper'.assoc \notin {"scanned", "failed"} /\ OneRequest'
      BY <1>0, <1>u, <3>2 DEF Asking, Queued, Sound, Associating, OneRequest
    <3>4. ~Owed'
      BY <1>0, <2>2, <3>1 DEF Owed
    <3>5. e.func = "associate_confirm"
      BY <1>f, <1>4, <2>2
    <3>6. ~("indirect_ass" \in timers' /\ caller' = "ass")
      BY <1>0, <3>1
    <3>7. \A x \in Members(cbq) : x.func = "associate_confirm" => content'[x.buf] = content[x.buf]
      BY <1>0
    <3>. QED BY <1>3, <1>4, <2>0, <3>2, <3>3, <3>4, <3>5, <3>6, <3>7, ConfirmGiven DEF Sound
  <2>. QED BY <2>1, <2>2
<1>9. Ordered'
  <2>1. Direct \in SUBSET Buf /\ f # "data_confirm"
    BY <1>f DEF Direct
  <2>2. Picked(cbq', "data_confirm", Direct) = Picked(cbq, "data_confirm", Direct)
    BY <1>4, <2>1
  <2>. QED BY <1>0, <1>u, <2>2, OrderCalm DEF Sound, Transmitting
<1>. QED BY <1>6, <1>7, <1>8, <1>9 DEF Sound

LEMMA IndirectDataTimeoutSound ==
  ASSUME Typed, Typed', Sound, NEW t \in {"ass", "poll"}, IndirectDataTimeout(t)
  PROVE  Sound'
<1>1. CASE bufRef # NONE
  BY <1>1, WaitEndedSound
<1>2. CASE bufRef = NONE
  <2>0. /\ UNCHANGED <<content, txq, cbq, pendingBuf, upper, asked, flags, bufRef>> /\ UNCHANGED parent /\ UNCHANGED radio
        /\ (t = "ass" => "indirect_ass" \in timers) /\ caller' = t
        /\ timers' = timers \ {IF t = "ass" THEN "indirect_ass" ELSE "indirect_poll"}
    BY <1>2 DEF IndirectDataTimeout, IndirectDataCall, TimeoutCall
  <2>u. UNCHANGED <<txWait, dataReq, slots, outq>> /\ ~PollKept'
    BY <1>2, <2>0 DEF parent, radio, PollKept
  <2>1. Kinds'
    BY <2>0, <2>u DEF Sound, Kinds, CbqKind, TxqKind, Fits, SentKind, SlotKind, OutKind, PollKind, AboveKind
  <2>2. UsedOnce'
    <3>1. ASSUME NEW x \in Buf PROVE NoMore(x) /\ content'[x] = content[x]
      <4>1. InSlots(slots, x) \in Nat /\ Has(cbq, x) \in Nat /\ Has(txq, x) \in Nat
        BY UsesFacts DEF Sound
      <4>2. Awaited(x)' => Awaited(x)
        BY <2>0, <2>u DEF Awaited
      <4>. QED BY <2>0, <2>u, <4>1, <4>2 DEF NoMore
    <3>2. NONE \notin Buf
      BY DEF NONE, Buf
    <3>. QED BY <3>1, <3>2, UsedOnceKept DEF Sound
  <2>3. Associating'
    <3>1. Closing(cbq', Failing, Confirms) /\ ConfirmsKept
      BY <2>0 DEF Sound, Associating, FailureLast, ConfirmsKept
    <3>2. CASE t = "poll"
      <4>1. AssocKept
        BY <2>0, <2>u, <3>2 DEF AssocKept
      <4>. QED BY <3>1, <4>1, AssociatingKept DEF Sound
    <3>3. CASE t = "ass"
      <4>1. Owed
        BY <2>0, <3>3 DEF Owed
      <4>2. /\ ~Asking /\ upper.assoc \notin {"scanned", "failed"}
            /\ \A x \in Members(cbq) : x \notin Failing
        BY <4>1 DEF Sound, Associating, NothingLeft, FailureLast
      <4>3. ~Asking' /\ upper'.assoc \notin {"scanned", "failed"} /\ OneRequest'
        BY <2>0, <2>u, <4>2 DEF Asking, Queued, Sound, Associating, OneRequest
      <4>4. Failing' = Failing
        BY <2>0 DEF Failing
      <4>5. FailureLast'
        BY <2>0, <3>1, <3>3, <4>2, <4>4 DEF FailureLast
      <4>. QED BY <4>3, <4>5 DEF Associating, NothingLeft
    <3>. QED BY <3>2, <3>3
  <2>4. Ordered'
    BY <2>0, <2>u, OrderCalm DEF Sound, Transmitting
  <2>. QED BY <2>1, <2>2, <2>3, <2>4 DEF Sound
<1>. QED BY <1>1, <1>2

LEMMA AssociateRequestSound ==
  ASSUME Typed, Typed', Sound, AssociateRequest
  PROVE  Sound'
<1>0. /\ UNCHANGED <<content, cbq, pendingBuf, flags, bufRef, timers, caller, asked>> /\ UNCHANGED parent /\ UNCHANGED radio
      /\ upper.assoc = "scanned" /\ upper'.assoc = "asked" /\ upper'.buf = NONE
      /\ "association_req" \in TxCallbacks
  BY DEF AssociateRequest, TxCallbacks, Typed
<1>u. UNCHANGED <<txWait, dataReq, slots, outq>> /\ PollKept' = PollKept
  BY <1>0 DEF parent, radio, PollKept
<1>1. PICK b \in Buf : b = upper.buf /\ content[b].type = "assocReq"
  BY <1>0 DEF Typed, Sound, Kinds, AboveKind
<1>2. /\ Off(cbq, b) /\ Off(txq, b)
      /\ Has(cbq, b) = 0 /\ Has(txq, b) = 0 /\ InSlots(slots, b) = 0
      /\ ~(txWait.func = "data_continue" /\ txWait.buf = b)
      /\ b \notin outq /\ ~(PollKept /\ bufRef = b) /\ ~Awaited(b)
  BY <1>1, HeldAbove DEF Sound
<1>3. PICK e : e = Ref("association_req", b) /\ txq' = Append(txq, e)
  BY <1>1 DEF AssociateRequest
<1>4. /\ e.func = "association_req" /\ e.buf = b
      /\ Members(txq') = Members(txq) \cup {e}
      /\ \A x : Has(txq', x) = Has(txq, x) + (IF b = x THEN 1 ELSE 0)
      /\ \A c : \A P \in SUBSET Buf : Picked(txq', c, P) = IF "association_req" = c /\ b \in P THEN Append(Picked(txq, c, P), b)
                                                           ELSE Picked(txq, c, P)
  BY <1>0, <1>3, TxqPut
<1>5. NONE \notin Buf
  BY DEF NONE, Buf
<1>6. Kinds'
  <2>1. Fits(e)'
    BY <1>0, <1>1, <1>4, <1>5 DEF Fits
  <2>2. \A x \in Members(txq) : Fits(x)'
    BY <1>0, FitsKept DEF Sound
  <2>3. TxqKind'
    BY <1>4, <2>1, <2>2 DEF TxqKind
  <2>4. CbqKind' /\ SentKind' /\ SlotKind' /\ OutKind' /\ PollKind' /\ AboveKind'
    BY <1>0, <1>u DEF Sound, Kinds, CbqKind, SentKind, SlotKind, OutKind, PollKind, AboveKind
  <2>. QED BY <2>3, <2>4 DEF Kinds
<1>7. UsedOnce'
  <2>1. ASSUME NEW x \in Buf, x # b PROVE NoMore(x) /\ content'[x] = content[x]
    <3>1. InSlots(slots, x) \in Nat /\ Has(cbq, x) \in Nat /\ Has(txq, x) \in Nat
      BY UsesFacts DEF Sound
    <3>2. Has(txq', x) = Has(txq, x) + 0
      BY <1>4, <2>1
    <3>3. Awaited(x)' => Awaited(x)
      BY <1>0, <1>u DEF Awaited
    <3>. QED BY <1>0, <1>u, <1>5, <3>1, <3>2, <3>3 DEF NoMore
  <2>2. Uses(b)' = Has(cbq', b) + Has(txq', b)
    <3>1. \A s \in Slot : slots'[s].buf # b
      BY <1>u, <1>2, SlotFacts
    <3>2. ~Awaited(b)'
      BY <1>0, <1>u, <1>2 DEF Awaited
    <3>. QED BY <1>0, <1>u, <1>2, <1>5, <3>1, <3>2, InOnePlace
  <2>3. Has(cbq', b) = 0 /\ Has(txq', b) = 1
    BY <1>0, <1>2, <1>4
  <2>4. content'[b].type # "free"
    BY <1>0, <1>1
  <2>. QED BY <2>1, <2>2, <2>3, <2>4, UsedOnceKept DEF Sound
<1>8. Associating'
  <2>1. ~Asking /\ ~Owed /\ \A x \in Members(cbq) : x \notin Confirms
    BY <1>0 DEF Sound, Associating, NothingLeft
  <2>2. OneRequest'
    BY <1>0, <1>u, <1>4, <2>1 DEF OneRequest, Queued, Asking
  <2>3. NothingLeft'
    BY <1>0, <2>1 DEF NothingLeft, Owed
  <2>4. FailureLast'
    BY <1>0 DEF Sound, Associating, FailureLast, Owed, Failing
  <2>. QED BY <2>2, <2>3, <2>4 DEF Associating
<1>9. Ordered'
  <2>1. Direct \in SUBSET Buf
    BY DEF Direct
  <2>2. Picked(txq', "mcps_data_req", Direct) = Picked(txq, "mcps_data_req", Direct)
    BY <1>4, <2>1
  <2>. QED BY <1>0, <1>u, <2>2, OrderCalm DEF Sound, Transmitting
<1>. QED BY <1>6, <1>7, <1>8, <1>9 DEF Sound

\* The response is fetched while pending_buf is still the request's buffer.
LEMMA RespTimeoutSound ==
  ASSUME Typed, Typed', Sound, ~fault', RespTimeout
  PROVE  Sound'
<1>0. /\ UNCHANGED <<txq, caller, upper, asked>> /\ UNCHANGED parent /\ UNCHANGED radio
      /\ "resp" \in timers /\ ScanBufferKept
  BY DEF RespTimeout
<1>u. UNCHANGED <<txWait, dataReq, slots, outq>>
  BY <1>0 DEF parent, radio
<1>1. PICK b \in Buf : b = pendingBuf /\ content[b].type = "assocReq"
  BY <1>0 DEF ScanBufferKept, Typed
<1>2. /\ Off(cbq, b) /\ Off(txq, b) /\ Aside(b)
      /\ Has(cbq, b) = 0 /\ Has(txq, b) = 0 /\ InSlots(slots, b) = 0
  <2>1. Awaited(b)
    BY <1>0, <1>1 DEF Awaited
  <2>. QED BY <2>1, AwaitedAside DEF Sound
<1>3. /\ upper.assoc = "asked" /\ ~Queued /\ txWait.func # "association_continue" /\ ~Owed
      /\ \A x \in Members(cbq) : x \notin Confirms
  BY <1>0 DEF Sound, Associating, OneRequest, NothingLeft, Asking
<1>4. ASSUME \A x \in Buf : x # b => content'[x] = content[x], PollKept' => PollKept, bufRef' = bufRef \/ bufRef' = NONE,
             content'[b].type \notin {"assocReq", "direct"}
      PROVE  /\ TxqKind' /\ SentKind' /\ SlotKind' /\ OutKind' /\ PollKind' /\ AboveKind'
             /\ \A x \in Members(cbq) : content'[x.buf] = content[x.buf]
             /\ \A x \in Members(txq) : x.func = "mcps_data_req" => content'[x.buf] = content[x.buf]
             /\ \A x \in Buf : Awaited(x)' => Awaited(x) /\ x # b
  <2>1. /\ \A x \in Members(cbq) : content'[x.buf] = content[x.buf]
        /\ \A x \in Members(txq) : x.buf # NONE => content'[x.buf] = content[x.buf]
    BY <1>2, <1>4, MembersTyped DEF Off
  <2>2. \A x \in Members(txq) : x.func = "mcps_data_req" => x.buf # NONE
    BY DEF Sound, Kinds, TxqKind, Fits
  <2>3. TxqKind'
    BY <1>0, <2>1, FitsKept DEF Sound, TxqKind
  <2>4. \A x \in Buf : content'[x] = content[x] \/ Aside(x)
    BY <1>2, <1>4
  <2>5. SentKind' /\ SlotKind' /\ OutKind' /\ AboveKind'
    BY <1>0, <1>u, <2>4, PlacesKept, AboveKindKept DEF Sound
  <2>6. PollKind'
    <3>1. CASE bufRef' = NONE
      BY <3>1 DEF PollKind, PollKept
    <3>. QED BY <1>4, <2>4, <3>1, PollKindKept DEF Sound
  <2>7. pendingBuf' = b \/ pendingBuf' = NONE
    BY <1>1 DEF RespTimeout
  <2>8. \A x \in Buf : Awaited(x)' => Awaited(x) /\ x # b
    BY <1>4, <2>7 DEF Awaited, Buf, NONE
  <2>. QED BY <2>1, <2>2, <2>3, <2>5, <2>6, <2>8
<1>5. ASSUME PollKept' => PollKept /\ bufRef' = bufRef, \A x \in Buf : x # b => Has(cbq', x) = Has(cbq, x),
             \A x \in Buf : x # b => content'[x] = content[x], \A x \in Buf : Awaited(x)' => Awaited(x) /\ x # b,
             Has(cbq', b) = IF content'[b].type = "free" THEN 0 ELSE 1
      PROVE  UsedOnce'
  <2>1. ASSUME NEW x \in Buf, x # b PROVE NoMore(x) /\ content'[x] = content[x]
    <3>1. InSlots(slots, x) \in Nat /\ Has(cbq, x) \in Nat /\ Has(txq, x) \in Nat
      BY UsesFacts DEF Sound
    <3>. QED BY <1>0, <1>u, <1>5, <2>1, <3>1 DEF NoMore
  <2>2. Uses(b)' = Has(cbq', b) + Has(txq', b)
    BY <1>0, <1>u, <1>2, <1>5, InOnePlace DEF Aside
  <2>3. Has(txq', b) = 0
    BY <1>0, <1>2
  <2>. QED BY <1>5, <2>1, <2>2, <2>3, UsedOnceKept DEF Sound
<1>6. CASE /\ flags' = flags \cup {"ass", "indirect", "pendData"}
           /\ timers' = (timers \ {"resp"}) \cup {"indirect_ass"} /\ bufRef' = NONE
           /\ content' = Released(content, pendingBuf) /\ pendingBuf' = NONE /\ UNCHANGED cbq
  <2>1. content'[b].type = "free" /\ \A x \in Buf : x # b => content'[x] = content[x]
    BY <1>1, <1>6, ContentReleased
  <2>2. ~PollKept'
    BY <1>6 DEF PollKept
  <2>3. /\ TxqKind' /\ SentKind' /\ SlotKind' /\ OutKind' /\ PollKind' /\ AboveKind'
        /\ \A x \in Members(cbq) : content'[x.buf] = content[x.buf]
        /\ \A x \in Members(txq) : x.func = "mcps_data_req" => content'[x.buf] = content[x.buf]
        /\ \A x \in Buf : Awaited(x)' => Awaited(x) /\ x # b
    BY <1>4, <1>6, <2>1, <2>2
  <2>4. CbqKind'
    BY <1>6, <2>3 DEF Sound, Kinds, CbqKind
  <2>5. UsedOnce'
    BY <1>2, <1>5, <1>6, <2>1, <2>2, <2>3
  <2>6. Associating'
    <3>1. OneRequest' /\ ~Asking'
      BY <1>0, <1>3, <1>6, <1>u DEF OneRequest, Queued, Asking
    <3>2. NothingLeft'
      BY <1>0, <1>3, <3>1 DEF NothingLeft
    <3>3. FailureLast'
      <4>1. \A x \in Members(cbq') : x \notin Failing' /\ x \notin Confirms
        BY <1>3, <1>6 DEF Failing
      <4>2. Closing(cbq', Failing', Confirms)
        BY <4>1 DEF Closing, Members
      <4>3. caller' # "ass"
        BY <1>0, <1>3 DEF Owed
      <4>. QED BY <4>1, <4>2, <4>3 DEF FailureLast
    <3>. QED BY <3>1, <3>2, <3>3 DEF Associating
  <2>7. Ordered'
    BY <1>0, <1>6, <1>u, <2>3, OrderCalm DEF Sound, Transmitting
  <2>. QED BY <2>3, <2>4, <2>5, <2>6, <2>7 DEF Sound, Kinds
<1>7. CASE /\ flags' = (flags \cup {"indirect"}) \ {"ass", "pendData"} /\ timers' = timers \ {"resp"}
           /\ content' = Filled(content, pendingBuf, "assocFail", NONE)
           /\ cbq' = Append(cbq, Ref("associate_confirm", pendingBuf)) /\ UNCHANGED <<bufRef, pendingBuf>>
  <2>1. content'[b].type = "assocFail" /\ \A x \in Buf : x # b => content'[x] = content[x]
    <3>1. content' = Filled(content, b, "assocFail", NONE) /\ "assocFail" \in ContentTypes
      BY <1>1, <1>7 DEF ContentTypes
    <3>. QED BY <3>1, ContentFilled
  <2>2. PollKept' => PollKept /\ bufRef' = bufRef
    BY <1>7 DEF PollKept
  <2>3. /\ TxqKind' /\ SentKind' /\ SlotKind' /\ OutKind' /\ PollKind' /\ AboveKind'
        /\ \A x \in Members(cbq) : content'[x.buf] = content[x.buf]
        /\ \A x \in Members(txq) : x.func = "mcps_data_req" => content'[x.buf] = content[x.buf]
        /\ \A x \in Buf : Awaited(x)' => Awaited(x) /\ x # b
    BY <1>4, <1>7, <2>1, <2>2
  <2>e. PICK e : e = Ref("associate_confirm", b) /\ cbq' = Append(cbq, e)
    BY <1>1, <1>7
  <2>f. "associate_confirm" \in Callbacks
    BY DEF Callbacks
  <2>p. /\ e \in CbRefs /\ e.func = "associate_confirm" /\ e.buf = b
        /\ Members(cbq') = Members(cbq) \cup {e}
        /\ \A x : Has(cbq', x) = Has(cbq, x) + (IF b = x THEN 1 ELSE 0)
        /\ \A c : \A P \in SUBSET Buf : Picked(cbq', c, P) = IF "associate_confirm" = c /\ b \in P
                                                             THEN Append(Picked(cbq, c, P), b) ELSE Picked(cbq, c, P)
    BY <2>e, <2>f, CbqPut
  <2>4. CbqKind'
    BY <2>1, <2>3, <2>p DEF Sound, Kinds, CbqKind
  <2>5. UsedOnce'
    <3>1. \A x \in Buf : Has(cbq, x) \in Nat
      BY UsesFacts DEF Sound
    <3>2. \A x \in Buf : x # b => Has(cbq', x) = Has(cbq, x)
      BY <2>p, <3>1
    <3>3. Has(cbq', b) = IF content'[b].type = "free" THEN 0 ELSE 1
      BY <1>2, <2>1, <2>p
    <3>. QED BY <1>5, <2>1, <2>2, <2>3, <3>2, <3>3
  <2>6. Associating'
    <3>1. OneRequest' /\ ~Asking' /\ ~Owed'
      BY <1>0, <1>3, <1>7, <1>u DEF OneRequest, Queued, Asking, Owed
    <3>2. cbq \in Seq(CbRefs) /\ Closing(cbq, Failing, Confirms) /\ \A x \in Members(cbq) : x \notin Failing
      BY <1>3 DEF Typed, Sound, Associating, FailureLast, Failing
    <3>3. ~("indirect_ass" \in timers' /\ caller' = "ass") /\ upper'.assoc \notin {"scanned", "failed"}
      BY <1>0, <1>3, <3>1 DEF Owed
    <3>. QED BY <2>3, <2>e, <2>p, <3>1, <3>2, <3>3, ConfirmGiven DEF Sound
  <2>7. Ordered'
    <3>1. Direct \in SUBSET Buf
      BY DEF Direct
    <3>2. Picked(cbq', "data_confirm", Direct) = Picked(cbq, "data_confirm", Direct)
      BY <2>p, <3>1
    <3>3. \A x \in Members(cbq') : x.func = "data_confirm" => content'[x.buf] = content[x.buf]
      BY <2>3, <2>p
    <3>. QED BY <1>0, <1>u, <2>3, <3>2, <3>3, OrderCalm DEF Sound, Transmitting
  <2>. QED BY <2>3, <2>4, <2>5, <2>6, <2>7 DEF Sound, Kinds
<1>. QED BY <1>0, <1>6, <1>7 DEF RespTimeout

\* The end of a transmission, and a step that does nothing.
LEMMA StillSound ==
  ASSUME Sound,
         UNCHANGED <<content, cbq, txq, txWait, pendingBuf, dataReq, asked, slots, outq, flags, bufRef, timers, caller, upper>>
  PROVE  Sound'
<1>1. PollKept' = PollKept /\ \A x \in Buf : Awaited(x)' = Awaited(x)
  BY DEF PollKept, Awaited
<1>2. Kinds'
  BY <1>1 DEF Sound, Kinds, CbqKind, TxqKind, Fits, SentKind, SlotKind, OutKind, PollKind, AboveKind
<1>3. UsedOnce'
  BY <1>1 DEF Sound, UsedOnce, Uses
<1>4. Associating'
  BY DEF Sound, Associating, OneRequest, Queued, NothingLeft, Asking, Owed, FailureLast, Failing
<1>5. Ordered'
  BY DEF Sound, Ordered, Direct, Transmitting
<1>. QED BY <1>2, <1>3, <1>4, <1>5 DEF Sound

\* What no callback of the queue changes but an association response that finds
\* a free slot.
Steady ==
  /\ UNCHANGED <<txWait, dataReq, slots, outq, bufRef>> /\ upper'.buf = upper.buf
  /\ (upper'.assoc = "scanned" <=> upper.assoc = "scanned") /\ (PollKept' => PollKept)
  /\ \A x \in Buf : Awaited(x)' => Awaited(x)

\* The next callback frees its buffer, passes it on to another callback, or
\* to one that needs the transmitter.
Left(b) ==
  /\ \A x \in Buf : x # b => content'[x] = content[x]
  /\ \/ content'[b].type = "free" /\ cbq' = Tail(cbq)
        /\ (txq' = txq \/ txq' = Append(txq, Ref("beacon_req", NONE)))
     \/ \E f \in Callbacks : content'[b].type \notin {"free", "assocReq"} /\ cbq' = Append(Tail(cbq), Ref(f, b)) /\ txq' = txq
     \/ content' = content /\ cbq' = Tail(cbq) /\ txq' = Append(txq, Ref("accept_data_request", b))

LEMMA LeftQueues ==
  ASSUME Typed, Typed', Sound, cbq # << >>, NEW b, b = Head(cbq).buf, Left(b)
  PROVE  /\ b \in Buf /\ Off(Tail(cbq), b) /\ Off(txq, b) /\ Apart(b)
         /\ \A e \in Members(Tail(cbq)) : e \in Members(cbq) /\ e \in CbRefs /\ content'[e.buf] = content[e.buf]
         /\ \A e \in Members(txq) : e.buf # NONE => content'[e.buf] = content[e.buf]
         /\ \A e \in Members(cbq') : content'[e.buf].type # "assocReq"
         /\ \A e \in Members(txq') : e \in Members(txq) \/ e = Ref("beacon_req", NONE)
                                     \/ (e = Ref("accept_data_request", b) /\ content'[b] = content[b])
         /\ \A x \in Buf : x # b => Has(cbq', x) <= Has(cbq, x) /\ Has(txq', x) <= Has(txq, x)
         /\ Has(cbq', b) + Has(txq', b) = IF content'[b].type = "free" THEN 0 ELSE 1
         /\ content[b].type \notin {"free", "assocReq"}
<1>1. /\ b \in Buf /\ content[b].type # "free" /\ Off(Tail(cbq), b) /\ Off(txq, b) /\ Apart(b)
      /\ Has(Tail(cbq), b) = 0 /\ Has(txq, b) = 0
  BY AtHead DEF Sound
<1>2. /\ cbq \in Seq(CbRefs) /\ Head(cbq) \in CbRefs /\ Tail(cbq) \in Seq(CbRefs) /\ Head(cbq) \in Members(cbq)
      /\ \A e \in Members(Tail(cbq)) : e \in Members(cbq) /\ e \in CbRefs
      /\ \A x : Has(cbq, x) = Has(Tail(cbq), x) + (IF b = x THEN 1 ELSE 0)
  <2>1. cbq \in Seq(CbRefs)
    BY DEF Typed
  <2>. QED BY <2>1, TookFacts, MembersTyped
<1>3. \A e \in Members(Tail(cbq)) : content'[e.buf] = content[e.buf]
  BY <1>1, <1>2 DEF Left, Off, CbRefs
<1>4. \A e \in Members(txq) : e.buf # NONE => content'[e.buf] = content[e.buf]
  BY <1>1, MembersTyped DEF Left, Off
<1>5. \A e \in Members(cbq) : content[e.buf].type # "assocReq"
  BY DEF Sound, Kinds, CbqKind
<1>6. content[b].type # "assocReq"
  BY <1>2, <1>5
<1>7. \A x \in Buf : Has(cbq, x) \in Nat /\ Has(Tail(cbq), x) \in Nat /\ Has(txq, x) \in Nat
  BY <1>2, HasFacts, UsesFacts DEF Sound
<1>8. NONE \notin Buf
  BY DEF NONE, Buf
<1>9. CASE content'[b].type = "free" /\ cbq' = Tail(cbq) /\ (txq' = txq \/ txq' = Append(txq, Ref("beacon_req", NONE)))
  <2>1. \A e \in Members(cbq') : content'[e.buf].type # "assocReq"
    BY <1>2, <1>3, <1>5, <1>9
  <2>4. \A x \in Buf : Has(cbq', x) <= Has(cbq, x)
    BY <1>2, <1>7, <1>9
  <2>5. ASSUME \A x \in Buf : Has(txq', x) = Has(txq, x)
        PROVE  /\ \A x \in Buf : x # b => Has(cbq', x) <= Has(cbq, x) /\ Has(txq', x) <= Has(txq, x)
               /\ Has(cbq', b) + Has(txq', b) = IF content'[b].type = "free" THEN 0 ELSE 1
    <3>1. Has(cbq', b) + Has(txq', b) = 0
      BY <1>1, <1>9, <2>5
    <3>2. \A x \in Buf : Has(txq', x) <= Has(txq, x)
      BY <1>7, <2>5
    <3>. QED BY <1>9, <2>4, <3>1, <3>2
  <2>2. CASE txq' = txq
    <3>1. \A x \in Buf : Has(txq', x) = Has(txq, x)
      BY <2>2
    <3>. QED BY <1>1, <1>2, <1>3, <1>4, <1>6, <2>1, <2>2, <2>5, <3>1
  <2>3. CASE txq' = Append(txq, Ref("beacon_req", NONE))
    <3>0. "beacon_req" \in TxCallbacks /\ NONE \in Buf \cup {NONE}
      BY DEF TxCallbacks
    <3>1. PICK e : e = Ref("beacon_req", NONE) /\ txq' = Append(txq, e)
      BY <2>3
    <3>2. /\ Members(txq') = Members(txq) \cup {e}
          /\ \A x : Has(txq', x) = Has(txq, x) + (IF NONE = x THEN 1 ELSE 0)
      BY <3>0, <3>1, TxqPut
    <3>3. \A x \in Buf : Has(txq', x) = Has(txq, x)
      BY <1>7, <1>8, <3>2
    <3>. QED BY <1>1, <1>2, <1>3, <1>4, <1>6, <2>1, <2>5, <3>1, <3>2, <3>3
  <2>. QED BY <1>9, <2>2, <2>3
<1>10. CASE \E f \in Callbacks : content'[b].type \notin {"free", "assocReq"} /\ cbq' = Append(Tail(cbq), Ref(f, b))
                                 /\ txq' = txq
  <2>1. PICK f \in Callbacks : cbq' = Append(Tail(cbq), Ref(f, b))
    BY <1>10
  <2>2. PICK e : e = Ref(f, b) /\ cbq' = Append(Tail(cbq), e)
    BY <2>1
  <2>3. /\ e.buf = b /\ Members(cbq') = Members(Tail(cbq)) \cup {e}
        /\ \A x : Has(cbq', x) = Has(Tail(cbq), x) + (IF b = x THEN 1 ELSE 0)
    <3>1. PICK q \in Seq(CbRefs) : q = Tail(cbq) /\ cbq' = Append(q, e)
      BY <1>2, <2>2
    <3>2. e \in CbRefs /\ e.buf = b
      BY <1>1, <2>1, <2>2 DEF Ref, CbRefs
    <3>3. /\ Members(Append(q, e)) = Members(q) \cup {e}
          /\ \A x : Has(Append(q, e), x) = Has(q, x) + (IF e.buf = x THEN 1 ELSE 0)
      BY <3>2, PutFacts
    <3>. QED BY <3>1, <3>2, <3>3
  <2>4. \A e1 \in Members(cbq') : content'[e1.buf].type # "assocReq"
    BY <1>2, <1>3, <1>5, <1>10, <2>3
  <2>5. \A x \in Buf : Has(cbq', x) = Has(cbq, x)
    BY <1>2, <2>3
  <2>6. Has(cbq', b) = 1
    BY <1>1, <2>3
  <2>. QED BY <1>1, <1>2, <1>3, <1>4, <1>6, <1>7, <1>10, <2>4, <2>5, <2>6
<1>11. CASE content' = content /\ cbq' = Tail(cbq) /\ txq' = Append(txq, Ref("accept_data_request", b))
  <2>0. "accept_data_request" \in TxCallbacks /\ b \in Buf \cup {NONE}
    BY <1>1 DEF TxCallbacks
  <2>1. PICK e : e = Ref("accept_data_request", b) /\ txq' = Append(txq, e)
    BY <1>11
  <2>2. /\ Members(txq') = Members(txq) \cup {e}
        /\ \A x : Has(txq', x) = Has(txq, x) + (IF b = x THEN 1 ELSE 0)
    BY <2>0, <2>1, TxqPut
  <2>3. \A e1 \in Members(cbq') : content'[e1.buf].type # "assocReq"
    BY <1>2, <1>5, <1>11
  <2>4. \A x \in Buf : x # b => Has(txq', x) = Has(txq, x) + 0 /\ Has(cbq', x) <= Has(cbq, x)
    BY <1>2, <1>7, <1>11, <2>2
  <2>5. Has(cbq', b) = 0 /\ Has(txq', b) = 1
    BY <1>1, <1>11, <2>2
  <2>. QED BY <1>1, <1>2, <1>3, <1>4, <1>6, <1>7, <1>11, <2>1, <2>2, <2>3, <2>4, <2>5
<1>. QED BY <1>9, <1>10, <1>11 DEF Left

LEMMA LeftPlaces ==
  ASSUME Typed, Typed', Sound, cbq # << >>, NEW b, b = Head(cbq).buf, Left(b), Steady
  PROVE  Kinds' /\ UsedOnce'
<1>1. /\ b \in Buf /\ Off(Tail(cbq), b) /\ Off(txq, b) /\ Apart(b)
      /\ \A e \in Members(txq) : e.buf # NONE => content'[e.buf] = content[e.buf]
      /\ \A e \in Members(cbq') : content'[e.buf].type # "assocReq"
      /\ \A e \in Members(txq') : e \in Members(txq) \/ e = Ref("beacon_req", NONE)
                                  \/ (e = Ref("accept_data_request", b) /\ content'[b] = content[b])
      /\ \A x \in Buf : x # b => Has(cbq', x) <= Has(cbq, x) /\ Has(txq', x) <= Has(txq, x)
      /\ Has(cbq', b) + Has(txq', b) = IF content'[b].type = "free" THEN 0 ELSE 1
      /\ content[b].type \notin {"free", "assocReq"}
  BY LeftQueues
<1>2. /\ \A x \in Buf : x # b => content'[x] = content[x]
      /\ \A x \in Buf : content'[x] = content[x] \/ Aside(x)
  BY <1>1 DEF Left, Apart
<1>3. SentKind' /\ SlotKind' /\ OutKind'
  BY <1>2, PlacesKept DEF Sound, Steady
<1>4. PollKind' /\ AboveKind'
  BY <1>2, PollKindKept, AboveKindKept DEF Sound, Steady
<1>5. TxqKind'
  <2>1. \A e \in Members(txq) : Fits(e)'
    BY <1>1, FitsKept DEF Sound
  <2>2. NONE \notin Buf
    BY DEF NONE, Buf
  <2>3. ASSUME NEW e \in Members(txq'), e = Ref("beacon_req", NONE) PROVE Fits(e)'
    BY <2>3 DEF Fits, Ref
  <2>4. ASSUME NEW e \in Members(txq'), e = Ref("accept_data_request", b), content'[b] = content[b] PROVE Fits(e)'
    <3>1. e.func = "accept_data_request" /\ e.buf = b
      BY <2>4 DEF Ref
    <3>. QED BY <1>1, <2>2, <2>4, <3>1 DEF Fits
  <2>. QED BY <1>1, <2>1, <2>3, <2>4 DEF TxqKind
<1>6. UsedOnce'
  <2>1. ASSUME NEW x \in Buf, x # b PROVE NoMore(x) /\ content'[x] = content[x]
    <3>1. InSlots(slots, x) \in Nat
      BY UsesFacts DEF Sound
    <3>. QED BY <1>1, <1>2, <2>1, <3>1 DEF NoMore, Steady
  <2>2. Uses(b)' = Has(cbq', b) + Has(txq', b)
    <3>1. /\ \A s \in Slot : slots'[s].buf # b
          /\ ~(txWait'.func = "data_continue" /\ txWait'.buf = b) /\ b \notin outq'
          /\ ~(PollKept' /\ bufRef' = b) /\ upper'.buf # b /\ ~Awaited(b)'
      BY <1>1 DEF Steady, Apart, Aside
    <3>. QED BY <1>1, <3>1, InOnePlace
  <2>3. Uses(b)' <= (IF content'[b].type = "free" THEN 0 ELSE 1)
    <3>1. PICK n \in {0, 1} : n = IF content'[b].type = "free" THEN 0 ELSE 1
      OBVIOUS
    <3>2. Uses(b)' = n
      BY <1>1, <2>2, <3>1
    <3>. QED BY <3>1, <3>2
  <2>. QED BY <2>1, <2>3, UsedOnceKept DEF Sound
<1>. QED BY <1>1, <1>3, <1>4, <1>5, <1>6 DEF Kinds, CbqKind

\* A callback that is no confirm, and schedules none.
Quiet == \A e \in Members(cbq') : ~Calm(e) => e \in Members(Tail(cbq))
LEMMA LeftSound ==
  ASSUME Typed, Typed', Sound, cbq # << >>, NEW b, b = Head(cbq).buf, Left(b), Steady,
         Calm(Head(cbq)), Quiet, AssocKept, asked' = asked
  PROVE  Sound'
<1>1. /\ b \in Buf
      /\ \A e \in Members(Tail(cbq)) : e \in Members(cbq) /\ e \in CbRefs /\ content'[e.buf] = content[e.buf]
      /\ \A e \in Members(txq) : e.buf # NONE => content'[e.buf] = content[e.buf]
      /\ \A e \in Members(txq') : e \in Members(txq) \/ e = Ref("beacon_req", NONE)
                                  \/ (e = Ref("accept_data_request", b) /\ content'[b] = content[b])
  BY LeftQueues
<1>2. Kinds' /\ UsedOnce'
  BY LeftPlaces
<1>3. PICK t \in Seq(CbRefs) : /\ t = Tail(cbq) /\ Closing(t, Failing, Confirms)
                               /\ Picked(t, "data_confirm", Direct) = Picked(cbq, "data_confirm", Direct)
  <2>1. cbq \in Seq(CbRefs) /\ Closing(cbq, Failing, Confirms)
    BY DEF Typed, Sound, Associating, FailureLast
  <2>. QED BY <2>1, CalmTook DEF Calm
<1>4. /\ Closing(cbq', Failing, Confirms)
      /\ Picked(cbq', "data_confirm", Direct) = Picked(cbq, "data_confirm", Direct)
  <2>1. CASE cbq' = Tail(cbq)
    BY <1>3, <2>1
  <2>2. CASE \E f \in Callbacks : cbq' = Append(Tail(cbq), Ref(f, b))
    <3>1. PICK e : cbq' = Append(t, e) /\ e \in CbRefs
      BY <1>1, <1>3, <2>2 DEF Ref, CbRefs
    <3>2. Members(cbq') = Members(t) \cup {e}
      BY <3>1, PutFacts
    <3>3. CASE Calm(e)
      BY <1>3, <3>1, <3>3, CalmPut
    <3>4. CASE ~Calm(e)
      <4>1. e \in Members(t)
        BY <1>3, <3>2, <3>4 DEF Quiet
      <4>2. PICK f \in Callbacks : e = Ref(f, b)
        <5>1. PICK f \in Callbacks : cbq' = Append(t, Ref(f, b))
          BY <1>3, <2>2
        <5>2. Ref(f, b) \in CbRefs
          BY <1>1 DEF Ref, CbRefs
        <5>3. Append(t, Ref(f, b))[Len(t) + 1] = Ref(f, b) /\ Append(t, e)[Len(t) + 1] = e
          BY <3>1, <5>2, AppendProperties
        <5>. QED BY <3>1, <5>1, <5>3
      <4>3. e.buf # b
        BY <1>3, <4>1, LeftQueues DEF Off
      <4>. QED BY <4>2, <4>3 DEF Ref
    <3>. QED BY <3>3, <3>4
  <2>. QED BY <2>1, <2>2 DEF Left
<1>5. \A e \in Members(cbq') : ~Calm(e) => e \in Members(cbq) /\ content'[e.buf] = content[e.buf]
  BY <1>1 DEF Quiet
<1>6. Associating'
  <2>1. ConfirmsKept
    BY <1>5 DEF ConfirmsKept, Calm
  <2>. QED BY <1>4, <2>1, AssociatingKept DEF Sound
<1>7. Ordered'
  <2>0. txq \in Seq(TxRefs)
    BY DEF Typed
  <2>1. Picked(txq', "mcps_data_req", Direct) = Picked(txq, "mcps_data_req", Direct)
    <3>0. Direct \in SUBSET Buf
      BY DEF Direct
    <3>1. CASE txq' = txq
      BY <3>1
    <3>2. CASE txq' = Append(txq, Ref("beacon_req", NONE))
      <4>1. Ref("beacon_req", NONE) \in TxRefs /\ Ref("beacon_req", NONE).func = "beacon_req"
        BY DEF Ref, TxRefs, TxCallbacks
      <4>. QED BY <2>0, <3>0, <3>2, <4>1, PickedPut
    <3>3. CASE txq' = Append(txq, Ref("accept_data_request", b))
      <4>1. Ref("accept_data_request", b) \in TxRefs /\ Ref("accept_data_request", b).func = "accept_data_request"
        BY <1>1 DEF Ref, TxRefs, TxCallbacks
      <4>. QED BY <2>0, <3>0, <3>3, <4>1, PickedPut
    <3>. QED BY <3>1, <3>2, <3>3 DEF Left
  <2>2. /\ \A e \in Members(cbq') : e.func = "data_confirm" => content'[e.buf] = content[e.buf]
        /\ \A e \in Members(txq') : e.func = "mcps_data_req" => content'[e.buf] = content[e.buf]
    <3>1. \A e \in Members(txq) : e.func = "mcps_data_req" => e.buf # NONE
      BY DEF Sound, Kinds, TxqKind, Fits
    <3>. QED BY <1>1, <1>5, <3>1 DEF Calm, Ref
  <2>. QED BY <1>4, <2>1, <2>2, OrderCalm DEF Sound, Steady, Transmitting
<1>. QED BY <1>2, <1>6, <1>7 DEF Sound

LEMMA HeadKind ==
  ASSUME Typed, Sound, cbq # << >>, NEW b, b = Head(cbq).buf
  PROVE  b \in Buf /\ content[b].type \notin {"free", "assocReq"} /\ Head(cbq) \in Members(cbq)
<1>1. Head(cbq) \in Members(cbq)
  BY HeadOfCbq
<1>. QED BY <1>1, AtHead DEF Sound, Kinds, CbqKind

\* The buffer goes to another callback as it is.
LEMMA PassedOn ==
  ASSUME Typed, Typed', Sound, cbq # << >>, NEW b, b = Head(cbq).buf, Calm(Head(cbq)),
         NEW f \in Callbacks \ {"associate_confirm", "data_confirm"}, cbq' = Append(Tail(cbq), Ref(f, b)),
         content'[b].type \notin {"free", "assocReq"}, \A x \in Buf : x # b => content'[x] = content[x],
         txq' = txq, Steady, AssocKept, asked' = asked
  PROVE  Sound'
<1>1. b \in Buf /\ Tail(cbq) \in Seq(CbRefs)
  BY HeadOfCbq
<1>2. Left(b)
  BY DEF Left
<1>3. Quiet
  <2>1. PICK e \in CbRefs : e = Ref(f, b) /\ Calm(e)
    BY <1>1 DEF Ref, CbRefs, Calm
  <2>2. PICK q \in Seq(CbRefs) : q = Tail(cbq) /\ cbq' = Append(q, e)
    BY <1>1, <2>1
  <2>3. Members(Append(q, e)) = Members(q) \cup {e}
    BY PutFacts
  <2>. QED BY <2>1, <2>2, <2>3 DEF Quiet
<1>. QED BY <1>2, <1>3, LeftSound

\* The buffer is freed.
LEMMA Dropped ==
  ASSUME Typed, Typed', Sound, cbq # << >>, NEW b, b = Head(cbq).buf, Calm(Head(cbq)),
         content' = Released(content, b), cbq' = Tail(cbq),
         txq' = txq \/ txq' = Append(txq, Ref("beacon_req", NONE)), Steady, AssocKept, asked' = asked
  PROVE  Sound'
<1>1. b \in Buf
  BY HeadOfCbq
<1>2. content'[b].type = "free" /\ \A x \in Buf : x # b => content'[x] = content[x]
  BY <1>1, ContentReleased
<1>. QED BY <1>2, LeftSound DEF Left, Quiet

LEMMA ParseAnsweredSound ==
  ASSUME Typed, Typed', Sound, cbq # << >>, NEW b, b = Head(cbq).buf, Calm(Head(cbq)),
         "poll" \in flags, bufRef # NONE,
         cbq' = Append(Append(Tail(cbq), Ref("poll_confirm", bufRef)), Dispatch(b)),
         flags' \subseteq (flags \ {"poll"}) \cup {"pendData"}, timers' = timers \ {"indirect_ass", "indirect_poll"},
         UNCHANGED <<content, txq, pendingBuf, bufRef, caller, upper, asked>>, UNCHANGED parent, UNCHANGED radio
  PROVE  Sound'
<1>u. UNCHANGED <<txWait, dataReq, slots, outq>> /\ PollKept /\ ~PollKept'
  BY DEF parent, radio, PollKept
<1>1. PICK p \in Buf : p = bufRef /\ content[p].type = "poll"
  BY <1>u DEF Typed, Sound, Kinds, PollKind
<1>2. /\ Off(cbq, p) /\ Off(txq, p)
      /\ Has(cbq, p) = 0 /\ Has(txq, p) = 0 /\ InSlots(slots, p) = 0
      /\ ~(txWait.func = "data_continue" /\ txWait.buf = p)
      /\ p \notin outq /\ upper.buf # p /\ ~Awaited(p)
  BY <1>1, <1>u, KeptForPoll DEF Sound
<1>3. b \in Buf /\ content[b].type \notin {"free", "assocReq"} /\ b # p
  BY <1>2, HeadKind DEF Off
<1>4. PICK e1 \in CbRefs, e2 \in CbRefs : /\ e1 = Ref("poll_confirm", p) /\ e2 = Dispatch(b) /\ e1.buf = p /\ e2.buf = b
                                          /\ Calm(e1) /\ Calm(e2)
  <2>1. PICK e1 \in CbRefs : e1 = Ref("poll_confirm", p) /\ e1.buf = p /\ Calm(e1)
    <3>1. "poll_confirm" \in Callbacks
      BY DEF Callbacks
    <3>2. Ref("poll_confirm", p) \in CbRefs
      BY <3>1 DEF Ref, CbRefs
    <3>. QED BY <3>2 DEF Ref, Calm
  <2>2. PICK e2 \in CbRefs : e2 = Dispatch(b) /\ e2.buf = b /\ Calm(e2)
    BY <1>3 DEF Ref, Dispatch, CbRefs, Callbacks, Calm
  <2>. QED BY <2>1, <2>2
<1>5. PICK q \in Seq(CbRefs) : /\ q = Tail(cbq) /\ Closing(q, Failing, Confirms)
                               /\ Picked(q, "data_confirm", Direct) = Picked(cbq, "data_confirm", Direct)
                               /\ \A x \in Members(q) : x \in Members(cbq)
                               /\ \A x : Has(cbq, x) = Has(q, x) + (IF b = x THEN 1 ELSE 0)
  <2>1. cbq \in Seq(CbRefs) /\ Closing(cbq, Failing, Confirms)
    BY DEF Typed, Sound, Associating, FailureLast
  <2>2. /\ Tail(cbq) \in Seq(CbRefs) /\ Closing(Tail(cbq), Failing, Confirms)
        /\ Picked(Tail(cbq), "data_confirm", Direct) = Picked(cbq, "data_confirm", Direct)
        /\ \A x \in Members(Tail(cbq)) : x \in Members(cbq)
    BY <2>1, CalmTook DEF Calm
  <2>3. \A x : Has(cbq, x) = Has(Tail(cbq), x) + (IF Head(cbq).buf = x THEN 1 ELSE 0)
    BY <2>1, TookFacts
  <2>. QED BY <2>2, <2>3
<1>6. PICK r \in Seq(CbRefs) : /\ r = Append(q, e1) /\ Closing(r, Failing, Confirms)
                               /\ Picked(r, "data_confirm", Direct) = Picked(q, "data_confirm", Direct)
                               /\ Members(r) = Members(q) \cup {e1}
                               /\ \A x : Has(r, x) = Has(q, x) + (IF p = x THEN 1 ELSE 0)
  <2>1. /\ Append(q, e1) \in Seq(CbRefs) /\ Closing(Append(q, e1), Failing, Confirms)
        /\ Picked(Append(q, e1), "data_confirm", Direct) = Picked(q, "data_confirm", Direct)
    BY <1>4, <1>5, CalmPut
  <2>2. /\ Members(Append(q, e1)) = Members(q) \cup {e1}
        /\ \A x : Has(Append(q, e1), x) = Has(q, x) + (IF e1.buf = x THEN 1 ELSE 0)
    BY PutFacts
  <2>. QED BY <1>4, <2>1, <2>2
<1>7. cbq' = Append(r, e2)
  BY <1>1, <1>4, <1>5, <1>6
<1>8. /\ Closing(cbq', Failing, Confirms)
      /\ Picked(cbq', "data_confirm", Direct) = Picked(r, "data_confirm", Direct)
      /\ Members(cbq') = Members(r) \cup {e2}
      /\ \A x : Has(cbq', x) = Has(r, x) + (IF b = x THEN 1 ELSE 0)
  <2>1. /\ Append(r, e2) \in Seq(CbRefs) /\ Closing(Append(r, e2), Failing, Confirms)
        /\ Picked(Append(r, e2), "data_confirm", Direct) = Picked(r, "data_confirm", Direct)
    BY <1>4, <1>6, CalmPut
  <2>2. /\ Members(Append(r, e2)) = Members(r) \cup {e2}
        /\ \A x : Has(Append(r, e2), x) = Has(r, x) + (IF e2.buf = x THEN 1 ELSE 0)
    BY PutFacts
  <2>. QED BY <1>4, <1>7, <2>1, <2>2
<1>9. \A x \in Members(cbq') : x \in Members(cbq) \/ x = e1 \/ x = e2
  BY <1>5, <1>6, <1>8
<1>10. Kinds'
  <2>1. CbqKind'
    BY <1>1, <1>3, <1>4, <1>9 DEF Sound, Kinds, CbqKind
  <2>2. TxqKind' /\ SentKind' /\ SlotKind' /\ OutKind' /\ PollKind' /\ AboveKind'
    BY <1>u DEF Sound, Kinds, TxqKind, Fits, SentKind, SlotKind, OutKind, PollKind, AboveKind
  <2>. QED BY <2>1, <2>2 DEF Kinds
<1>11. UsedOnce'
  <2>0. \A x \in Buf : Has(cbq, x) \in Nat /\ Has(q, x) \in Nat
    BY HasFacts, UsesFacts DEF Sound
  <2>1. ASSUME NEW x \in Buf, x # p PROVE NoMore(x) /\ content'[x] = content[x]
    <3>1. InSlots(slots, x) \in Nat /\ Has(cbq, x) \in Nat /\ Has(txq, x) \in Nat
      BY UsesFacts DEF Sound
    <3>2. Has(cbq', x) = Has(cbq, x)
      BY <1>5, <1>6, <1>8, <2>0, <2>1
    <3>3. Awaited(x)' => Awaited(x)
      BY <1>u DEF Awaited
    <3>. QED BY <1>u, <3>1, <3>2, <3>3 DEF NoMore
  <2>2. Uses(p)' = Has(cbq', p) + Has(txq', p)
    <3>1. \A s \in Slot : slots'[s].buf # p
      BY <1>u, <1>2, SlotFacts
    <3>2. ~Awaited(p)'
      BY <1>u, <1>2 DEF Awaited
    <3>. QED BY <1>u, <1>2, <3>1, <3>2, InOnePlace
  <2>3. Has(cbq', p) = 1 /\ Has(txq', p) = 0
    BY <1>2, <1>3, <1>5, <1>6, <1>8, <2>0
  <2>4. content'[p].type # "free"
    BY <1>1
  <2>. QED BY <2>1, <2>2, <2>3, <2>4, UsedOnceKept DEF Sound
<1>12. Associating'
  <2>1. AssocKept /\ ConfirmsKept
    BY <1>u, <1>4, <1>9 DEF AssocKept, ConfirmsKept, Calm
  <2>. QED BY <1>8, <2>1, AssociatingKept DEF Sound
<1>13. Ordered'
  BY <1>5, <1>6, <1>8, <1>u, OrderCalm DEF Sound, Transmitting
<1>. QED BY <1>10, <1>11, <1>12, <1>13 DEF Sound

LEMMA ParseRecvDataSound ==
  ASSUME Typed, Typed', Sound, cbq # << >>, NEW b, b = Head(cbq).buf, Head(cbq).func = "parse_recv_data",
         ParseRecvData(b), UNCHANGED <<txq, asked>>, UNCHANGED radio
  PROVE  Sound'
<1>0. UNCHANGED <<pendingBuf, bufRef, caller, upper>> /\ UNCHANGED parent
  BY DEF ParseRecvData
<1>u. UNCHANGED <<txWait, dataReq, slots, outq>>
  BY <1>0 DEF parent, radio
<1>c. Calm(Head(cbq))
  BY DEF Calm
<1>k. b \in Buf /\ content[b].type \notin {"free", "assocReq"}
  BY HeadKind
<1>t. /\ timers' \subseteq timers /\ ("resp" \in timers' => "resp" \in timers)
      /\ flags' \subseteq flags \cup {"pendData"}
  BY DEF ParseRecvData
<1>1. AssocKept
  BY <1>0, <1>u, <1>t DEF AssocKept
<1>2. ASSUME \A x \in Buf : content'[x] = content[x] \/ content'[x].type # "assocReq"
      PROVE  Steady
  <2>1. \A x \in Buf : Awaited(x)' => Awaited(x)
    BY <1>0, <1>u, <1>t, <1>2 DEF Awaited
  <2>2. PollKept' => PollKept
    BY <1>0, <1>t DEF PollKept
  <2>. QED BY <1>0, <1>u, <2>1, <2>2 DEF Steady
<1>3. CASE content' = Released(content, b) /\ cbq' = Tail(cbq)
  <2>1. \A x \in Buf : content'[x] = content[x] \/ content'[x].type # "assocReq"
    BY <1>k, <1>3, ContentReleased
  <2>. QED BY <1>1, <1>2, <1>3, <1>c, <2>1, Dropped
<1>4. CASE content' = content /\ cbq' = Append(Tail(cbq), Dispatch(b))
  <2>1. PICK f \in Callbacks \ {"associate_confirm", "data_confirm"} : Dispatch(b) = Ref(f, b)
    BY DEF Dispatch, Callbacks
  <2>2. Steady
    BY <1>2, <1>4
  <2>3. cbq' = Append(Tail(cbq), Ref(f, b))
    BY <1>4, <2>1
  <2>. QED BY <1>1, <1>4, <1>c, <1>k, <2>2, <2>3, PassedOn
<1>5. CASE /\ "poll" \in flags /\ bufRef # NONE /\ content' = content
           /\ cbq' = Append(Append(Tail(cbq), Ref("poll_confirm", bufRef)), Dispatch(b))
           /\ flags' \subseteq (flags \ {"poll"}) \cup {"pendData"}
           /\ timers' = timers \ {"indirect_ass", "indirect_poll"}
  BY <1>0, <1>5, <1>c, ParseAnsweredSound
<1>. QED BY <1>3, <1>4, <1>5 DEF ParseRecvData

LEMMA HandedOnSound ==
  ASSUME Typed, Typed', Sound, cbq # << >>, NEW b, b = Head(cbq).buf,
         \/ Head(cbq).func = "handle_data_frame" /\ HandleDataFrame(b)
         \/ Head(cbq).func = "accept_ass_request" /\ AcceptAssRequestCmd(b),
         UNCHANGED <<txq, asked>>, UNCHANGED radio
  PROVE  Sound'
<1>1. PICK f \in Callbacks \ {"associate_confirm", "data_confirm"} : cbq' = Append(Tail(cbq), Ref(f, b))
  BY DEF HandleDataFrame, AcceptAssRequestCmd, Callbacks
<1>2. content' = content /\ pendingBuf' = b /\ UNCHANGED parent /\ UNCHANGED child
  BY DEF HandleDataFrame, AcceptAssRequestCmd
<1>3. b \in Buf /\ content[b].type \notin {"free", "assocReq"}
  BY HeadKind
<1>4. \A x \in Buf : Awaited(x)' => Awaited(x)
  BY <1>2, <1>3 DEF Awaited
<1>5. Steady /\ AssocKept /\ Calm(Head(cbq))
  BY <1>2, <1>4 DEF Steady, AssocKept, Calm, parent, radio, child, PollKept
<1>. QED BY <1>1, <1>2, <1>3, <1>5, PassedOn

\* The parent answered in time: its response is the confirm.
LEMMA ResponseTakenSound ==
  ASSUME Typed, Typed', Sound, cbq # << >>, NEW b, b = Head(cbq).buf, Head(cbq).func = "command_accept",
         "ass" \in flags, content' = Filled(content, b, "assocOk", NONE), flags' = flags \ {"ass"},
         cbq' = Append(Tail(cbq), Ref("associate_confirm", b)),
         UNCHANGED <<txq, pendingBuf, bufRef, timers, caller, upper, asked>>, UNCHANGED parent, UNCHANGED radio
  PROVE  Sound'
<1>1. b \in Buf /\ "assocOk" \in ContentTypes /\ "associate_confirm" \in Callbacks
  BY HeadKind DEF ContentTypes, Callbacks
<1>2. content'[b].type = "assocOk" /\ \A x \in Buf : x # b => content'[x] = content[x]
  BY <1>1, ContentFilled
<1>3. Left(b)
  BY <1>1, <1>2 DEF Left
<1>4. UNCHANGED <<txWait, dataReq, slots, outq>>
  BY DEF parent, radio
<1>5. Steady
  <2>1. \A x \in Buf : Awaited(x)' => Awaited(x)
    BY <1>2, <1>4 DEF Awaited
  <2>. QED BY <1>4, <2>1 DEF Steady, PollKept
<1>6. Kinds' /\ UsedOnce'
  BY <1>3, <1>5, LeftPlaces
<1>7. /\ \A e \in Members(Tail(cbq)) : e \in Members(cbq) /\ content'[e.buf] = content[e.buf]
      /\ \A e \in Members(txq) : e.buf # NONE => content'[e.buf] = content[e.buf]
  BY <1>3, LeftQueues
<1>8. PICK q \in Seq(CbRefs) : /\ q = Tail(cbq) /\ Closing(q, Failing, Confirms)
                               /\ Picked(q, "data_confirm", Direct) = Picked(cbq, "data_confirm", Direct)
  <2>1. cbq \in Seq(CbRefs) /\ Closing(cbq, Failing, Confirms)
    BY DEF Typed, Sound, Associating, FailureLast
  <2>. QED BY <2>1, CalmTook
<1>9. PICK e \in CbRefs : e = Ref("associate_confirm", b) /\ e.func = "associate_confirm" /\ e.buf = b
  <2>1. Ref("associate_confirm", b) \in CbRefs
    BY <1>1 DEF Ref, CbRefs
  <2>. QED BY <2>1 DEF Ref
<1>10. cbq' = Append(q, e)
  BY <1>8, <1>9
<1>11. Associating'
  <2>1. Owed
    BY DEF Owed
  <2>2. /\ ~Asking /\ upper.assoc \notin {"scanned", "failed"}
        /\ \A x \in Members(cbq) : x \notin Failing
    BY <2>1 DEF Sound, Associating, NothingLeft, FailureLast
  <2>3. ~Asking' /\ upper'.assoc \notin {"scanned", "failed"} /\ OneRequest'
    BY <1>4, <2>2 DEF Asking, Queued, Sound, Associating, OneRequest
  <2>4. \A x \in Members(q) : x \notin Failing /\ (x.func = "associate_confirm" => content'[x.buf] = content[x.buf])
    BY <1>7, <1>8, <2>2
  <2>5. ~("indirect_ass" \in timers' /\ caller' = "ass") /\ content'[e.buf].type = "assocOk"
    BY <1>2, <1>9 DEF Sound, Associating, FailureLast
  <2>. QED BY <1>8, <1>9, <1>10, <2>3, <2>4, <2>5, ConfirmGiven DEF Sound
<1>12. Ordered'
  <2>1. Direct \in SUBSET Buf
    BY DEF Direct
  <2>2. Picked(Append(q, e), "data_confirm", Direct) = Picked(q, "data_confirm", Direct)
    BY <1>9, <2>1, PickedPut
  <2>3. Members(Append(q, e)) = Members(q) \cup {e}
    BY PutFacts
  <2>4. \A x \in Members(cbq') : x.func = "data_confirm" => content'[x.buf] = content[x.buf]
    BY <1>7, <1>8, <1>9, <1>10, <2>3
  <2>5. \A x \in Members(txq') : x.func = "mcps_data_req" => content'[x.buf] = content[x.buf]
    BY <1>7 DEF Sound, Kinds, TxqKind, Fits
  <2>. QED BY <1>4, <1>8, <1>10, <2>2, <2>4, <2>5, OrderCalm DEF Sound, Transmitting
<1>. QED BY <1>6, <1>11, <1>12 DEF Sound

LEMMA CommandAcceptSound ==
  ASSUME Typed, Typed', Sound, cbq # << >>, NEW b, b = Head(cbq).buf, Head(cbq).func = "command_accept",
         CommandAccept(b), UNCHANGED asked, UNCHANGED radio
  PROVE  Sound'
<1>0. UNCHANGED <<pendingBuf, bufRef, timers, caller, upper>> /\ UNCHANGED parent /\ flags' \subseteq flags
      /\ ("poll" \in flags' => "poll" \in flags) /\ ("ass" \in flags' => "ass" \in flags)
  BY DEF CommandAccept
<1>u. UNCHANGED <<txWait, dataReq, slots, outq>>
  BY <1>0 DEF parent, radio
<1>c. Calm(Head(cbq))
  BY DEF Calm
<1>k. b \in Buf /\ content[b].type \notin {"free", "assocReq"}
  BY HeadKind
<1>2. ASSUME \A x \in Buf : content'[x] = content[x] \/ content'[x].type # "assocReq"
      PROVE  Steady
  <2>1. \A x \in Buf : Awaited(x)' => Awaited(x)
    BY <1>0, <1>u, <1>2 DEF Awaited
  <2>2. PollKept' => PollKept
    BY <1>0 DEF PollKept
  <2>. QED BY <1>0, <1>u, <2>1, <2>2 DEF Steady
<1>3. ASSUME \A e \in Members(txq') : e.func = "association_req" => e \in Members(txq)
      PROVE  AssocKept
  BY <1>0, <1>u, <1>3 DEF AssocKept
<1>p. \A f \in TxCallbacks, x \in Buf \cup {NONE} :
         f # "association_req" /\ txq' = Append(txq, Ref(f, x)) =>
           \A e \in Members(txq') : e.func = "association_req" => e \in Members(txq)
  <2>1. SUFFICES ASSUME NEW f \in TxCallbacks, NEW x \in Buf \cup {NONE}, f # "association_req", txq' = Append(txq, Ref(f, x))
                 PROVE  \A e \in Members(txq') : e.func = "association_req" => e \in Members(txq)
    OBVIOUS
  <2>2. PICK e : e = Ref(f, x) /\ txq' = Append(txq, e)
    BY <2>1
  <2>3. e.func = f /\ Members(txq') = Members(txq) \cup {e}
    BY <2>2, TxqPut
  <2>. QED BY <2>1, <2>3
<1>4. CASE /\ content' = Released(content, b) /\ cbq' = Tail(cbq)
           /\ (txq' = txq \/ txq' = Append(txq, Ref("beacon_req", NONE)))
  <2>1. \A x \in Buf : content'[x] = content[x] \/ content'[x].type # "assocReq"
    BY <1>k, <1>4, ContentReleased
  <2>2. "beacon_req" \in TxCallbacks /\ NONE \in Buf \cup {NONE}
    BY DEF TxCallbacks
  <2>3. Steady /\ AssocKept
    BY <1>2, <1>3, <1>4, <1>p, <2>1, <2>2
  <2>. QED BY <1>4, <1>c, <2>3, Dropped
<1>5. CASE cbq' = Append(Tail(cbq), Ref("accept_ass_request", b)) /\ UNCHANGED <<txq, content, flags>>
  <2>1. PICK f \in Callbacks \ {"associate_confirm", "data_confirm"} : cbq' = Append(Tail(cbq), Ref(f, b))
    BY <1>5 DEF Callbacks
  <2>2. Steady /\ AssocKept
    BY <1>2, <1>3, <1>5
  <2>. QED BY <1>5, <1>c, <1>k, <2>1, <2>2, PassedOn
<1>6. CASE txq' = Append(txq, Ref("accept_data_request", b)) /\ cbq' = Tail(cbq) /\ UNCHANGED <<content, flags>>
  <2>1. "accept_data_request" \in TxCallbacks /\ b \in Buf \cup {NONE}
    BY <1>k DEF TxCallbacks
  <2>2. Steady /\ AssocKept
    BY <1>2, <1>3, <1>6, <1>p, <2>1
  <2>3. Left(b) /\ Quiet
    BY <1>6 DEF Left, Quiet
  <2>. QED BY <1>c, <2>2, <2>3, LeftSound
<1>7. CASE /\ "ass" \in flags /\ content' = Filled(content, b, "assocOk", NONE) /\ flags' = flags \ {"ass"}
           /\ cbq' = Append(Tail(cbq), Ref("associate_confirm", b)) /\ UNCHANGED txq
  BY <1>0, <1>7, ResponseTakenSound
<1>. QED BY <1>4, <1>5, <1>6, <1>7 DEF CommandAccept

LEMMA OneElement == ASSUME NEW B, NEW b \in B PROVE <<b>> \in Seq(B) /\ Len(<<b>>) = 1 /\ <<b>>[1] = b
OBVIOUS

\* The layer above takes the confirm of a data request: it is the oldest one
\* that is direct and not confirmed.
LEMMA DataConfirmSound ==
  ASSUME Typed, Typed', Sound, cbq # << >>, NEW b, b = Head(cbq).buf, Head(cbq).func = "data_confirm",
         content' = Released(content, b), cbq' = Tail(cbq), AskedAfter,
         UNCHANGED <<txq, pendingBuf, flags, bufRef, timers, caller, upper>>, UNCHANGED parent, UNCHANGED radio
  PROVE  Sound'
<1>u. UNCHANGED <<txWait, dataReq, slots, outq>>
  BY DEF parent, radio
<1>1. b \in Buf /\ content'[b].type = "free" /\ \A x \in Buf : x # b => content'[x] = content[x]
  BY HeadKind, ContentReleased
<1>2. Left(b)
  BY <1>1 DEF Left
<1>3. Steady /\ AssocKept
  <2>1. \A x \in Buf : Awaited(x)' => Awaited(x)
    BY <1>u, <1>1 DEF Awaited
  <2>. QED BY <1>u, <2>1 DEF Steady, AssocKept, PollKept
<1>4. Kinds' /\ UsedOnce'
  BY <1>2, <1>3, LeftPlaces
<1>5. /\ \A e \in Members(Tail(cbq)) : e \in Members(cbq) /\ content'[e.buf] = content[e.buf]
      /\ \A e \in Members(txq) : e.buf # NONE => content'[e.buf] = content[e.buf]
      /\ Apart(b)
  BY <1>2, LeftQueues
<1>6. cbq \in Seq(CbRefs) /\ Tail(cbq) \in Seq(CbRefs) /\ Closing(Tail(cbq), Failing, Confirms)
  <2>1. cbq \in Seq(CbRefs) /\ Closing(cbq, Failing, Confirms)
    BY DEF Typed, Sound, Associating, FailureLast
  <2>. QED BY <2>1, CalmTook
<1>7. Associating'
  <2>1. ConfirmsKept
    BY <1>5 DEF ConfirmsKept
  <2>. QED BY <1>3, <1>6, <2>1, AssociatingKept DEF Sound
<1>8. Ordered'
  <2>0. Direct \in SUBSET Buf /\ Direct' \in SUBSET Buf
    BY DEF Direct
  <2>1. PICK a \in Seq(Direct), m \in Seq(Direct), w \in Seq(Direct) :
           /\ a = Picked(cbq', "data_confirm", Direct) /\ m = Transmitting
           /\ w = Picked(txq, "mcps_data_req", Direct)
    <3>1. txq \in Seq(TxRefs)
      BY DEF Typed
    <3>2. Picked(cbq', "data_confirm", Direct) \in Seq(Direct) /\ Picked(txq, "mcps_data_req", Direct) \in Seq(Direct)
      BY <1>6, <3>1, PickedType
    <3>3. Transmitting \in Seq(Direct)
      <4>1. txWait.func = "data_continue" => txWait.buf \in Direct
        BY DEF Sound, Kinds, SentKind, Direct
      <4>2. txWait.func = "data_continue" => <<txWait.buf>> \in Seq(Direct)
        BY <4>1, OneElement
      <4>. QED BY <4>2 DEF Transmitting
    <3>. QED BY <3>2, <3>3
  <2>2. asked' = a \o m \o w
    <3>1. CASE b \in Direct
      <4>1. PICK o \in Seq(Direct) : o = <<b>> /\ Len(o) = 1 /\ o[1] = b
        <5>1. <<b>> \in Seq(Direct) /\ Len(<<b>>) = 1 /\ <<b>>[1] = b
          BY <3>1, OneElement
        <5>. QED BY <5>1
      <4>2. Picked(cbq, "data_confirm", Direct) = o \o a
        <5>1. Picked(cbq, "data_confirm", Direct) = <<Head(cbq).buf>> \o Picked(Tail(cbq), "data_confirm", Direct)
          BY <1>6, <2>0, <3>1, PickedTook
        <5>. QED BY <2>1, <4>1, <5>1
      <4>3. asked = o \o a \o m \o w
        BY <2>1, <4>2 DEF Sound, Ordered
      <4>4. PICK r \in Seq(Direct) : r = a \o m \o w
        BY ConcatProperties
      <4>5. asked = o \o r
        <5>1. o \o a \o m \o w = o \o (a \o m \o w)
          <6>1. Grouped(o, a, m, w)
            BY Regrouped
          <6>. QED BY <6>1 DEF Grouped
        <5>. QED BY <4>3, <4>4, <5>1
      <4>6. o \o r # << >> /\ Head(o \o r) = b /\ Tail(o \o r) = r
        BY <4>1, ConfirmTaken
      <4>. QED BY <4>4, <4>5, <4>6 DEF AskedAfter
    <3>2. CASE b \notin Direct
      <4>1. Picked(cbq, "data_confirm", Direct) = a
        BY <1>6, <2>0, <2>1, <3>2, PickedTook
      <4>2. asked = a \o m \o w
        BY <2>1, <4>1 DEF Sound, Ordered
      <4>3. asked \in Seq(Direct)
        BY <4>2, ConcatProperties
      <4>4. asked # << >> => Head(asked) \in Direct
        BY <4>3, HeadTailProperties
      <4>. QED BY <3>2, <4>2, <4>4 DEF AskedAfter
    <3>. QED BY <3>1, <3>2
  <2>3. Picked(cbq', "data_confirm", Direct') = a
    <3>1. \A e \in Members(cbq') : e.buf \in Direct <=> e.buf \in Direct'
      BY <1>5 DEF Direct
    <3>2. PICK D \in SUBSET Buf, E \in SUBSET Buf : D = Direct /\ E = Direct'
      BY <2>0
    <3>3. PICK q \in Seq(CbRefs) : q = cbq'
      BY <1>6
    <3>4. Picked(q, "data_confirm", D) = Picked(q, "data_confirm", E)
      BY <3>1, <3>2, <3>3, PickedSame
    <3>. QED BY <2>1, <3>2, <3>3, <3>4
  <2>4. Picked(txq', "mcps_data_req", Direct') = w
    <3>1. \A e \in Members(txq) : e.func = "mcps_data_req" => (e.buf \in Direct <=> e.buf \in Direct')
      BY <1>5 DEF Direct, Sound, Kinds, TxqKind, Fits
    <3>2. PICK D \in SUBSET Buf, E \in SUBSET Buf : D = Direct /\ E = Direct'
      BY <2>0
    <3>3. txq \in Seq(TxRefs)
      BY DEF Typed
    <3>4. Picked(txq, "mcps_data_req", D) = Picked(txq, "mcps_data_req", E)
      BY <3>1, <3>2, <3>3, PickedSame
    <3>. QED BY <2>1, <3>2, <3>4
  <2>5. Transmitting' = m
    BY <1>u, <2>1 DEF Transmitting
  <2>. QED BY <2>2, <2>3, <2>4, <2>5 DEF Ordered
<1>. QED BY <1>4, <1>7, <1>8 DEF Sound

\* The layer above takes the confirm of an association: after a failure no
\* other is on its way.
LEMMA AssociateConfirmSound ==
  ASSUME Typed, Typed', Sound, cbq # << >>, NEW b, b = Head(cbq).buf, Head(cbq).func = "associate_confirm",
         content' = Released(content, b), cbq' = Tail(cbq),
         upper' = [upper EXCEPT !.assoc = IF content[b].type = "assocOk" THEN "joined" ELSE "failed"],
         UNCHANGED <<txq, pendingBuf, flags, bufRef, timers, caller, asked>>, UNCHANGED parent, UNCHANGED radio
  PROVE  Sound'
<1>u. UNCHANGED <<txWait, dataReq, slots, outq>>
  BY DEF parent, radio
<1>1. b \in Buf /\ content'[b].type = "free" /\ \A x \in Buf : x # b => content'[x] = content[x]
  BY HeadKind, ContentReleased
<1>2. Left(b)
  BY <1>1 DEF Left
<1>3. Head(cbq) \in Confirms /\ Head(cbq) \in Members(cbq) /\ (Head(cbq) \in Failing <=> content[b].type # "assocOk")
  BY HeadOfCbq DEF Confirms, Failing
<1>4. ~Asking /\ upper.assoc \notin {"scanned", "failed"}
  BY <1>3 DEF Sound, Associating, NothingLeft
<1>5. /\ upper'.assoc = IF content[b].type = "assocOk" THEN "joined" ELSE "failed"
      /\ upper'.buf = upper.buf
  BY DEF Typed
<1>6. Steady
  <2>1. \A x \in Buf : Awaited(x)' => Awaited(x)
    BY <1>u, <1>1 DEF Awaited
  <2>. QED BY <1>u, <1>4, <1>5, <2>1 DEF Steady, PollKept
<1>7. Kinds' /\ UsedOnce'
  BY <1>2, <1>6, LeftPlaces
<1>8. /\ \A e \in Members(Tail(cbq)) : e \in Members(cbq) /\ content'[e.buf] = content[e.buf]
      /\ \A e \in Members(txq) : e.buf # NONE => content'[e.buf] = content[e.buf]
  BY <1>2, LeftQueues
<1>9. /\ Closing(cbq', Failing, Confirms)
      /\ Head(cbq) \in Failing => \A x \in Members(cbq') : x \notin Confirms
      /\ Picked(cbq', "data_confirm", Direct) = Picked(cbq, "data_confirm", Direct)
  <2>1. cbq \in Seq(CbRefs) /\ Closing(cbq, Failing, Confirms)
    BY DEF Typed, Sound, Associating, FailureLast
  <2>. QED BY <2>1, CalmTook
<1>10. Associating'
  <2>1. ~Asking' /\ OneRequest' /\ (Owed' => Owed)
    BY <1>u, <1>4 DEF Asking, Queued, Sound, Associating, OneRequest, Owed
  <2>2. Head(cbq) \in Failing => ~Owed
    BY <1>3 DEF Sound, Associating, FailureLast
  <2>3. NothingLeft'
    BY <1>3, <1>5, <1>9, <2>1, <2>2 DEF NothingLeft
  <2>4. \A x \in Members(cbq') : x \in Failing' => x \in Failing /\ x \in Members(cbq)
    BY <1>8 DEF Failing
  <2>5. Closing(cbq', Failing', Confirms)
    <3>1. PICK F, G : F = Failing /\ G = Failing'
      OBVIOUS
    <3>2. Closing(cbq', F, Confirms) /\ \A x \in Members(cbq') : x \in G => x \in F
      BY <1>9, <2>4, <3>1
    <3>3. Closing(cbq', G, Confirms)
      BY <3>2, ClosingFewer
    <3>. QED BY <3>1, <3>3
  <2>6. FailureLast'
    BY <2>1, <2>4, <2>5 DEF Sound, Associating, FailureLast
  <2>. QED BY <2>1, <2>3, <2>6 DEF Associating
<1>11. Ordered'
  <2>1. /\ \A x \in Members(cbq') : x.func = "data_confirm" => content'[x.buf] = content[x.buf]
        /\ \A x \in Members(txq') : x.func = "mcps_data_req" => content'[x.buf] = content[x.buf]
    BY <1>8 DEF Sound, Kinds, TxqKind, Fits
  <2>. QED BY <1>u, <1>9, <2>1, OrderCalm DEF Sound, Transmitting
<1>. QED BY <1>7, <1>10, <1>11 DEF Sound

LEMMA UpperCallbackSound ==
  ASSUME Typed, Typed', Sound, cbq # << >>, NEW b, b = Head(cbq).buf, NEW f, f = Head(cbq).func,
         f \in {"associate_indication", "associate_confirm", "data_confirm", "data_indication", "comm_status", "poll_confirm"},
         UpperCallback(f, b), AskedAfter, UNCHANGED txq, UNCHANGED radio
  PROVE  Sound'
<1>0. UNCHANGED <<pendingBuf, flags, bufRef, timers, caller>> /\ UNCHANGED parent /\ (f # "data_confirm" => asked' = asked)
  BY DEF UpperCallback, AskedAfter
<1>u. UNCHANGED <<txWait, dataReq, slots, outq>>
  BY <1>0 DEF parent, radio
<1>k. b \in Buf /\ content[b].type \notin {"free", "assocReq"}
  BY HeadKind
<1>2. ASSUME \A x \in Buf : content'[x] = content[x] \/ content'[x].type # "assocReq",
             upper'.assoc = upper.assoc, upper'.buf = upper.buf
      PROVE  Steady /\ AssocKept
  <2>1. \A x \in Buf : Awaited(x)' => Awaited(x)
    BY <1>0, <1>u, <1>2 DEF Awaited
  <2>. QED BY <1>0, <1>u, <1>2, <2>1 DEF Steady, AssocKept, PollKept
<1>3. CASE f = "associate_indication"
  <2>1. cbq' = Append(Tail(cbq), Ref("associate_response", b)) /\ UNCHANGED <<content, upper>>
    BY <1>3 DEF UpperCallback
  <2>2. PICK g \in Callbacks \ {"associate_confirm", "data_confirm"} : cbq' = Append(Tail(cbq), Ref(g, b))
    BY <2>1 DEF Callbacks
  <2>3. Steady /\ AssocKept /\ Calm(Head(cbq))
    BY <1>2, <1>3, <2>1 DEF Calm
  <2>. QED BY <1>0, <1>3, <1>k, <2>1, <2>2, <2>3, PassedOn
<1>4. CASE f \in {"data_indication", "comm_status", "poll_confirm"}
  <2>1. content' = Released(content, b) /\ cbq' = Tail(cbq) /\ upper'.assoc = upper.assoc /\ upper'.buf = upper.buf
    BY <1>4 DEF UpperCallback, Typed
  <2>2. \A x \in Buf : content'[x] = content[x] \/ content'[x].type # "assocReq"
    BY <1>k, <2>1, ContentReleased
  <2>3. Steady /\ AssocKept /\ Calm(Head(cbq))
    BY <1>2, <1>4, <2>1, <2>2 DEF Calm
  <2>. QED BY <1>0, <1>4, <2>1, <2>3, Dropped
<1>5. CASE f = "data_confirm"
  <2>1. content' = Released(content, b) /\ cbq' = Tail(cbq) /\ upper' = upper
    BY <1>5 DEF UpperCallback
  <2>. QED BY <1>0, <1>5, <2>1, DataConfirmSound
<1>6. CASE f = "associate_confirm"
  <2>1. /\ content' = Released(content, b) /\ cbq' = Tail(cbq)
        /\ upper' = [upper EXCEPT !.assoc = IF content[b].type = "assocOk" THEN "joined" ELSE "failed"]
    BY <1>6 DEF UpperCallback
  <2>. QED BY <1>0, <1>6, <2>1, AssociateConfirmSound
<1>. QED BY <1>3, <1>4, <1>5, <1>6

\* The association response takes a slot of the pending queue.
LEMMA ResponseStoredSound ==
  ASSUME Typed, Typed', SlotsGuarded, Sound, cbq # << >>, NEW b, b = Head(cbq).buf,
         Head(cbq).func = "associate_response", AssociateResponse(b), FreeSlots # {},
         UNCHANGED <<txq, asked>>, UNCHANGED radio
  PROVE  Sound'
<1>0. /\ content' = Filled(content, b, "assocResp", content[b].peer) /\ pendingBuf' = b /\ cbq' = Tail(cbq)
      /\ UNCHANGED outq /\ UNCHANGED child
  BY DEF AssociateResponse
<1>u. UNCHANGED <<txWait, dataReq, flags, bufRef, timers, caller, upper, outq>> /\ PollKept' = PollKept
  BY <1>0 DEF radio, child, PollKept
<1>1. /\ b \in Buf /\ content[b].peer \in Peer \cup {NONE} /\ "assocResp" \in ContentTypes
      /\ content[b].type \notin {"free", "assocReq"}
  BY HeadOfCbq, HeadKind DEF ContentTypes, Requests
<1>2. content'[b].type = "assocResp" /\ \A x \in Buf : x # b => content'[x] = content[x]
  <2>1. PICK p \in Peer \cup {NONE} : p = content[b].peer
    BY <1>1
  <2>2. content' = Filled(content, b, "assocResp", p)
    BY <1>0, <2>1
  <2>. QED BY <1>1, <2>2, ContentFilled
<1>3. /\ Off(Tail(cbq), b) /\ Off(txq, b) /\ Aside(b)
      /\ Has(Tail(cbq), b) = 0 /\ Has(txq, b) = 0 /\ InSlots(slots, b) = 0
  BY AtHead DEF Sound, Apart
<1>4. PICK s \in Slot, v \in SlotValues : slots[s] = EmptySlot /\ slots' = [slots EXCEPT ![s] = v] /\ v.buf = b
  <2>1. PICK p \in Peer \cup {NONE} : p = content[b].peer
    BY <1>1
  <2>2. PutDataToPendingQueue(b, p)
    BY <2>1 DEF AssociateResponse
  <2>. QED BY <1>1, <2>2, FilledGuarded
<1>5. /\ slots'[s] = v /\ \A t \in Slot : t # s => slots'[t] = slots[t]
      /\ \A x : InSlots(slots', x) = InSlots(slots, x) - (IF slots[s].buf = x THEN 1 ELSE 0) + (IF v.buf = x THEN 1 ELSE 0)
  <2>1. PICK u \in SlotValues : u = v /\ slots' = [slots EXCEPT ![s] = u]
    BY <1>4
  <2>0. slots' = [slots EXCEPT ![s] = u]
    BY <2>1
  <2>s. SlotStored(s, u)
    BY <2>0, SlotSet
  <2>2. /\ slots'[s] = u /\ \A t \in Slot : t # s => slots'[t] = slots[t]
        /\ \A x : InSlots(slots', x) = InSlots(slots, x) - (IF slots[s].buf = x THEN 1 ELSE 0)
                                                         + (IF u.buf = x THEN 1 ELSE 0)
    BY <2>s, Zenon DEF SlotStored
  <2>. QED BY <2>1, <2>2
<1>6. /\ cbq \in Seq(CbRefs)
      /\ \A e \in Members(cbq') : e \in Members(cbq) /\ content'[e.buf] = content[e.buf]
      /\ \A e \in Members(txq) : e.buf # NONE => content'[e.buf] = content[e.buf]
      /\ \A x : Has(cbq, x) = Has(cbq', x) + (IF b = x THEN 1 ELSE 0)
  <2>1. cbq \in Seq(CbRefs)
    BY DEF Typed
  <2>2. /\ \A e \in Members(Tail(cbq)) : e \in Members(cbq) /\ e \in CbRefs
        /\ \A x : Has(cbq, x) = Has(Tail(cbq), x) + (IF b = x THEN 1 ELSE 0)
    BY <2>1, TookFacts, MembersTyped
  <2>. QED BY <1>0, <1>2, <1>3, <2>1, <2>2, MembersTyped DEF Off, CbRefs
<1>7. NONE \notin Buf /\ EmptySlot.buf = NONE
  BY DEF NONE, Buf, EmptySlot
<1>8. \A x \in Buf : content'[x] = content[x] \/ Aside(x)
  BY <1>2, <1>3
<1>9. Kinds'
  <2>1. CbqKind'
    BY <1>6 DEF Sound, Kinds, CbqKind
  <2>2. TxqKind'
    BY <1>6, FitsKept DEF Sound, TxqKind
  <2>3. SentKind' /\ OutKind'
    BY <1>u, <1>8 DEF Sound, Kinds, SentKind, OutKind, Aside, Typed
  <2>4. SlotKind'
    <3>1. ASSUME NEW t \in Slot, slots'[t] # EmptySlot
          PROVE  slots'[t].buf \in Buf /\ content'[slots'[t].buf].type \in {"indirect", "assocResp"}
      <4>1. CASE t = s
        BY <1>1, <1>2, <1>4, <1>5, <4>1
      <4>2. CASE t # s
        <5>1. slots'[t] = slots[t] /\ slots[t].buf # b
          BY <1>3, <1>5, <4>2 DEF Aside
        <5>. QED BY <1>2, <3>1, <5>1 DEF Sound, Kinds, SlotKind
      <4>. QED BY <4>1, <4>2
    <3>. QED BY <3>1 DEF SlotKind
  <2>5. PollKind' /\ AboveKind'
    BY <1>u, <1>8, PollKindKept, AboveKindKept DEF Sound
  <2>. QED BY <2>1, <2>2, <2>3, <2>4, <2>5 DEF Kinds
<1>10. UsedOnce'
  <2>1. ASSUME NEW x \in Buf, x # b PROVE NoMore(x) /\ content'[x] = content[x]
    <3>1. InSlots(slots, x) \in Nat /\ Has(cbq, x) \in Nat /\ Has(txq, x) \in Nat
      BY UsesFacts DEF Sound
    <3>2. Has(cbq', x) = Has(cbq, x)
      <4>1. cbq' \in Seq(CbRefs)
        BY DEF Typed
      <4>2. Has(cbq', x) \in Nat
        BY <4>1, HasFacts
      <4>. QED BY <1>6, <2>1, <4>2
    <3>3. InSlots(slots', x) = InSlots(slots, x) - 0 + 0
      BY <1>4, <1>5, <1>7, <2>1
    <3>4. ~Awaited(x)'
      BY <1>0, <2>1 DEF Awaited
    <3>. QED BY <1>2, <1>u, <2>1, <3>1, <3>2, <3>3, <3>4 DEF NoMore
  <2>2. Uses(b)' = 1
    <3>1. /\ Has(cbq', b) = 0 /\ Has(txq', b) = 0
      BY <1>0, <1>3
    <3>2. InSlots(slots', b) = 1
      <4>1. slots[s].buf # b /\ v.buf = b
        BY <1>1, <1>4, <1>7
      <4>2. InSlots(slots', b) = InSlots(slots, b) - 0 + 1
        BY <1>5, <4>1
      <4>. QED BY <1>3, <4>2
    <3>3. /\ ~(txWait'.func = "data_continue" /\ txWait'.buf = b) /\ b \notin outq'
          /\ ~(PollKept' /\ bufRef' = b) /\ upper'.buf # b /\ ~Awaited(b)'
      BY <1>u, <1>2, <1>3 DEF Aside, Awaited
    <3>. QED BY <3>1, <3>2, <3>3 DEF Uses
  <2>3. content'[b].type # "free"
    BY <1>2
  <2>. QED BY <2>1, <2>2, <2>3, UsedOnceKept DEF Sound
<1>11. /\ Closing(cbq', Failing, Confirms)
       /\ Picked(cbq', "data_confirm", Direct) = Picked(cbq, "data_confirm", Direct)
  <2>1. Closing(cbq, Failing, Confirms)
    BY DEF Sound, Associating, FailureLast
  <2>. QED BY <1>0, <1>6, <2>1, CalmTook
<1>12. Associating'
  <2>1. AssocKept /\ ConfirmsKept
    BY <1>u, <1>6 DEF AssocKept, ConfirmsKept
  <2>. QED BY <1>11, <2>1, AssociatingKept DEF Sound
<1>13. Ordered'
  <2>1. \A e \in Members(txq') : e.func = "mcps_data_req" => content'[e.buf] = content[e.buf]
    BY <1>6 DEF Sound, Kinds, TxqKind, Fits
  <2>. QED BY <1>6, <1>11, <1>u, <2>1, OrderCalm DEF Sound, Transmitting
<1>. QED BY <1>9, <1>10, <1>12, <1>13 DEF Sound

LEMMA AssociateResponseSound ==
  ASSUME Typed, Typed', SlotsGuarded, Sound, cbq # << >>, NEW b, b = Head(cbq).buf,
         Head(cbq).func = "associate_response", AssociateResponse(b),
         UNCHANGED <<txq, asked>>, UNCHANGED radio
  PROVE  Sound'
<1>1. CASE FreeSlots # {}
  BY <1>1, ResponseStoredSound
<1>2. CASE FreeSlots = {}
  <2>0. /\ content' = Filled(content, b, "assocResp", content[b].peer) /\ pendingBuf' = NONE
        /\ cbq' = Append(Tail(cbq), Ref("comm_status", b)) /\ UNCHANGED <<slots, outq>> /\ UNCHANGED child
    BY <1>2 DEF AssociateResponse, PutDataToPendingQueue
  <2>1. /\ b \in Buf /\ content[b].peer \in Peer \cup {NONE} /\ "assocResp" \in ContentTypes
    BY HeadOfCbq DEF ContentTypes, Requests
  <2>2. content'[b].type = "assocResp" /\ \A x \in Buf : x # b => content'[x] = content[x]
    <3>1. PICK p \in Peer \cup {NONE} : p = content[b].peer
      BY <2>1
    <3>2. content' = Filled(content, b, "assocResp", p)
      BY <2>0, <3>1
    <3>. QED BY <2>1, <3>2, ContentFilled
  <2>3. PICK f \in Callbacks \ {"associate_confirm", "data_confirm"} : cbq' = Append(Tail(cbq), Ref(f, b))
    BY <2>0 DEF Callbacks
  <2>4. \A x \in Buf : ~Awaited(x)'
    BY <2>0 DEF Awaited, NONE, Buf
  <2>5. Steady /\ AssocKept /\ Calm(Head(cbq))
    BY <2>0, <2>4 DEF Steady, AssocKept, Calm, PollKept, radio, child
  <2>. QED BY <2>2, <2>3, <2>5, PassedOn
<1>. QED BY <1>1, <1>2

LEMMA RunCallbackSound ==
  ASSUME Typed, Typed', SlotsGuarded, Sound, RunCallback
  PROVE  Sound'
<1>. DEFINE f == Head(cbq).func
            b == Head(cbq).buf
<1>1. cbq # << >> /\ UNCHANGED radio /\ AskedAfter /\ (f # "data_confirm" => UNCHANGED asked)
  BY DEF RunCallback, AskedAfter
<1>2. CASE f = "parse_recv_data" /\ ParseRecvData(b) /\ UNCHANGED txq
  BY <1>1, <1>2, ParseRecvDataSound
<1>3. CASE f = "handle_data_frame" /\ HandleDataFrame(b) /\ UNCHANGED txq
  BY <1>1, <1>3, HandedOnSound
<1>4. CASE f = "command_accept" /\ CommandAccept(b)
  BY <1>1, <1>4, CommandAcceptSound
<1>5. CASE f = "accept_ass_request" /\ AcceptAssRequestCmd(b) /\ UNCHANGED txq
  BY <1>1, <1>5, HandedOnSound
<1>6. CASE f = "associate_response" /\ AssociateResponse(b) /\ UNCHANGED txq
  BY <1>1, <1>6, AssociateResponseSound
<1>7. CASE /\ f \in {"associate_indication", "associate_confirm", "data_confirm", "data_indication",
                     "comm_status", "poll_confirm"}
           /\ UpperCallback(f, b) /\ UNCHANGED txq
  BY <1>1, <1>7, UpperCallbackSound
<1>. QED BY <1>2, <1>3, <1>4, <1>5, <1>6, <1>7 DEF RunCallback

-----------------------------------------------------------------------------
\* The transmission of a direct request has ended: it becomes a confirm.
LEMMA DataContinueSound ==
  ASSUME Typed, Typed', Sound, txWait.func = "data_continue", DataContinue(txWait.buf),
         txWait' = Ref("idle", NONE), UNCHANGED <<txq, asked>>
  PROVE  Sound'
<1>0. /\ UNCHANGED <<content, dataReq>> /\ UNCHANGED parent /\ UNCHANGED child /\ pendingBuf' = NONE
      /\ txWait'.func = "idle" /\ "data_confirm" \in Callbacks
  BY DEF DataContinue, Ref, Callbacks
<1>u. UNCHANGED <<slots, outq, flags, bufRef, timers, caller, upper>> /\ PollKept' = PollKept
  BY <1>0 DEF parent, child, PollKept
<1>1. PICK b \in Buf : b = txWait.buf /\ content[b].type = "direct"
  BY DEF Sound, Kinds, SentKind
<1>2. /\ content[b].type # "free" /\ Off(cbq, b) /\ Off(txq, b)
      /\ Has(cbq, b) = 0 /\ Has(txq, b) = 0 /\ InSlots(slots, b) = 0
      /\ b \notin outq /\ ~(PollKept /\ bufRef = b) /\ upper.buf # b /\ ~Awaited(b)
  BY <1>1, InTransmission DEF Sound
<1>3. PICK e : e = Ref("data_confirm", b) /\ cbq' = Append(cbq, e)
  BY <1>1 DEF DataContinue
<1>4. /\ e \in CbRefs /\ e.func = "data_confirm" /\ e.buf = b
      /\ Members(cbq') = Members(cbq) \cup {e}
      /\ \A x : Has(cbq', x) = Has(cbq, x) + (IF b = x THEN 1 ELSE 0)
      /\ \A c : \A P \in SUBSET Buf : Picked(cbq', c, P) = IF "data_confirm" = c /\ b \in P THEN Append(Picked(cbq, c, P), b)
                                                           ELSE Picked(cbq, c, P)
  BY <1>0, <1>3, CbqPut
<1>5. \A x \in Buf : ~Awaited(x)'
  BY <1>0 DEF Awaited, NONE, Buf
<1>6. Kinds'
  <2>1. CbqKind'
    BY <1>0, <1>1, <1>4 DEF Sound, Kinds, CbqKind
  <2>2. TxqKind' /\ SentKind' /\ SlotKind' /\ OutKind' /\ PollKind' /\ AboveKind'
    BY <1>0, <1>u DEF Sound, Kinds, TxqKind, Fits, SentKind, SlotKind, OutKind, PollKind, AboveKind
  <2>. QED BY <2>1, <2>2 DEF Kinds
<1>7. UsedOnce'
  <2>1. ASSUME NEW x \in Buf, x # b PROVE NoMore(x) /\ content'[x] = content[x]
    <3>1. InSlots(slots, x) \in Nat /\ Has(cbq, x) \in Nat /\ Has(txq, x) \in Nat
      BY UsesFacts DEF Sound
    <3>2. Has(cbq', x) = Has(cbq, x) + 0
      BY <1>4, <2>1
    <3>. QED BY <1>0, <1>u, <1>5, <3>1, <3>2 DEF NoMore
  <2>2. Uses(b)' = Has(cbq', b) + Has(txq', b)
    <3>1. \A s \in Slot : slots'[s].buf # b
      BY <1>u, <1>2, SlotFacts
    <3>. QED BY <1>0, <1>u, <1>2, <1>5, <3>1, InOnePlace
  <2>3. Has(cbq', b) = 1 /\ Has(txq', b) = 0
    BY <1>2, <1>4
  <2>4. content'[b].type # "free"
    BY <1>0, <1>2
  <2>. QED BY <2>1, <2>2, <2>3, <2>4, UsedOnceKept DEF Sound
<1>8. Associating'
  <2>1. AssocKept /\ ConfirmsKept
    BY <1>0, <1>u, <1>4 DEF AssocKept, ConfirmsKept
  <2>2. Closing(cbq', Failing, Confirms)
    <3>1. cbq \in Seq(CbRefs) /\ Closing(cbq, Failing, Confirms) /\ e \notin Confirms
      BY <1>4 DEF Typed, Sound, Associating, FailureLast, Confirms
    <3>2. Closing(Append(cbq, e), Failing, Confirms)
      BY <1>4, <3>1, ClosingPut
    <3>. QED BY <1>3, <3>2
  <2>. QED BY <2>1, <2>2, AssociatingKept DEF Sound
<1>9. Ordered'
  <2>0. Direct \in SUBSET Buf /\ Direct' = Direct /\ b \in Direct
    BY <1>0, <1>1 DEF Direct
  <2>1. PICK a \in Seq(Buf), w \in Seq(Buf) :
           a = Picked(cbq, "data_confirm", Direct) /\ w = Picked(txq, "mcps_data_req", Direct)
    <3>1. Picked(cbq, "data_confirm", Direct) \in Seq(Buf) /\ Picked(txq, "mcps_data_req", Direct) \in Seq(Buf)
      BY <2>0, PickedType, SeqMonotonic DEF Typed
    <3>. QED BY <3>1
  <2>2. asked = a \o <<b>> \o w
    BY <1>1, <2>1 DEF Sound, Ordered, Transmitting
  <2>3. a \o <<b>> \o w = Append(a, b) \o << >> \o w
    BY RequestConfirmed
  <2>4. Picked(cbq', "data_confirm", Direct) = Append(a, b)
    BY <1>4, <2>0, <2>1
  <2>5. Transmitting' = << >>
    BY <1>0 DEF Transmitting
  <2>. QED BY <2>0, <2>1, <2>2, <2>3, <2>4, <2>5 DEF Ordered
<1>. QED BY <1>6, <1>7, <1>8, <1>9 DEF Sound

\* The association request is on the air: the device waits for its response
\* or, without an acknowledgement, for nothing.
LEMMA SentRequestSound ==
  ASSUME Typed, Typed', Sound, txWait.func = "association_continue", SendAssociationReqContinue,
         txWait' = Ref("idle", NONE), UNCHANGED <<txq, asked>>
  PROVE  Sound'
<1>0. /\ UNCHANGED <<content, cbq, pendingBuf, dataReq, flags, bufRef, caller, upper>> /\ UNCHANGED parent
      /\ txWait'.func = "idle" /\ (timers' = timers \/ timers' = timers \cup {"resp"})
  BY DEF SendAssociationReqContinue, Ref
<1>u. UNCHANGED <<slots, outq>> /\ PollKept' = PollKept
  BY <1>0 DEF parent, PollKept
<1>1. Kinds'
  BY <1>0, <1>u DEF Sound, Kinds, CbqKind, TxqKind, Fits, SentKind, SlotKind, OutKind, PollKind, AboveKind
<1>2. UsedOnce'
  <2>1. ASSUME NEW x \in Buf PROVE NoMore(x) /\ content'[x] = content[x]
    <3>1. InSlots(slots, x) \in Nat /\ Has(cbq, x) \in Nat /\ Has(txq, x) \in Nat
      BY UsesFacts DEF Sound
    <3>2. Awaited(x)' => Awaited(x)
      BY <1>0 DEF Awaited
    <3>. QED BY <1>0, <1>u, <3>1, <3>2 DEF NoMore
  <2>2. NONE \notin Buf
    BY DEF NONE, Buf
  <2>. QED BY <2>1, <2>2, UsedOnceKept DEF Sound
<1>3. Associating'
  <2>1. Asking /\ ~Queued
    BY DEF Sound, Associating, OneRequest, Asking
  <2>2. OneRequest'
    BY <1>0, <2>1 DEF Sound, Associating, OneRequest, Queued
  <2>3. ~Owed' /\ upper.assoc = "asked" /\ \A e \in Members(cbq) : e \notin Confirms
    BY <1>0, <2>1 DEF Sound, Associating, NothingLeft, Owed
  <2>4. NothingLeft'
    BY <1>0, <2>3 DEF NothingLeft
  <2>5. FailureLast'
    BY <1>0, <2>3 DEF Sound, Associating, FailureLast, Owed, Failing
  <2>. QED BY <2>2, <2>4, <2>5 DEF Associating
<1>4. Ordered'
  <2>1. Direct' = Direct /\ Transmitting' = Transmitting
    BY <1>0 DEF Direct, Transmitting
  <2>. QED BY <1>0, <2>1 DEF Sound, Ordered
<1>. QED BY <1>1, <1>2, <1>3, <1>4 DEF Sound

\* The buffer of a data request that is being answered is in no place.
LEMMA RequestHeld ==
  ASSUME Typed, UsedOnce, Kinds, NEW p \in Buf, content[p].type = "rxDataReq", Holders(p) = 0
  PROVE  /\ Off(cbq, p) /\ Off(txq, p) /\ Has(cbq, p) = 0 /\ Has(txq, p) = 0 /\ InSlots(slots, p) = 0
         /\ p \notin outq /\ ~(PollKept /\ bufRef = p) /\ upper.buf # p
<1>1. /\ Has(cbq, p) \in Nat /\ (Has(cbq, p) = 0 <=> Off(cbq, p))
      /\ Has(txq, p) \in Nat /\ (Has(txq, p) = 0 <=> Off(txq, p))
      /\ InSlots(slots, p) \in Nat
  BY UsesFacts
<1>2. /\ Has(cbq, p) = Cardinality({i \in DOMAIN cbq : cbq[i].buf = p})
      /\ Has(txq, p) = Cardinality({i \in DOMAIN txq : txq[i].buf = p})
      /\ InSlots(slots, p) = Cardinality(SlotHolders(p))
  BY DEF Has, Positions, InSlots, SlotsWith, SlotHolders
<1>3. PICK m \in {0, 1}, n \in {0, 1}, k \in {0, 1}, l \in {0, 1} :
         /\ Holders(p) = Has(cbq, p) + Has(txq, p) + InSlots(slots, p) + m + n + k + l
         /\ (n = 0 <=> p \notin outq) /\ (l = 0 <=> upper.buf # p)
  <2>1. PICK m \in {0, 1} : m = IF txWait.func = "data_continue" /\ txWait.buf = p THEN 1 ELSE 0
    OBVIOUS
  <2>2. PICK n \in {0, 1} : n = IF p \in outq THEN 1 ELSE 0
    OBVIOUS
  <2>3. PICK k \in {0, 1} : k = IF "poll" \in flags /\ bufRef = p THEN 1 ELSE 0
    OBVIOUS
  <2>4. PICK l \in {0, 1} : l = IF upper.buf = p THEN 1 ELSE 0
    OBVIOUS
  <2>5. Holders(p) = Has(cbq, p) + Has(txq, p) + InSlots(slots, p) + m + n + k + l
    BY <1>2, <2>1, <2>2, <2>3, <2>4 DEF Holders
  <2>. QED BY <2>2, <2>4, <2>5
<1>4. Has(cbq, p) = 0 /\ Has(txq, p) = 0 /\ InSlots(slots, p) = 0 /\ n = 0 /\ l = 0
  <2>1. \A a, b, c \in Nat : a + b + c + m + n + k + l = 0 => a = 0 /\ b = 0 /\ c = 0 /\ n = 0 /\ l = 0
    OBVIOUS
  <2>2. Has(cbq, p) + Has(txq, p) + InSlots(slots, p) + m + n + k + l = 0
    BY <1>3
  <2>. QED BY <1>1, <2>1, <2>2
<1>5. ~(PollKept /\ bufRef = p)
  BY DEF Kinds, PollKind
<1>. QED BY <1>1, <1>3, <1>4, <1>5

\* The frame d left its slot s on the request in p: one of the two goes up,
\* the other is freed.
LEMMA ServedSound ==
  ASSUME Typed, Typed', SlotsGuarded, Sound, NEW s \in Slot, NEW d \in Buf, NEW p \in Buf,
         slots[s].buf = d, content[p].type = "rxDataReq", Holders(p) = 0, ClearSlot(s), pendingBuf' = NONE,
         NEW g \in {d, p}, NEW z \in {d, p}, g # z, NEW f \in {"comm_status", "data_confirm"},
         cbq' = Append(cbq, Ref(f, g)), content' = Released(content, z),
         txWait.func = "data_request_continue", txWait'.func = "idle", UNCHANGED <<outq, txq, asked>>, UNCHANGED child
  PROVE  Sound'
<1>u. UNCHANGED <<flags, bufRef, timers, caller, upper>> /\ PollKept' = PollKept
  BY DEF child, PollKept
<1>0. NONE \notin Buf /\ EmptySlot.buf = NONE /\ EmptySlot \in SlotValues /\ f \in Callbacks
  BY DEF NONE, Buf, EmptySlot, SlotValues, Callbacks
<1>1. content[d].type \in {"indirect", "assocResp"}
  BY <1>0 DEF Sound, Kinds, SlotKind
<1>2. \A x \in {d, p} : /\ Off(cbq, x) /\ Off(txq, x) /\ Has(cbq, x) = 0 /\ Has(txq, x) = 0
                        /\ x \notin outq /\ ~(PollKept /\ bufRef = x) /\ upper.buf # x
  BY InSlot, RequestHeld DEF Sound
<1>3. content'[z].type = "free" /\ \A x \in Buf : x # z => content'[x] = content[x]
  BY ContentReleased
<1>4. PICK e : e = Ref(f, g) /\ cbq' = Append(cbq, e)
  OBVIOUS
<1>5. /\ e \in CbRefs /\ e.func = f /\ e.buf = g
      /\ Members(cbq') = Members(cbq) \cup {e}
      /\ \A x : Has(cbq', x) = Has(cbq, x) + (IF g = x THEN 1 ELSE 0)
      /\ \A c : \A P \in SUBSET Buf : Picked(cbq', c, P) = IF f = c /\ g \in P THEN Append(Picked(cbq, c, P), g)
                                                           ELSE Picked(cbq, c, P)
  BY <1>0, <1>4, CbqPut
<1>6. /\ slots'[s] = EmptySlot /\ \A t \in Slot : t # s => slots'[t] = slots[t]
      /\ \A b \in Buf : InSlots(slots', b) = InSlots(slots, b) - (IF d = b THEN 1 ELSE 0)
  <2>1. /\ slots'[s] = EmptySlot /\ \A t \in Slot : t # s => slots'[t] = slots[t]
        /\ \A b \in Buf : InSlots(slots', b) = InSlots(slots, b) - (IF slots[s].buf = b THEN 1 ELSE 0)
    BY SlotCleared
  <2>. QED BY <2>1
<1>7. \A x \in {d, p} : \A t \in Slot : slots'[t].buf # x
  <2>1. InSlots(slots, d) = 1 /\ InSlots(slots, p) = 0
    BY InSlot, RequestHeld DEF Sound
  <2>2. InSlots(slots', d) = 0 /\ InSlots(slots', p) = 0
    <3>1. d # p
      BY <1>1
    <3>. QED BY <1>0, <1>6, <2>1, <3>1
  <2>. QED BY <2>2, SlotFacts
<1>8. \A x \in Buf : ~Awaited(x)'
  BY <1>0 DEF Awaited
<1>9. /\ \A x \in Members(cbq) : x \in CbRefs /\ content'[x.buf] = content[x.buf]
      /\ \A x \in Members(txq) : x.buf # NONE => content'[x.buf] = content[x.buf]
  BY <1>2, <1>3, MembersTyped DEF Off
<1>10. content'[g] = content[g] /\ content[g].type \notin {"assocReq", "direct", "free"} /\ g \in Buf /\ z \in Buf
  BY <1>1, <1>3
<1>11. Kinds'
  <2>1. CbqKind'
    BY <1>5, <1>9, <1>10 DEF Sound, Kinds, CbqKind
  <2>2. TxqKind'
    BY <1>9, FitsKept DEF Sound, TxqKind
  <2>3. SentKind'
    BY DEF SentKind
  <2>4. SlotKind'
    <3>1. ASSUME NEW t \in Slot, slots'[t] # EmptySlot
          PROVE  slots'[t].buf \in Buf /\ content'[slots'[t].buf].type \in {"indirect", "assocResp"}
      <4>1. slots'[t] = slots[t] /\ slots'[t].buf # z
        BY <1>6, <1>7, <3>1
      <4>. QED BY <1>3, <3>1, <4>1 DEF Sound, Kinds, SlotKind
    <3>. QED BY <3>1 DEF SlotKind
  <2>5. OutKind'
    BY <1>2, <1>3, <1>u DEF Sound, Kinds, OutKind, Typed
  <2>6. PollKind'
    BY <1>2, <1>3, <1>u DEF Sound, Kinds, PollKind, PollKept, Typed
  <2>7. AboveKind'
    BY <1>2, <1>3, <1>u DEF Sound, Kinds, AboveKind, Typed
  <2>. QED BY <2>1, <2>2, <2>3, <2>4, <2>5, <2>6, <2>7 DEF Kinds
<1>12. UsedOnce'
  <2>1. ASSUME NEW x \in Buf, x \notin {d, p} PROVE Uses(x)' <= (IF content'[x].type = "free" THEN 0 ELSE 1)
    <3>1. InSlots(slots, x) \in Nat /\ Has(cbq, x) \in Nat /\ Has(txq, x) \in Nat
      BY UsesFacts DEF Sound
    <3>2. Has(cbq', x) = Has(cbq, x) + 0 /\ InSlots(slots', x) = InSlots(slots, x) - 0
      BY <1>5, <1>6, <2>1
    <3>3. NoMore(x)
      BY <1>u, <1>8, <3>1, <3>2 DEF NoMore
    <3>4. Uses(x)' <= Uses(x) /\ Uses(x)' \in Nat /\ Uses(x) \in Nat
      BY <3>3, UsesFewer
    <3>5. Uses(x) <= (IF content[x].type = "free" THEN 0 ELSE 1)
      BY DEF Sound, UsedOnce
    <3>6. content'[x] = content[x]
      BY <1>3, <2>1
    <3>. QED BY <3>4, <3>5, <3>6
  <2>2. ASSUME NEW x \in {d, p} PROVE Uses(x)' <= (IF content'[x].type = "free" THEN 0 ELSE 1)
    <3>1. Uses(x)' = Has(cbq', x) + Has(txq', x)
      BY <1>2, <1>7, <1>8, <1>u, InOnePlace
    <3>2. CASE x = g
      <4>1. Uses(x)' = 1
        BY <1>2, <1>5, <3>1, <3>2
      <4>. QED BY <1>10, <3>2, <4>1
    <3>3. CASE x = z
      <4>1. Uses(x)' = 0
        BY <1>2, <1>5, <3>1, <3>3
      <4>. QED BY <1>3, <3>3, <4>1
    <3>. QED BY <3>2, <3>3
  <2>. QED BY <2>1, <2>2 DEF UsedOnce
<1>13. Associating'
  <2>1. AssocKept
    BY <1>u DEF AssocKept
  <2>2. ConfirmsKept
    BY <1>5, <1>9 DEF ConfirmsKept
  <2>3. Closing(cbq', Failing, Confirms)
    <3>1. cbq \in Seq(CbRefs) /\ Closing(cbq, Failing, Confirms) /\ e \notin Confirms
      BY <1>5 DEF Typed, Sound, Associating, FailureLast, Confirms
    <3>2. Closing(Append(cbq, e), Failing, Confirms)
      BY <1>5, <3>1, ClosingPut
    <3>. QED BY <1>4, <3>2
  <2>. QED BY <2>1, <2>2, <2>3, AssociatingKept DEF Sound
<1>14. Ordered'
  <2>1. Direct \in SUBSET Buf /\ g \notin Direct
    BY <1>10 DEF Direct
  <2>2. Picked(cbq', "data_confirm", Direct) = Picked(cbq, "data_confirm", Direct)
    BY <1>5, <2>1
  <2>3. /\ \A x \in Members(cbq') : x.func = "data_confirm" => content'[x.buf] = content[x.buf]
        /\ \A x \in Members(txq') : x.func = "mcps_data_req" => content'[x.buf] = content[x.buf]
    BY <1>5, <1>9, <1>10 DEF Sound, Kinds, TxqKind, Fits
  <2>. QED BY <2>2, <2>3, OrderCalm DEF Sound, Transmitting
<1>. QED BY <1>11, <1>12, <1>13, <1>14 DEF Sound

LEMMA MainLoopTxDoneSound ==
  ASSUME Typed, Typed', SlotsGuarded, Sound, ~fault', MainLoopTxDone
  PROVE  Sound'
<1>0. UNCHANGED <<txq, asked>> /\ txWait' = Ref("idle", NONE) /\ txWait'.func = "idle"
  BY DEF MainLoopTxDone, Ref
<1>1. CASE txWait.func = "data_continue" /\ HandleMcpsDataReqContinue(txWait.buf)
  BY <1>0, <1>1, DataContinueSound DEF HandleMcpsDataReqContinue
<1>2. CASE txWait.func = "association_continue" /\ SendAssociationReqContinue
  BY <1>0, <1>2, SentRequestSound
<1>3. CASE txWait.func = "data_request_continue" /\ HandleDataRequestCmdContinue
  <2>1. ServiceIntact
    BY <1>3 DEF HandleDataRequestCmdContinue, DataRequestContinue
  <2>2. PICK s \in Slot : s = dataReq.slot
    BY DEF Typed
  <2>3. PICK d \in Buf : d = slots[s].buf
    BY <1>3, <2>1, <2>2 DEF ServiceIntact, Sound, Kinds, SentKind
  <2>4. PICK p \in Buf : p = pendingBuf /\ content[p].type = "rxDataReq" /\ Holders(p) = 0
    BY <2>1 DEF ServiceIntact, Typed
  <2>5. d # p
    <3>1. content[d].type \in {"indirect", "assocResp"}
      BY <2>3 DEF Sound, Kinds, SlotKind, EmptySlot, Buf, NONE
    <3>. QED BY <2>4, <3>1
  <2>6. /\ ClearSlot(s) /\ pendingBuf' = NONE /\ UNCHANGED outq /\ UNCHANGED child
        /\ \/ cbq' = Append(cbq, Ref("comm_status", p)) /\ content' = Released(content, d)
           \/ cbq' = Append(cbq, Ref("data_confirm", d)) /\ content' = Released(content, p)
    BY <1>3, <2>1, <2>2, <2>3, <2>4 DEF HandleDataRequestCmdContinue, DataRequestContinue, ClearPendingSlot
  <2>7. CASE cbq' = Append(cbq, Ref("comm_status", p)) /\ content' = Released(content, d)
    BY <1>0, <1>3, <2>3, <2>4, <2>5, <2>6, <2>7, ServedSound
  <2>8. CASE cbq' = Append(cbq, Ref("data_confirm", d)) /\ content' = Released(content, p)
    BY <1>0, <1>3, <2>3, <2>4, <2>5, <2>6, <2>8, ServedSound
  <2>. QED BY <2>6, <2>7, <2>8
<1>. QED BY <1>1, <1>2, <1>3 DEF MainLoopTxDone

-----------------------------------------------------------------------------
\* The transmitter is idle and takes the next callback that needs it.
LEMMA TxTaken ==
  ASSUME Typed, Typed', Sound, txq # << >>, txq' = Tail(txq), NEW h, h = Head(txq), NEW b, b = h.buf
  PROVE  /\ h \in Members(txq) /\ Fits(h)
         /\ \A e \in Members(txq') : e \in Members(txq)
         /\ \A x \in Buf : Has(txq', x) <= Has(txq, x)
         /\ Picked(txq, "mcps_data_req", Direct) =
              IF h.func = "mcps_data_req" /\ b \in Direct THEN <<b>> \o Picked(txq', "mcps_data_req", Direct)
              ELSE Picked(txq', "mcps_data_req", Direct)
         /\ b \in Buf => /\ content[b].type # "free" /\ Off(cbq, b) /\ Off(txq', b) /\ Apart(b)
                         /\ Has(cbq, b) = 0 /\ Has(txq', b) = 0 /\ InSlots(slots, b) = 0
<1>1. /\ Members(txq) = {h} \cup Members(txq')
      /\ \A x : Has(txq, x) = Has(txq', x) + (IF b = x THEN 1 ELSE 0)
      /\ \A c : \A P \in SUBSET Buf : Picked(txq, c, P) = IF h.func = c /\ b \in P
                                                         THEN <<b>> \o Picked(txq', c, P) ELSE Picked(txq', c, P)
  BY TxqTook
<1>2. Fits(h)
  BY <1>1 DEF Sound, Kinds, TxqKind
<1>3. \A x \in Buf : Has(txq', x) <= Has(txq, x)
  <2>1. txq' \in Seq(TxRefs)
    BY DEF Typed
  <2>2. \A x : Has(txq', x) \in Nat
    BY <2>1, HasFacts
  <2>. QED BY <1>1, <2>2
<1>4. Direct \in SUBSET Buf
  BY DEF Direct
<1>5. b \in Buf => /\ content[b].type # "free" /\ Off(cbq, b) /\ Off(txq', b) /\ Apart(b)
                   /\ Has(cbq, b) = 0 /\ Has(txq', b) = 0 /\ InSlots(slots, b) = 0
  BY AtTxHead DEF Sound
<1>. QED BY <1>1, <1>2, <1>3, <1>4, <1>5

\* Fits of what stays, when the buffers of these entries keep their contents.
LEMMA TxqKindLeft ==
  ASSUME Typed, Sound, \A e \in Members(txq') : e \in Members(txq) /\ (e.buf # NONE => content'[e.buf] = content[e.buf])
  PROVE  TxqKind' /\ \A e \in Members(txq') : e.func = "mcps_data_req" => content'[e.buf] = content[e.buf]
<1>1. ASSUME NEW e \in Members(txq') PROVE Fits(e)' /\ (e.func = "mcps_data_req" => content'[e.buf] = content[e.buf])
  <2>1. Fits(e)
    BY DEF Sound, Kinds, TxqKind
  <2>2. e.buf # NONE => content'[e.buf] = content[e.buf]
    OBVIOUS
  <2>. QED BY <2>1, <2>2 DEF Fits
<1>. QED BY <1>1 DEF TxqKind

\* An indirect request goes into a slot of the pending queue or, with the slots
\* full, into the queue that nothing reads.
LEMMA PutAsideSound ==
  ASSUME Typed, Typed', SlotsGuarded, Sound, txWait.func = "idle", txq # << >>, txq' = Tail(txq),
         Head(txq).func = "mcps_data_req", NEW b, b = Head(txq).buf, content[b].type = "indirect",
         FillHdrIndirect(b), pendingBuf' = b, UNCHANGED <<content, cbq, asked>>, UNCHANGED radio, UNCHANGED child
  PROVE  Sound'
<1>u. UNCHANGED <<txWait, dataReq, flags, bufRef, timers, caller, upper>> /\ PollKept' = PollKept
  BY DEF radio, child, PollKept
<1>0. NONE \notin Buf /\ EmptySlot.buf = NONE
  BY DEF NONE, Buf, EmptySlot
<1>1. b \in Buf /\ content[b].peer \in Peer \cup {NONE}
  BY TxHeadBuffer DEF Sound
<1>2. /\ \A e \in Members(txq') : e \in Members(txq)
      /\ \A x \in Buf : Has(txq', x) <= Has(txq, x)
      /\ Picked(txq, "mcps_data_req", Direct) =
           IF b \in Direct THEN <<b>> \o Picked(txq', "mcps_data_req", Direct)
           ELSE Picked(txq', "mcps_data_req", Direct)
      /\ content[b].type # "free" /\ Off(cbq, b) /\ Off(txq', b) /\ Apart(b)
      /\ Has(cbq, b) = 0 /\ Has(txq', b) = 0 /\ InSlots(slots, b) = 0
  BY <1>1, TxTaken
<1>3. \/ /\ slots' = slots /\ outq' = outq \cup {b}
      \/ /\ outq' = outq
         /\ \E s \in Slot, v \in SlotValues : slots[s] = EmptySlot /\ slots' = [slots EXCEPT ![s] = v] /\ v.buf = b
  <2>1. PICK p \in Peer \cup {NONE} : p = content[b].peer
    BY <1>1
  <2>2. IF FreeSlots = {} THEN slots' = slots
        ELSE \E s \in Slot, v \in SlotValues : slots[s] = EmptySlot /\ slots' = [slots EXCEPT ![s] = v] /\ v.buf = b
    BY <1>1, <2>1, FilledGuarded DEF FillHdrIndirect
  <2>3. IF FreeSlots # {} THEN outq' = outq ELSE outq' = outq \cup {b}
    BY DEF FillHdrIndirect, PutRequestToQueue
  <2>. QED BY <2>2, <2>3
<1>4. /\ \A t \in Slot : slots'[t] = slots[t] \/ slots'[t].buf = b
      /\ \A x \in Buf : x # b => InSlots(slots', x) = InSlots(slots, x)
      /\ InSlots(slots', b) = IF outq' = outq THEN 1 ELSE 0
  <2>1. CASE slots' = slots /\ outq' = outq \cup {b}
    <3>1. outq' # outq
      BY <1>2, <2>1 DEF Apart, Aside
    <3>. QED BY <1>2, <2>1, <3>1
  <2>2. CASE /\ outq' = outq
             /\ \E s \in Slot, v \in SlotValues : slots[s] = EmptySlot /\ slots' = [slots EXCEPT ![s] = v] /\ v.buf = b
    <3>1. PICK s \in Slot, v \in SlotValues : slots[s] = EmptySlot /\ slots' = [slots EXCEPT ![s] = v] /\ v.buf = b
      BY <2>2
    <3>2. slots' = [slots EXCEPT ![s] = v]
      BY <3>1
    <3>3. /\ slots'[s] = v /\ \A t \in Slot : t # s => slots'[t] = slots[t]
          /\ \A x : InSlots(slots', x) = InSlots(slots, x) - (IF slots[s].buf = x THEN 1 ELSE 0)
                                                           + (IF v.buf = x THEN 1 ELSE 0)
      <4>1. SlotStored(s, v)
        BY <3>2, SlotSet
      <4>. QED BY <4>1, Zenon DEF SlotStored
    <3>4. ASSUME NEW x \in Buf PROVE InSlots(slots', x) = InSlots(slots, x) + (IF b = x THEN 1 ELSE 0)
      <4>1. slots[s].buf # x /\ InSlots(slots, x) \in Nat
        BY <1>0, <3>1, SlotFacts
      <4>2. InSlots(slots', x) = InSlots(slots, x) - 0 + (IF b = x THEN 1 ELSE 0)
        BY <3>1, <3>3, <4>1
      <4>. QED BY <4>1, <4>2
    <3>5. ASSUME NEW x \in Buf, x # b PROVE InSlots(slots', x) = InSlots(slots, x)
      <4>1. InSlots(slots, x) \in Nat /\ InSlots(slots', x) = InSlots(slots, x) + 0
        BY <3>4, <3>5, SlotFacts
      <4>. QED BY <4>1
    <3>6. InSlots(slots', b) = 1
      BY <1>1, <1>2, <3>4
    <3>. QED BY <2>2, <3>1, <3>3, <3>5, <3>6
  <2>. QED BY <1>3, <2>1, <2>2
<1>5. Kinds'
  <2>1. CbqKind' /\ SentKind' /\ PollKind' /\ AboveKind'
    BY <1>u DEF Sound, Kinds, CbqKind, SentKind, PollKind, AboveKind
  <2>2. TxqKind'
    BY <1>2, TxqKindLeft
  <2>3. SlotKind'
    BY <1>1, <1>4 DEF Sound, Kinds, SlotKind
  <2>4. OutKind'
    BY <1>3 DEF Sound, Kinds, OutKind
  <2>. QED BY <2>1, <2>2, <2>3, <2>4 DEF Kinds
<1>6. UsedOnce'
  <2>1. ASSUME NEW x \in Buf, x # b PROVE NoMore(x) /\ content'[x] = content[x]
    <3>1. InSlots(slots, x) \in Nat /\ Has(cbq, x) \in Nat
      BY UsesFacts DEF Sound
    <3>2. InSlots(slots', x) <= InSlots(slots, x) /\ Has(txq', x) <= Has(txq, x)
      BY <1>2, <1>4, <2>1, <3>1
    <3>3. ~Awaited(x)' /\ (x \in outq' => x \in outq)
      BY <1>3, <2>1 DEF Awaited
    <3>. QED BY <1>u, <3>1, <3>2, <3>3 DEF NoMore
  <2>2. Uses(b)' = 1
    <3>1. /\ ~(txWait'.func = "data_continue" /\ txWait'.buf = b)
          /\ ~(PollKept' /\ bufRef' = b) /\ upper'.buf # b /\ ~Awaited(b)'
      BY <1>u, <1>2 DEF Apart, Aside, Awaited
    <3>2. Has(cbq', b) = 0 /\ Has(txq', b) = 0
      BY <1>2
    <3>3. \/ InSlots(slots', b) = 1 /\ b \notin outq'
          \/ InSlots(slots', b) = 0 /\ b \in outq'
      BY <1>2, <1>3, <1>4 DEF Apart, Aside
    <3>. QED BY <3>1, <3>2, <3>3 DEF Uses
  <2>. QED BY <1>2, <2>1, <2>2, UsedOnceKept DEF Sound
<1>7. Associating'
  <2>1. AssocKept /\ ConfirmsKept
    BY <1>u, <1>2 DEF AssocKept, ConfirmsKept
  <2>2. Closing(cbq', Failing, Confirms)
    BY DEF Sound, Associating, FailureLast
  <2>. QED BY <2>1, <2>2, AssociatingKept DEF Sound
<1>8. Ordered'
  <2>1. b \notin Direct
    BY DEF Direct
  <2>. QED BY <1>2, <1>u, <2>1, OrderCalm DEF Sound, Transmitting
<1>. QED BY <1>5, <1>6, <1>7, <1>8 DEF Sound

\* A direct request goes on the air.
LEMMA DirectSentSound ==
  ASSUME Typed, Typed', Sound, txWait.func = "idle", txq # << >>, txq' = Tail(txq),
         Head(txq).func = "mcps_data_req", NEW b, b = Head(txq).buf, content[b].type = "direct",
         Send("data_continue", b), pendingBuf' = b,
         UNCHANGED <<content, cbq, asked, dataReq>>, UNCHANGED parent, UNCHANGED child
  PROVE  Sound'
<1>u. UNCHANGED <<slots, outq, flags, bufRef, timers, caller, upper>> /\ PollKept' = PollKept
      /\ txWait'.func = "data_continue" /\ txWait'.buf = b
  BY DEF parent, child, PollKept, Send, Ref
<1>1. b \in Buf /\ b \in Direct /\ Direct' = Direct /\ Direct \in SUBSET Buf
  BY TxHeadBuffer DEF Sound, Direct
<1>2. /\ \A e \in Members(txq') : e \in Members(txq)
      /\ \A x \in Buf : Has(txq', x) <= Has(txq, x)
      /\ Picked(txq, "mcps_data_req", Direct) =
           IF b \in Direct THEN <<b>> \o Picked(txq', "mcps_data_req", Direct)
           ELSE Picked(txq', "mcps_data_req", Direct)
      /\ content[b].type # "free" /\ Off(cbq, b) /\ Off(txq', b) /\ Apart(b)
      /\ Has(cbq, b) = 0 /\ Has(txq', b) = 0 /\ InSlots(slots, b) = 0
  BY <1>1, TxTaken
<1>3. Kinds'
  <2>1. CbqKind' /\ SentKind' /\ SlotKind' /\ OutKind' /\ PollKind' /\ AboveKind'
    BY <1>u, <1>1 DEF Sound, Kinds, CbqKind, SentKind, SlotKind, OutKind, PollKind, AboveKind
  <2>2. TxqKind'
    BY <1>2, TxqKindLeft
  <2>. QED BY <2>1, <2>2 DEF Kinds
<1>4. UsedOnce'
  <2>1. ASSUME NEW x \in Buf, x # b PROVE NoMore(x) /\ content'[x] = content[x]
    <3>1. InSlots(slots, x) \in Nat /\ Has(cbq, x) \in Nat
      BY UsesFacts DEF Sound
    <3>2. ~Awaited(x)'
      BY <2>1 DEF Awaited
    <3>. QED BY <1>u, <1>2, <2>1, <3>1, <3>2 DEF NoMore
  <2>2. Uses(b)' = 1
    <3>1. b \notin outq' /\ ~(PollKept' /\ bufRef' = b) /\ upper'.buf # b /\ ~Awaited(b)'
      BY <1>u, <1>2 DEF Apart, Aside, Awaited
    <3>2. Has(cbq', b) = 0 /\ Has(txq', b) = 0 /\ InSlots(slots', b) = 0
      BY <1>u, <1>2
    <3>. QED BY <1>u, <3>1, <3>2 DEF Uses
  <2>. QED BY <1>2, <2>1, <2>2, UsedOnceKept DEF Sound
<1>5. Associating'
  <2>1. AssocKept /\ ConfirmsKept
    BY <1>u, <1>2 DEF AssocKept, ConfirmsKept
  <2>2. Closing(cbq', Failing, Confirms)
    BY DEF Sound, Associating, FailureLast
  <2>. QED BY <2>1, <2>2, AssociatingKept DEF Sound
<1>6. Ordered'
  <2>1. PICK a \in Seq(Buf), w \in Seq(Buf) :
           a = Picked(cbq, "data_confirm", Direct) /\ w = Picked(txq', "mcps_data_req", Direct)
    <3>1. Picked(cbq, "data_confirm", Direct) \in Seq(Buf) /\ Picked(txq', "mcps_data_req", Direct) \in Seq(Buf)
      BY <1>1, PickedType, SeqMonotonic DEF Typed
    <3>. QED BY <3>1
  <2>2. asked = a \o << >> \o (<<b>> \o w)
    BY <1>1, <1>2, <2>1 DEF Sound, Ordered, Transmitting
  <2>3. a \o << >> \o (<<b>> \o w) = a \o <<b>> \o w
    BY <1>1, RequestSent
  <2>4. Transmitting' = <<b>>
    BY <1>u DEF Transmitting
  <2>. QED BY <1>1, <2>1, <2>2, <2>3, <2>4 DEF Ordered
<1>. QED BY <1>3, <1>4, <1>5, <1>6 DEF Sound

\* A child's data request: the buffer of the request is only in pending_buf
\* from now on, or it is freed.
LEMMA DataRequestSound ==
  ASSUME Typed, Typed', Sound, txWait.func = "idle", txq # << >>, txq' = Tail(txq),
         Head(txq).func = "accept_data_request", NEW b, b = Head(txq).buf,
         HandleDataRequestCmd(b), UNCHANGED asked
  PROVE  Sound'
<1>0. UNCHANGED cbq /\ UNCHANGED parent /\ UNCHANGED child
  BY DEF HandleDataRequestCmd
<1>u. UNCHANGED <<slots, outq, flags, bufRef, timers, caller, upper>> /\ PollKept' = PollKept
  BY <1>0 DEF parent, child, PollKept
<1>1. b \in Buf
  BY TxHeadBuffer DEF Sound
<1>2. /\ Head(txq) \in Members(txq) /\ Fits(Head(txq))
      /\ \A e \in Members(txq') : e \in Members(txq)
      /\ \A x \in Buf : Has(txq', x) <= Has(txq, x)
      /\ Picked(txq, "mcps_data_req", Direct) = Picked(txq', "mcps_data_req", Direct)
      /\ content[b].type # "free" /\ Off(cbq, b) /\ Off(txq', b) /\ Apart(b)
      /\ Has(cbq, b) = 0 /\ Has(txq', b) = 0 /\ InSlots(slots, b) = 0
  BY <1>1, TxTaken
<1>3. content[b].type # "assocReq"
  BY <1>1, <1>2 DEF Fits, Buf, NONE
<1>4. \/ /\ content' = content /\ pendingBuf' = b
         /\ txWait'.func = "data_request_continue" /\ dataReq'.buf \in Buf
      \/ /\ content'[b].type = "free" /\ pendingBuf' = NONE
         /\ txWait' = txWait
  <2>. DEFINE s == CheckPendingData(content[b].peer)
  <2>1. CASE s # 0 /\ pendingBuf' = b /\ Send("data_request_continue", txWait.buf)
             /\ dataReq' = [slot |-> s, buf |-> slots[s].buf] /\ UNCHANGED content
    <3>1. s \in SlotsFor(content[b].peer)
      <4>1. SlotsFor(content[b].peer) \in SUBSET Slot
        BY DEF SlotsFor
      <4>. QED BY <2>1, <4>1, FirstSlotIn DEF CheckPendingData
    <3>2. slots[s].buf \in Buf
      BY <3>1 DEF SlotsFor, Sound, Kinds, SlotKind
    <3>. QED BY <2>1, <3>2 DEF Send, Ref
  <2>2. CASE pendingBuf' = NONE /\ content' = Released(content, b) /\ UNCHANGED radio
    BY <1>1, <2>2, ContentReleased DEF radio
  <2>. QED BY <2>1, <2>2 DEF HandleDataRequestCmd
<1>5. \A x \in Buf : x # b => content'[x] = content[x]
  BY <1>1, ContentReleased DEF HandleDataRequestCmd
<1>6. \A x \in Buf : ~Awaited(x)'
  BY <1>3, <1>4 DEF Awaited, Buf, NONE
<1>7. /\ \A e \in Members(cbq) : content'[e.buf] = content[e.buf]
      /\ \A e \in Members(txq') : e \in Members(txq) /\ (e.buf # NONE => content'[e.buf] = content[e.buf])
  BY <1>2, <1>5, MembersTyped DEF Off
<1>8. TxqKind' /\ \A e \in Members(txq') : e.func = "mcps_data_req" => content'[e.buf] = content[e.buf]
  BY <1>7, TxqKindLeft
<1>9. \A x \in Buf : content'[x] = content[x] \/ Aside(x)
  BY <1>2, <1>5 DEF Apart
<1>10. Kinds'
  <2>1. CbqKind'
    BY <1>0, <1>7 DEF Sound, Kinds, CbqKind
  <2>2. SentKind'
    BY <1>4 DEF SentKind
  <2>3. SlotKind'
    BY <1>u, <1>9 DEF Sound, Kinds, SlotKind, Aside, Typed
  <2>4. OutKind'
    BY <1>u, <1>9 DEF Sound, Kinds, OutKind, Aside, Typed
  <2>5. PollKind' /\ AboveKind'
    BY <1>u, <1>9, PollKindKept, AboveKindKept DEF Sound
  <2>. QED BY <1>8, <2>1, <2>2, <2>3, <2>4, <2>5 DEF Kinds
<1>11. UsedOnce'
  <2>1. ASSUME NEW x \in Buf, x # b PROVE NoMore(x) /\ content'[x] = content[x]
    <3>1. InSlots(slots, x) \in Nat /\ Has(cbq, x) \in Nat
      BY UsesFacts DEF Sound
    <3>2. txWait'.func # "data_continue"
      BY <1>4
    <3>. QED BY <1>0, <1>u, <1>2, <1>5, <1>6, <2>1, <3>1, <3>2 DEF NoMore
  <2>2. Uses(b)' = 0
    <3>1. /\ ~(txWait'.func = "data_continue" /\ txWait'.buf = b) /\ b \notin outq'
          /\ ~(PollKept' /\ bufRef' = b) /\ upper'.buf # b /\ ~Awaited(b)'
      BY <1>u, <1>1, <1>2, <1>4, <1>6 DEF Apart, Aside
    <3>2. Has(cbq', b) = 0 /\ Has(txq', b) = 0 /\ InSlots(slots', b) = 0
      BY <1>0, <1>u, <1>2
    <3>. QED BY <3>1, <3>2 DEF Uses
  <2>3. Uses(b)' <= (IF content'[b].type = "free" THEN 0 ELSE 1)
    BY <2>2
  <2>. QED BY <2>1, <2>3, UsedOnceKept DEF Sound
<1>12. Associating'
  <2>1. AssocKept /\ ConfirmsKept
    BY <1>0, <1>u, <1>2, <1>4, <1>7 DEF AssocKept, ConfirmsKept
  <2>2. Closing(cbq', Failing, Confirms)
    BY <1>0 DEF Sound, Associating, FailureLast
  <2>. QED BY <2>1, <2>2, AssociatingKept DEF Sound
<1>13. Ordered'
  <2>1. Transmitting' = Transmitting
    BY <1>4 DEF Transmitting
  <2>2. Picked(txq', "mcps_data_req", Direct) = Picked(txq, "mcps_data_req", Direct)
    BY <1>2
  <2>. QED BY <1>0, <1>7, <1>8, <2>1, <2>2, OrderCalm DEF Sound
<1>. QED BY <1>10, <1>11, <1>12, <1>13 DEF Sound

LEMMA BeaconSound ==
  ASSUME Typed, Typed', Sound, txq # << >>, txq' = Tail(txq),
         Head(txq).func = "beacon_req", HandleBeaconReq, UNCHANGED asked
  PROVE  Sound'
<1>0. UNCHANGED <<content, cbq, txWait, dataReq, pendingBuf>> /\ UNCHANGED parent /\ UNCHANGED child
  BY DEF HandleBeaconReq
<1>u. UNCHANGED <<slots, outq, flags, bufRef, timers, caller, upper>> /\ PollKept' = PollKept
  BY <1>0 DEF parent, child, PollKept
<1>2. /\ \A e \in Members(txq') : e \in Members(txq)
      /\ \A x \in Buf : Has(txq', x) <= Has(txq, x)
      /\ Picked(txq, "mcps_data_req", Direct) = Picked(txq', "mcps_data_req", Direct)
  BY TxTaken
<1>3. Kinds'
  <2>1. CbqKind' /\ SentKind' /\ SlotKind' /\ OutKind' /\ PollKind' /\ AboveKind'
    BY <1>0, <1>u DEF Sound, Kinds, CbqKind, SentKind, SlotKind, OutKind, PollKind, AboveKind
  <2>2. TxqKind'
    BY <1>0, <1>2, TxqKindLeft
  <2>. QED BY <2>1, <2>2 DEF Kinds
<1>4. UsedOnce'
  <2>1. ASSUME NEW x \in Buf PROVE NoMore(x) /\ content'[x] = content[x]
    <3>1. InSlots(slots, x) \in Nat /\ Has(cbq, x) \in Nat
      BY UsesFacts DEF Sound
    <3>2. Awaited(x)' => Awaited(x)
      BY <1>0, <1>u DEF Awaited
    <3>. QED BY <1>0, <1>u, <1>2, <3>1, <3>2 DEF NoMore
  <2>2. NONE \notin Buf
    BY DEF NONE, Buf
  <2>. QED BY <2>1, <2>2, UsedOnceKept DEF Sound
<1>5. Associating'
  <2>1. AssocKept /\ ConfirmsKept
    BY <1>0, <1>u, <1>2 DEF AssocKept, ConfirmsKept
  <2>2. Closing(cbq', Failing, Confirms)
    BY <1>0 DEF Sound, Associating, FailureLast
  <2>. QED BY <2>1, <2>2, AssociatingKept DEF Sound
<1>6. Ordered'
  <2>1. Picked(txq', "mcps_data_req", Direct) = Picked(txq, "mcps_data_req", Direct)
    BY <1>2
  <2>. QED BY <1>0, <2>1, OrderCalm DEF Sound, Transmitting
<1>. QED BY <1>3, <1>4, <1>5, <1>6 DEF Sound

\* The association request goes on the air; pending_buf is still the buffer of
\* some request, which is in no other place.
LEMMA RequestOnAirSound ==
  ASSUME Typed, Typed', Sound, txWait.func = "idle", txq # << >>, txq' = Tail(txq),
         Head(txq).func = "association_req", SendAssociationReq(Head(txq).buf), UNCHANGED asked
  PROVE  Sound'
<1>. DEFINE h == Head(txq)
            b == h.buf
<1>0. /\ UNCHANGED <<content, cbq, pendingBuf, dataReq>> /\ UNCHANGED parent /\ UNCHANGED child
      /\ txWait'.func = "association_continue"
  BY DEF SendAssociationReq, Send, Ref
<1>u. UNCHANGED <<slots, outq, flags, bufRef, timers, caller, upper>> /\ PollKept' = PollKept
  BY <1>0 DEF parent, child, PollKept
<1>1. b \in Buf
  BY TxHeadBuffer DEF Sound
<1>2. /\ h \in Members(txq)
      /\ \A e \in Members(txq') : e \in Members(txq)
      /\ \A x \in Buf : Has(txq', x) <= Has(txq, x)
      /\ Picked(txq, "mcps_data_req", Direct) = Picked(txq', "mcps_data_req", Direct)
      /\ Off(txq', b)
  BY <1>1, TxTaken
<1>3. Queued /\ \A e \in Members(txq') : e.func # "association_req"
  <2>1. Queued
    BY <1>2 DEF Queued
  <2>2. ASSUME NEW e \in Members(txq'), e.func = "association_req" PROVE FALSE
    <3>1. e = h
      BY <1>2, <2>2 DEF Sound, Associating, OneRequest
    <3>2. e.buf # b
      BY <1>2 DEF Off
    <3>. QED BY <3>1, <3>2
  <2>. QED BY <2>1, <2>2
<1>4. /\ "resp" \notin timers /\ upper.assoc = "asked" /\ ~Owed
      /\ \A e \in Members(cbq) : e \notin Confirms
  BY <1>3 DEF Sound, Associating, OneRequest, NothingLeft, Asking
<1>5. Kinds'
  <2>1. CbqKind' /\ SentKind' /\ SlotKind' /\ OutKind' /\ PollKind' /\ AboveKind'
    BY <1>0, <1>u DEF Sound, Kinds, CbqKind, SentKind, SlotKind, OutKind, PollKind, AboveKind
  <2>2. TxqKind'
    BY <1>0, <1>2, TxqKindLeft
  <2>. QED BY <2>1, <2>2 DEF Kinds
<1>6. UsedOnce'
  <2>1. ASSUME NEW x \in Buf PROVE Uses(x)' <= (IF content'[x].type = "free" THEN 0 ELSE 1)
    <3>0. InSlots(slots, x) \in Nat /\ Has(cbq, x) \in Nat /\ Has(txq, x) \in Nat
      BY UsesFacts DEF Sound
    <3>1. CASE ~Awaited(x)'
      <4>1. NoMore(x)
        BY <1>0, <1>u, <1>2, <3>0, <3>1 DEF NoMore
      <4>2. Uses(x)' <= Uses(x) /\ Uses(x)' \in Nat /\ Uses(x) \in Nat
        BY <4>1, UsesFewer
      <4>3. Uses(x) <= (IF content[x].type = "free" THEN 0 ELSE 1)
        BY DEF Sound, UsedOnce
      <4>. QED BY <1>0, <4>2, <4>3
    <3>2. CASE Awaited(x)'
      <4>1. content[x].type = "assocReq" /\ x # NONE
        BY <1>0, <3>2 DEF Awaited, Buf, NONE
      <4>2. Off(cbq', x) /\ Off(txq', x)
        <5>1. \A e \in Members(cbq) : e.buf # x
          BY <4>1 DEF Sound, Kinds, CbqKind
        <5>2. \A e \in Members(txq') : e.buf # x
          BY <1>2, <1>3, <4>1 DEF Sound, Kinds, TxqKind, Fits
        <5>. QED BY <1>0, <5>1, <5>2 DEF Off
      <4>3. \A s \in Slot : slots'[s].buf # x
        BY <1>u, <4>1 DEF Sound, Kinds, SlotKind, EmptySlot
      <4>4. x \notin outq' /\ ~(PollKept' /\ bufRef' = x) /\ upper'.buf # x
        BY <1>u, <1>4, <4>1 DEF Sound, Kinds, OutKind, PollKind, AboveKind
      <4>5. Has(cbq', x) = 0 /\ Has(txq', x) = 0 /\ InSlots(slots', x) = 0
        <5>1. cbq' \in Seq(CbRefs) /\ txq' \in Seq(TxRefs)
          BY DEF Typed
        <5>. QED BY <4>2, <4>3, <5>1, HasFacts, SlotFacts DEF Off
      <4>6. Uses(x)' = 1
        BY <1>0, <3>2, <4>4, <4>5 DEF Uses
      <4>. QED BY <1>0, <4>1, <4>6
    <3>. QED BY <3>1, <3>2
  <2>. QED BY <2>1 DEF UsedOnce
<1>7. Associating'
  <2>1. OneRequest'
    BY <1>3, <1>4, <1>u DEF OneRequest, Queued
  <2>2. NothingLeft'
    BY <1>0, <1>u, <1>4 DEF NothingLeft, Owed
  <2>3. FailureLast'
    BY <1>0, <1>u, <1>4 DEF Sound, Associating, FailureLast, Owed, Failing
  <2>. QED BY <2>1, <2>2, <2>3 DEF Associating
<1>8. Ordered'
  <2>1. Picked(txq', "mcps_data_req", Direct) = Picked(txq, "mcps_data_req", Direct)
    BY <1>2
  <2>. QED BY <1>0, <2>1, OrderCalm DEF Sound, Transmitting
<1>. QED BY <1>5, <1>6, <1>7, <1>8 DEF Sound

\* The poll keeps its buffer for the confirm, or gives it at once.
LEMMA PollSentSound ==
  ASSUME Typed, Typed', Sound, txWait.func = "idle", txq # << >>, txq' = Tail(txq),
         Head(txq).func = "poll_request", NEW b, b = Head(txq).buf, HandlePollRequest(b), UNCHANGED asked
  PROVE  Sound'
<1>0. /\ UNCHANGED <<content, txWait, dataReq, caller, upper>> /\ UNCHANGED parent /\ pendingBuf' = NONE
      /\ "poll_confirm" \in Callbacks
  BY DEF HandlePollRequest, Callbacks
<1>u. UNCHANGED <<slots, outq>>
  BY <1>0 DEF parent
<1>1. b \in Buf
  BY TxHeadBuffer DEF Sound
<1>2. /\ Head(txq) \in Members(txq) /\ Fits(Head(txq))
      /\ \A e \in Members(txq') : e \in Members(txq)
      /\ \A x \in Buf : Has(txq', x) <= Has(txq, x)
      /\ Picked(txq, "mcps_data_req", Direct) = Picked(txq', "mcps_data_req", Direct)
      /\ content[b].type # "free" /\ Off(cbq, b) /\ Off(txq', b) /\ Apart(b)
      /\ Has(cbq, b) = 0 /\ Has(txq', b) = 0 /\ InSlots(slots, b) = 0
  BY <1>1, TxTaken
<1>3. content[b].type = "poll"
  BY <1>1, <1>2 DEF Fits, Buf, NONE
<1>4. \A x \in Buf : ~Awaited(x)'
  BY <1>0 DEF Awaited, Buf, NONE
<1>5. \/ cbq' = cbq /\ bufRef' = b /\ PollKept'
      \/ cbq' = Append(cbq, Ref("poll_confirm", b)) /\ bufRef' = bufRef /\ PollKept' = PollKept
  BY <1>1 DEF HandlePollRequest, PollKept, Buf, NONE
<1>6. /\ timers' \subseteq timers \cup {"indirect_poll"} /\ ("resp" \in timers' => "resp" \in timers)
      /\ ("indirect_ass" \in timers' => "indirect_ass" \in timers) /\ ("ass" \in flags' => "ass" \in flags)
  BY DEF HandlePollRequest
<1>7. /\ Closing(cbq', Failing, Confirms)
      /\ \A e \in Members(cbq') : e \in Members(cbq) \/ e = Ref("poll_confirm", b)
      /\ \A e \in Members(cbq') : ~Calm(e) => e \in Members(cbq)
      /\ Picked(cbq', "data_confirm", Direct) = Picked(cbq, "data_confirm", Direct)
      /\ \A x \in Buf : x # b => Has(cbq', x) = Has(cbq, x)
      /\ Has(cbq', b) = IF cbq' = cbq THEN 0 ELSE 1
  <2>0. cbq \in Seq(CbRefs) /\ Closing(cbq, Failing, Confirms)
    BY DEF Typed, Sound, Associating, FailureLast
  <2>1. CASE cbq' = cbq
    BY <1>2, <2>0, <2>1
  <2>2. CASE cbq' = Append(cbq, Ref("poll_confirm", b))
    <3>1. PICK e : e = Ref("poll_confirm", b) /\ cbq' = Append(cbq, e)
      BY <2>2
    <3>2. /\ e \in CbRefs /\ e.func = "poll_confirm"
          /\ Members(cbq') = Members(cbq) \cup {e}
          /\ \A x : Has(cbq', x) = Has(cbq, x) + (IF b = x THEN 1 ELSE 0)
      BY <1>0, <1>1, <3>1, CbqPut
    <3>3. /\ Closing(cbq', Failing, Confirms)
          /\ \A x \in Members(cbq') : ~Calm(x) => x \in Members(cbq)
          /\ Picked(cbq', "data_confirm", Direct) = Picked(cbq, "data_confirm", Direct)
      <4>1. Calm(e)
        BY <3>2 DEF Calm
      <4>. QED BY <2>0, <3>1, <3>2, <4>1, CalmPut
    <3>4. Has(cbq', b) = 1 /\ cbq' # cbq
      BY <1>2, <3>2
    <3>5. ASSUME NEW x \in Buf, x # b PROVE Has(cbq', x) = Has(cbq, x)
      <4>1. Has(cbq, x) \in Nat /\ Has(cbq', x) = Has(cbq, x) + 0
        BY <2>0, <3>2, <3>5, HasFacts
      <4>. QED BY <4>1
    <3>. QED BY <3>1, <3>2, <3>3, <3>4, <3>5
  <2>. QED BY <1>5, <2>1, <2>2
<1>8. Kinds'
  <2>1. CbqKind'
    BY <1>0, <1>3, <1>7 DEF Sound, Kinds, CbqKind, Ref
  <2>2. SentKind' /\ SlotKind' /\ OutKind' /\ AboveKind'
    BY <1>0, <1>u DEF Sound, Kinds, SentKind, SlotKind, OutKind, AboveKind
  <2>3. TxqKind'
    BY <1>0, <1>2, TxqKindLeft
  <2>4. PollKind'
    BY <1>0, <1>3, <1>5 DEF Sound, Kinds, PollKind
  <2>. QED BY <2>1, <2>2, <2>3, <2>4 DEF Kinds
<1>9. UsedOnce'
  <2>1. ASSUME NEW x \in Buf, x # b PROVE NoMore(x) /\ content'[x] = content[x]
    <3>1. InSlots(slots, x) \in Nat /\ Has(cbq, x) \in Nat
      BY UsesFacts DEF Sound
    <3>2. PollKept' /\ bufRef' = x => PollKept /\ bufRef = x
      BY <1>5, <2>1
    <3>3. Has(cbq', x) = Has(cbq, x)
      BY <1>7, <2>1
    <3>. QED BY <1>0, <1>u, <1>2, <1>4, <3>1, <3>2, <3>3 DEF NoMore
  <2>2. Uses(b)' = 1
    <3>1. /\ ~(txWait'.func = "data_continue" /\ txWait'.buf = b) /\ b \notin outq'
          /\ upper'.buf # b /\ ~Awaited(b)'
      BY <1>0, <1>u, <1>1, <1>2, <1>4 DEF Apart, Aside
    <3>2. Has(txq', b) = 0 /\ InSlots(slots', b) = 0
      BY <1>u, <1>2
    <3>3. CASE cbq' = cbq /\ bufRef' = b /\ PollKept'
      <4>1. Has(cbq', b) = 0
        BY <1>2, <3>3
      <4>. QED BY <3>1, <3>2, <3>3, <4>1 DEF Uses
    <3>4. CASE cbq' = Append(cbq, Ref("poll_confirm", b)) /\ bufRef' = bufRef /\ PollKept' = PollKept
      <4>1. ~(PollKept' /\ bufRef' = b)
        BY <1>2, <3>4 DEF Apart, Aside
      <4>2. cbq' # cbq
        <5>1. cbq \in Seq(CbRefs)
          BY DEF Typed
        <5>2. PICK e \in CbRefs : e = Ref("poll_confirm", b)
          BY <1>0, <1>1 DEF Ref, CbRefs
        <5>3. Len(Append(cbq, e)) = Len(cbq) + 1 /\ Len(cbq) \in Nat
          BY <5>1, AppendProperties, LenProperties
        <5>. QED BY <3>4, <5>2, <5>3
      <4>3. Has(cbq', b) = 1
        BY <1>7, <4>2
      <4>. QED BY <3>1, <3>2, <4>1, <4>3 DEF Uses
    <3>. QED BY <1>5, <3>3, <3>4
  <2>3. content'[b].type # "free"
    BY <1>0, <1>3
  <2>. QED BY <2>1, <2>2, <2>3, UsedOnceKept DEF Sound
<1>10. Associating'
  <2>1. AssocKept /\ ConfirmsKept
    BY <1>0, <1>2, <1>6, <1>7 DEF AssocKept, ConfirmsKept, Calm
  <2>. QED BY <1>7, <2>1, AssociatingKept DEF Sound
<1>11. Ordered'
  <2>1. Picked(txq', "mcps_data_req", Direct) = Picked(txq, "mcps_data_req", Direct)
    BY <1>2
  <2>. QED BY <1>0, <1>7, <2>1, OrderCalm DEF Sound, Transmitting
<1>. QED BY <1>8, <1>9, <1>10, <1>11 DEF Sound

LEMMA MainLoopTxNextSound ==
  ASSUME Typed, Typed', SlotsGuarded, Sound, MainLoopTxNext
  PROVE  Sound'
<1>. DEFINE f == Head(txq).func
            b == Head(txq).buf
<1>0. txWait.func = "idle" /\ txq # << >> /\ txq' = Tail(txq) /\ UNCHANGED asked
  BY DEF MainLoopTxNext
<1>1. CASE f = "mcps_data_req" /\ HandleMcpsDataReq(b)
  <2>1. pendingBuf' = b /\ UNCHANGED <<content, cbq>> /\ UNCHANGED child
    BY <1>1 DEF HandleMcpsDataReq
  <2>2. CASE content[b].type = "indirect" /\ FillHdrIndirect(b) /\ UNCHANGED radio
    BY <1>0, <1>1, <2>1, <2>2, PutAsideSound
  <2>3. CASE content[b].type = "direct" /\ Send("data_continue", b) /\ UNCHANGED dataReq /\ UNCHANGED parent
    BY <1>0, <1>1, <2>1, <2>3, DirectSentSound
  <2>. QED BY <1>1, <2>2, <2>3 DEF HandleMcpsDataReq
<1>2. CASE f = "accept_data_request" /\ HandleDataRequestCmd(b)
  BY <1>0, <1>2, DataRequestSound
<1>3. CASE f = "beacon_req" /\ HandleBeaconReq
  BY <1>0, <1>3, BeaconSound
<1>4. CASE f = "association_req" /\ SendAssociationReq(b)
  BY <1>0, <1>4, RequestOnAirSound
<1>5. CASE f = "poll_request" /\ HandlePollRequest(b)
  BY <1>0, <1>5, PollSentSound
<1>. QED BY <1>1, <1>2, <1>3, <1>4, <1>5 DEF MainLoopTxNext

-----------------------------------------------------------------------------
(* The inductive invariant.                                                *)
LEMMA SoundStep ==
  ASSUME MacInv, Next
  PROVE  MacInv'
<1>0. /\ Typed /\ SlotsGuarded /\ Sound
      /\ Typed' /\ SlotsGuarded'
  <2>1. ~fault
    BY DEF Next, Idle
  <2>2. Typed /\ SlotsGuarded /\ Sound
    BY <2>1 DEF MacInv
  <2>3. Typed' /\ SlotsGuarded'
    BY <2>2, StepTypes DEF Sound
  <2>. QED BY <2>2, <2>3
<1>1. CASE \E b \in Buf, p \in Peer, t \in {"direct", "indirect"} : McpsDataRequest(b, p, t)
  BY <1>0, <1>1, McpsDataRequestSound DEF MacInv
<1>2. CASE \E b \in Buf, p \in Peer, t \in ParentFrames \cup ChildFrames : Receive(b, t, p)
  BY <1>0, <1>2, ReceiveSound DEF MacInv
<1>3. CASE \E b \in Buf : PollRequest(b) \/ Rescan(b)
  BY <1>0, <1>3, PollRequestSound, RescanSound DEF MacInv
<1>4. CASE \E s \in Slot : PendingDataTimeout(s)
  BY <1>0, <1>4, PendingDataTimeoutSound DEF MacInv
<1>5. CASE \E t \in {"ass", "poll"} : IndirectDataTimeout(t)
  BY <1>0, <1>5, IndirectDataTimeoutSound DEF MacInv
<1>6. CASE AssociateRequest
  BY <1>0, <1>6, AssociateRequestSound DEF MacInv
<1>7. CASE RespTimeout
  BY <1>0, <1>7, RespTimeoutSound DEF MacInv
<1>8. CASE CallerServed
  BY <1>0, <1>8, CallerServedSound DEF MacInv, CallerServed
<1>9. CASE TxInterrupt
  <2>1. UNCHANGED <<content, cbq, txq, txWait, pendingBuf, dataReq, asked, slots, outq, flags, bufRef, timers, caller, upper>>
    BY <1>9 DEF TxInterrupt, parent, child
  <2>. QED BY <1>0, <2>1, StillSound DEF MacInv
<1>10. CASE RunCallback
  BY <1>0, <1>10, RunCallbackSound DEF MacInv
<1>11. CASE MainLoopTxDone
  BY <1>0, <1>11, MainLoopTxDoneSound DEF MacInv
<1>12. CASE MainLoopTxNext
  BY <1>0, <1>12, MainLoopTxNextSound DEF MacInv
<1>. QED BY <1>1, <1>2, <1>3, <1>4, <1>5, <1>6, <1>7, <1>8, <1>9, <1>10, <1>11, <1>12 DEF Next

LEMMA SoundStutter ==
  ASSUME MacInv, UNCHANGED vars
  PROVE  MacInv'
<1>1. UNCHANGED <<role, content, cbq, txq, txWait, txCnt, onAir, pendingBuf, slots, slotAlarm, pendingBit,
                  dataReq, outq, flags, bufRef, timers, caller, upper, asked, fault>>
  BY DEF vars
<1>2. Typed' /\ SlotsGuarded'
  BY <1>1 DEF MacInv, Typed, SlotsGuarded
<1>3. fault' \/ Sound'
  BY <1>1, StillSound DEF MacInv
<1>. QED BY <1>2, <1>3 DEF MacInv

LEMMA SoundInit ==
  ASSUME Init
  PROVE  MacInv
<1>0. 1 \in Buf /\ NONE \notin Buf /\ Slot # {} /\ 0 \in 0 .. MaxOnAir
  BY MacAssumption DEF Buf, NONE, Slot
<1>1. /\ content = [x \in Buf |-> IF role = "child" /\ x = 1 THEN [type |-> "assocReq", peer |-> NONE] ELSE Free]
      /\ upper = [assoc |-> IF role = "child" THEN "scanned" ELSE "joined", polling |-> FALSE,
                  buf |-> IF role = "child" THEN 1 ELSE NONE]
      /\ pendingBuf = IF role = "child" THEN 1 ELSE NONE
      /\ cbq = << >> /\ txq = << >> /\ txWait = Ref("idle", NONE) /\ txCnt = FALSE /\ onAir = 0
      /\ slots = [s \in Slot |-> EmptySlot] /\ slotAlarm = {} /\ pendingBit = FALSE
      /\ dataReq = NoService /\ outq = {} /\ flags = {} /\ bufRef = NONE /\ timers = {} /\ caller = "idle"
      /\ asked = << >> /\ fault = FALSE /\ role \in Roles
  BY DEF Init
<1>2. /\ [type |-> "assocReq", peer |-> NONE] \in Contents /\ Free \in Contents /\ Free.type = "free"
      /\ EmptySlot \in SlotValues /\ EmptySlot.buf = NONE
  BY DEF Contents, Requests, Free, EmptySlot, SlotValues
<1>3. /\ content \in [Buf -> Contents]
      /\ \A x \in Buf : content[x].type = IF role = "child" /\ x = 1 THEN "assocReq" ELSE "free"
  BY <1>1, <1>2
<1>4. /\ slots \in [Slot -> SlotValues] /\ \A s \in Slot : slots[s] = EmptySlot
  BY <1>1, <1>2
<1>5. /\ upper.assoc = IF role = "child" THEN "scanned" ELSE "joined"
      /\ upper.buf = IF role = "child" THEN 1 ELSE NONE
  BY <1>1
<1>6. Typed
  <2>1. dataReq \in [slot : Slot, buf : Buf \cup {NONE}]
    BY <1>1, MacAssumption DEF NoService, Slot
  <2>2. upper \in [assoc : {"joined", "scanned", "asked", "failed"}, polling : BOOLEAN, buf : Buf \cup {NONE}]
    BY <1>0, <1>1
  <2>3. cbq \in Seq(CbRefs) /\ txq \in Seq(TxRefs) /\ asked \in Seq(Buf)
    BY <1>1, EmptySeq
  <2>4. txWait \in [func : {"idle", "data_continue", "data_request_continue", "association_continue"},
                    buf : Buf \cup {NONE}]
    BY <1>1 DEF Ref
  <2>5. flags \in FlagSets /\ timers \in TimerSets
    BY <1>1 DEF FlagSets, TimerSets
  <2>6. pendingBuf \in Buf \cup {NONE} /\ bufRef \in Buf \cup {NONE} /\ outq \subseteq Buf
        /\ txCnt \in BOOLEAN /\ onAir \in 0 .. MaxOnAir /\ caller \in {"idle", "ass", "poll"} /\ fault \in BOOLEAN
    BY <1>0, <1>1
  <2>. QED BY <1>1, <1>3, <1>4, <2>1, <2>2, <2>3, <2>4, <2>5, <2>6 DEF Typed, SlotValues
<1>7. SlotsGuarded
  BY <1>1, <1>4 DEF SlotsGuarded
<1>8. Members(cbq) = {} /\ Members(txq) = {} /\ txWait.func = "idle" /\ ~PollKept
  BY <1>1 DEF Members, Ref, PollKept
<1>9. Kinds
  BY <1>0, <1>1, <1>3, <1>4, <1>5, <1>8 DEF Kinds, CbqKind, TxqKind, SentKind, SlotKind, OutKind, PollKind, AboveKind
<1>10. UsedOnce
  <2>1. ASSUME NEW b \in Buf PROVE Uses(b) <= (IF content[b].type = "free" THEN 0 ELSE 1)
    <3>1. Has(cbq, b) = 0 /\ Has(txq, b) = 0
      <4>1. cbq \in Seq(CbRefs) /\ txq \in Seq(TxRefs)
        BY <1>6 DEF Typed
      <4>. QED BY <1>8, <4>1, HasFacts
    <3>2. InSlots(slots, b) = 0
      BY <1>0, <1>2, <1>4, SlotFacts
    <3>3. b \notin outq /\ ~Awaited(b)
      BY <1>1, <1>8 DEF Awaited
    <3>4. Uses(b) = IF upper.buf = b THEN 1 ELSE 0
      BY <1>8, <3>1, <3>2, <3>3 DEF Uses
    <3>5. upper.buf = b => content[b].type = "assocReq"
      BY <1>0, <1>3, <1>5
    <3>. QED BY <3>4, <3>5
  <2>. QED BY <2>1 DEF UsedOnce
<1>11. Associating
  <2>1. ~Queued /\ ~Asking /\ ~Owed
    BY <1>1, <1>8 DEF Queued, Asking, Owed
  <2>2. Closing(cbq, Failing, Confirms)
    BY <1>1 DEF Closing
  <2>. QED BY <1>1, <1>8, <2>1, <2>2 DEF Associating, OneRequest, NothingLeft, FailureLast
<1>12. Ordered
  <2>1. Picked(<< >>, "data_confirm", Direct) = << >> /\ Picked(<< >>, "mcps_data_req", Direct) = << >>
    <3>1. PICK q \in Seq(CbRefs) : q = << >>
      BY EmptySeq
    <3>2. PICK D : D = Direct
      OBVIOUS
    <3>3. Picked(<< >>, "data_confirm", D) = << >>
      BY <3>1, PickedType
    <3>4. Picked(<< >>, "mcps_data_req", D) = << >>
      BY <3>1, PickedType
    <3>. QED BY <3>2, <3>3, <3>4
  <2>2. Transmitting = << >>
    BY <1>8 DEF Transmitting
  <2>3. << >> \o << >> \o << >> = << >>
    BY EmptySeq, ConcatEmptySeq
  <2>. QED BY <1>1, <2>1, <2>2, <2>3 DEF Ordered
<1>. QED BY <1>6, <1>7, <1>9, <1>10, <1>11, <1>12 DEF MacInv, Sound

\* What the invariant says of the properties.
LEMMA HeldByUses ==
  ASSUME Typed, UsedOnce
  PROVE  HeldOnce
<1>1. ASSUME NEW b \in Buf PROVE Holders(b) <= (IF IsFree(b) THEN 0 ELSE 1)
  <2>1. /\ Has(cbq, b) = Cardinality({i \in DOMAIN cbq : cbq[i].buf = b})
        /\ Has(txq, b) = Cardinality({i \in DOMAIN txq : txq[i].buf = b})
        /\ InSlots(slots, b) = Cardinality(SlotHolders(b))
    BY DEF Has, Positions, InSlots, SlotsWith, SlotHolders
  <2>2. PICK n \in Nat : n = Has(cbq, b) + Has(txq, b) + InSlots(slots, b)
                             + (IF txWait.func = "data_continue" /\ txWait.buf = b THEN 1 ELSE 0)
                             + (IF b \in outq THEN 1 ELSE 0)
    BY UsesFacts
  <2>3. Holders(b) = n + (IF "poll" \in flags /\ bufRef = b THEN 1 ELSE 0) + (IF upper.buf = b THEN 1 ELSE 0)
    BY <2>1, <2>2 DEF Holders
  <2>4. Uses(b) = n + (IF PollKept /\ bufRef = b THEN 1 ELSE 0) + (IF upper.buf = b THEN 1 ELSE 0)
                    + (IF Awaited(b) THEN 1 ELSE 0)
    BY <2>2 DEF Uses
  <2>5. "poll" \in flags /\ bufRef = b => PollKept /\ bufRef = b
    BY DEF PollKept, NONE, Buf
  <2>6. Holders(b) <= Uses(b) /\ Holders(b) \in Nat /\ Uses(b) \in Nat
    BY <2>3, <2>4, <2>5
  <2>7. Uses(b) <= (IF content[b].type = "free" THEN 0 ELSE 1)
    BY DEF UsedOnce
  <2>. QED BY <2>6, <2>7 DEF IsFree
<1>. QED BY <1>1 DEF HeldOnce

LEMMA TypeOKTyped ==
  ASSUME Typed
  PROVE  TypeOK
<1>1. /\ \A i \in DOMAIN cbq : cbq[i].func \in Callbacks /\ cbq[i].buf \in Buf
      /\ \A i \in DOMAIN txq : txq[i].func \in TxCallbacks /\ txq[i].buf \in Buf \cup {NONE}
  BY MembersTyped DEF Members
<1>. QED BY <1>1 DEF Typed, TypeOK, FlagSets, TimerSets

LEMMA SoundAlways == Spec => []MacInv
<1>1. Init => MacInv
  BY SoundInit
<1>2. MacInv /\ [Next]_vars => MacInv'
  BY SoundStep, SoundStutter
<1>. QED BY <1>1, <1>2, PTL DEF Spec

(* Slots, their alarms and the pending bit agree (zb_mac_pending_data_     *)
(* timeout, zb_mac_put_data_to_pending_queue, ZB_CLEAR_PENDING_QUEUE_SLOT),*)
(* and until one service has used the buffer of another no buffer is held  *)
(* twice and no free buffer is held, however timeouts, polls, receptions,  *)
(* associations and transmissions meet.                                    *)
THEOREM MacSlots == Spec => []SlotsSound
<1>1. MacInv => SlotsSound
  BY HeldByUses, TypeOKTyped DEF MacInv, Sound, SlotsSound, HeldOnce
<1>. QED BY <1>1, SoundAlways, PTL

(* zb_mcps_data_request to zb_mcps_data_confirm: direct requests leave and *)
(* are confirmed in the order they were made, none lost and none twice.    *)
THEOREM MacInOrder == Spec => []InOrder
<1>1. MacInv => InOrder
  BY DEF MacInv, Sound, Ordered, InOrder
<1>. QED BY <1>1, SoundAlways, PTL
=============================================================================
