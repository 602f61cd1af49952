-------------------------- MODULE ChildTableProofs --------------------------
(***************************************************************************)
(* For every set of devices, size of the tables and shape of the tree: the *)
(* index of the neighbor table stays sound, an address belongs to one      *)
(* device until it is given free, and the counters cover the children.     *)
(***************************************************************************)
EXTENDS ChildTable, FunctionTheorems, FiniteSetTheorems,
        SequenceTheorems, WellFoundedInduction, TLAPS

-----------------------------------------------------------------------------
\* Natural numbers.

Below == {ss \in Nat \X Nat : ss[1] < ss[2]}

LEMMA BelowWellFounded == IsWellFoundedOn(Below, Nat)
BY NatLessThanWellFounded DEF OpToRel, Below

\* A set of natural numbers that is not empty has a least element.
LEMMA LeastElement ==
  ASSUME NEW S \in SUBSET Nat, S # {}
  PROVE  \E x \in S : \A y \in S : x <= y
<1>1. PICK x \in S : \A y \in S : ~(<<y, x>> \in Below)
  BY BelowWellFounded, WFMin
<1>2. \A y \in S : ~(y < x)
  BY <1>1 DEF Below
<1>. QED BY <1>2

\* Induction: a set with 0 and with the successor of each element.
LEMMA NatClosed ==
  ASSUME NEW T, 0 \in T, \A n \in Nat : n \in T => n + 1 \in T
  PROVE  Nat \subseteq T
<1>1. SUFFICES ASSUME Nat \ T # {} PROVE FALSE
  OBVIOUS
<1>2. PICK x \in Nat \ T : \A y \in Nat \ T : x <= y
  <2>1. Nat \ T \in SUBSET Nat
    OBVIOUS
  <2>. QED BY <1>1, <2>1, LeastElement
<1>3. x # 0 /\ x - 1 \in Nat
  BY <1>2
<1>4. x - 1 \in T
  BY <1>2, <1>3
<1>5. (x - 1) + 1 \in T
  BY <1>3, <1>4
<1>. QED BY <1>2, <1>3, <1>5

-----------------------------------------------------------------------------
\* The addresses of the block: RAddr(k) of the k-th router, EAddr(k) of the k-th end device.
RAddr(k) == OwnAddr + k * Cskip + 1
EAddr(k) == OwnAddr + MaxRouters * Cskip + k + 1
GivenR(c, s) == \E k \in 0 .. c.router - 1 : s = RAddr(k)
GivenE(c, s) == \E k \in 0 .. c.ed - 1 : s = EAddr(k)
EdBlock(s) == \E k \in 0 .. MaxChildren - 1 : s = EAddr(k)
Known(c, s) == s \in Heard \/ GivenR(c, s)

\* Types.
Entries == [used : BOOLEAN, ieee : Dev \cup {NoDev}, short : Int, lock : 0 .. LockLimit - 1]
AddrTabs == [Ref -> Entries]
Indexes == [Ref -> Slot \cup {NONE}]
Ents == [used : BOOLEAN, ref : Ref \cup {NONE}, type : {"none", "router", "ed", "leftover"}, rxOn : BOOLEAN,
         rel : {"none", "child"}]
NbtTabs == [Slot -> Ents]
Faults == {"none", "conflict", "locks", "overrun", "rejoinEnt", "rejoinTab", "leaveEnt", "leftover", "offset", "noExt"}
Counters == [router : 0 .. MaxRouters, ed : 0 .. ByteLimit - 1]
Messages == [dev : Dev \cup {NoDev}, short : Int]
Answers == {"assocResp", "rejoinResp"}

Typed ==
  /\ addr \in AddrTabs /\ index \in Indexes /\ nbt \in NbtTabs
  /\ nbtUsed \in 0 .. Size /\ nbtSize \in 0 .. Size
  /\ ext \in [size : Int, seq : Seq(Int)] /\ scans \in Nat
  /\ childNum \in Counters
  /\ rejoinTab \in Seq(Int) /\ Len(rejoinTab) <= RejoinTableSize
  /\ flying \in [MsgKinds -> Seq(Messages)]
  /\ granted \in [Dev -> Int] /\ freed \in SUBSET Int
  /\ fault \in Faults

\* The addresses a device has, believes it has, or is about to be told.
Entered(a, d, s) == \E r \in Ref : a[r].used /\ a[r].ieee = d /\ a[r].short = s
Told(d, s) == \E k \in Answers : \E i \in DOMAIN flying[k] : flying[k][i] = Msg(d, s)
Holds(d, s) == s # NONE /\ (granted[d] = s \/ Told(d, s) \/ Entered(addr, d, s))
Given(c, f, s) == GivenR(c, s) \/ (EdBlock(s) /\ (s \in f \/ GivenE(c, s)))
Owners ==
  /\ \A d \in Dev, s \in Int : Holds(d, s) => Given(childNum, freed, s)
  /\ \A d, e \in Dev, s \in Int : d # e /\ Holds(d, s) /\ Holds(e, s) => s \in freed
Limited == Cskip > 1 => childNum.router + childNum.ed <= MaxChildren

\* The tables, as a record like T0.
Indexed(T) ==
  /\ \A r \in Ref : T.index[r] # NONE =>
       T.index[r] < T.used /\ T.nbt[T.index[r]].used /\ T.nbt[T.index[r]].ref = r /\ T.addr[r].used
  /\ \A i \in Slot : T.nbt[i].used => T.nbt[i].ref \in Ref /\ T.index[T.nbt[i].ref] = i
Unique(a) ==
  /\ \A r, q \in Ref : a[r].used /\ a[q].used /\ a[r].short = a[q].short => r = q
  /\ \A r, q \in Ref : a[r].used /\ a[q].used /\ a[r].ieee = a[q].ieee /\ a[r].ieee \in Dev => r = q
Locked(T, c) == \A r \in Ref : T.index[r] # NONE /\ T.addr[r].lock = 0 => Known(c, T.addr[r].short)
KindAt(T, c, r) ==
  LET e == T.nbt[T.index[r]]
      s == T.addr[r].short
  IN  /\ e.type \in {"router", "ed"}
      /\ e.type = "router" => Known(c, s)
      /\ e.type = "ed" => EdBlock(s) /\ e.rel = "child"
      /\ e.rel = "child" => T.addr[r].ieee \in Dev
Kinds(T, c) == \A r \in Ref : T.index[r] # NONE => KindAt(T, c, r)
TabSound(T, c) == Indexed(T) /\ Unique(T.addr) /\ Locked(T, c) /\ Kinds(T, c)

Scanning ==
  /\ nbtUsed <= nbtSize
  /\ ext.size <= 0 => ext.size = 0 /\ nbtSize = Size /\ ext.seq = <<>>
  /\ Len(ext.seq) <= ext.size /\ ext.size * ExtBytes <= (Size - nbtSize) * EntBytes
  /\ \A i \in DOMAIN ext.seq : Known(childNum, ext.seq[i])

ChildInv == Typed /\ Owners /\ Limited /\ (Ok => TabSound(T0, childNum) /\ Scanning)

-----------------------------------------------------------------------------
\* A recurrence over an interval has a solution.
Stepper(X, n, step) == step \in [(1 .. n) \X X -> X]
Run(X, x0, n, step, h) ==
  h \in [0 .. n -> X] /\ \A k \in 0 .. n : h[k] = IF k = 0 THEN x0 ELSE step[<<k, h[k - 1]>>]
LEMMA RunExists ==
  ASSUME NEW X, NEW n \in Nat
  PROVE  \A x0 \in X : \A step : Stepper(X, n, step) => \E h : Run(X, x0, n, step, h)
<1>. SUFFICES ASSUME NEW x0 \in X, NEW step \in [(1 .. n) \X X -> X] PROVE \E h : Run(X, x0, n, step, h)
  BY DEF Stepper
<1>. DEFINE Solves(h, m) == h \in [0 .. m -> X] /\ \A k \in 0 .. m : h[k] = IF k = 0 THEN x0 ELSE step[<<k, h[k - 1]>>]
            T == {m \in Nat : m <= n => \E h : Solves(h, m)}
<1>1. 0 \in T
  <2>1. Solves([k \in 0 .. 0 |-> x0], 0)
    OBVIOUS
  <2>. HIDE DEF Solves
  <2>. QED BY <2>1
<1>2. ASSUME NEW m \in Nat, m \in T PROVE m + 1 \in T
  <2>1. SUFFICES ASSUME m + 1 <= n PROVE \E h : Solves(h, m + 1)
    OBVIOUS
  <2>2. PICK h : Solves(h, m)
    BY <1>2, <2>1
  <2>3. h[m] \in X
    BY <2>2
  <2>4. PICK last \in X : last = step[<<m + 1, h[m]>>]
    <3>1. <<m + 1, h[m]>> \in (1 .. n) \X X
      BY <2>1, <2>3
    <3>. QED BY <3>1
  <2>. DEFINE g == [k \in 0 .. m + 1 |-> IF k = m + 1 THEN last ELSE h[k]]
  <2>5. g \in [0 .. m + 1 -> X]
    BY <2>2
  <2>6. ASSUME NEW k \in 0 .. m + 1 PROVE g[k] = IF k = 0 THEN x0 ELSE step[<<k, g[k - 1]>>]
    <3>1. CASE k = m + 1
      <4>1. g[k] = last /\ k # 0 /\ g[k - 1] = h[m]
        BY <3>1
      <4>. HIDE DEF g
      <4>. QED BY <2>4, <3>1, <4>1
    <3>2. CASE k # m + 1
      <4>1. k \in 0 .. m /\ g[k] = h[k] /\ (k # 0 => g[k - 1] = h[k - 1])
        BY <3>2
      <4>2. h[k] = IF k = 0 THEN x0 ELSE step[<<k, h[k - 1]>>]
        BY <2>2, <4>1
      <4>. HIDE DEF g
      <4>. QED BY <4>1, <4>2
    <3>. QED BY <3>1, <3>2
  <2>. HIDE DEF g
  <2>7. Solves(g, m + 1)
    BY <2>5, <2>6
  <2>. HIDE DEF Solves
  <2>. QED BY <2>7
<1>3. Nat \subseteq T
  <2>. HIDE DEF T
  <2>. QED BY <1>1, <1>2, NatClosed
<1>4. PICK h : Solves(h, n)
  <2>. HIDE DEF Solves
  <2>. QED BY <1>3
<1>. QED BY <1>4 DEF Run

-----------------------------------------------------------------------------
\* The distributed addresses.
LEMMA ChildConstants ==
  /\ NRef \in Nat \ {0} /\ Size \in Nat \ {0} /\ LockLimit \in Nat \ {0} /\ ByteLimit \in Nat
  /\ MaxChildren \in Nat /\ MaxChildren < ByteLimit /\ MaxRouters \in Nat /\ 1 <= MaxRouters /\ MaxRouters <= MaxChildren
  /\ MaxDepth - Depth - 1 \in Nat /\ OwnAddr \in Nat /\ Heard \subseteq Nat /\ RejoinTableSize \in Nat
  /\ EntBytes \in Nat \ {0} /\ ExtBytes \in Nat /\ ExtBytes >= EntBytes
  BY ChildAssumption

LEMMA AtLeastOne ==
  ASSUME NEW a \in Nat, NEW b \in Nat, b >= 1, a >= b
  PROVE  a \div b \in Nat /\ a \div b >= 1
  OBVIOUS

LEMMA CskipPositive == Cskip \in Nat /\ Cskip >= 1
<1>. DEFINE levels == MaxDepth - Depth - 1
            Follows(f) == f = [i \in 0 .. levels |-> IF i = 0 THEN 1 ELSE f[i - 1] * MaxRouters]
            tmp == CHOOSE f : Follows(f)
<1>1. levels \in Nat /\ MaxChildren \in Nat /\ MaxRouters \in Nat /\ MaxRouters >= 1 /\ MaxChildren >= MaxRouters
  BY ChildConstants
<1>. HIDE DEF levels
<1>2. Follows(tmp)
  <2>. DEFINE step == [p \in (1 .. levels) \X Nat |-> p[2] * MaxRouters]
  <2>1. step \in [(1 .. levels) \X Nat -> Nat]
    BY <1>1
  <2>2. PICK st \in [(1 .. levels) \X Nat -> Nat] : \A k \in 1 .. levels, x \in Nat : st[<<k, x>>] = x * MaxRouters
    BY <2>1
  <2>3. PICK h \in [0 .. levels -> Nat] : \A k \in 0 .. levels : h[k] = IF k = 0 THEN 1 ELSE st[<<k, h[k - 1]>>]
    <3>1. 1 \in Nat /\ Stepper(Nat, levels, st)
      BY <2>2 DEF Stepper
    <3>2. PICK h : Run(Nat, 1, levels, st, h)
      BY <1>1, <3>1, RunExists
    <3>. QED BY <3>2 DEF Run
  <2>4. \A k \in 0 .. levels : h[k] = IF k = 0 THEN 1 ELSE h[k - 1] * MaxRouters
    <3>1. ASSUME NEW k \in 0 .. levels PROVE h[k] = IF k = 0 THEN 1 ELSE h[k - 1] * MaxRouters
      <4>1. CASE k = 0
        BY <2>3, <4>1
      <4>2. CASE k # 0
        <5>1. k \in 1 .. levels /\ h[k - 1] \in Nat /\ h[k] = st[<<k, h[k - 1]>>]
          BY <1>1, <2>3, <4>2
        <5>. QED BY <2>2, <4>2, <5>1
      <4>. QED BY <4>1, <4>2
    <3>. QED BY <3>1
  <2>5. Follows(h)
    BY <2>4
  <2>. HIDE DEF Follows
  <2>. QED BY <2>5
<1>3. \A k \in 0 .. levels : tmp[k] = IF k = 0 THEN 1 ELSE tmp[k - 1] * MaxRouters
  <2>1. PICK f : f = tmp
    OBVIOUS
  <2>2. f = [i \in 0 .. levels |-> IF i = 0 THEN 1 ELSE f[i - 1] * MaxRouters]
    BY <1>2, <2>1
  <2>3. \A k \in 0 .. levels : f[k] = IF k = 0 THEN 1 ELSE f[k - 1] * MaxRouters
    BY <2>2, Zenon
  <2>. HIDE DEF tmp
  <2>. QED BY <2>1, <2>3
<1>4. Cskip = IF MaxRouters = 1 THEN 1 + MaxChildren * levels
              ELSE (MaxChildren * tmp[levels] + MaxRouters - 1 - MaxChildren) \div (MaxRouters - 1)
  BY DEF Cskip, CalcCskip, levels
<1>. HIDE DEF tmp
<1>5. tmp[levels] \in Nat /\ tmp[levels] >= 1
  <2>. DEFINE T == {k \in Nat : k <= levels => tmp[k] \in Nat /\ tmp[k] >= 1}
  <2>1. 0 \in T
    BY <1>1, <1>3
  <2>2. ASSUME NEW k \in Nat, k \in T PROVE k + 1 \in T
    <3>1. SUFFICES ASSUME k + 1 <= levels PROVE tmp[k + 1] \in Nat /\ tmp[k + 1] >= 1
      OBVIOUS
    <3>2. tmp[k + 1] = tmp[k] * MaxRouters
      BY <1>1, <1>3, <3>1
    <3>3. PICK x \in Nat : x = tmp[k] /\ x >= 1
      BY <1>1, <2>2, <3>1
    <3>4. x * MaxRouters \in Nat /\ x * MaxRouters >= 1
      BY <1>1, <3>3
    <3>. QED BY <3>2, <3>3, <3>4
  <2>3. Nat \subseteq T
    <3>. HIDE DEF T
    <3>. QED BY <2>1, <2>2, NatClosed
  <2>. QED BY <1>1, <2>3
<1>6. CASE MaxRouters = 1
  <2>1. MaxChildren * levels \in Nat
    BY <1>1
  <2>. QED BY <1>4, <1>6, <2>1
<1>7. CASE MaxRouters # 1
  <2>1. PICK x \in Nat : x = tmp[levels] /\ x >= 1
    BY <1>5
  <2>2. MaxChildren * x \in Nat /\ MaxChildren * x >= MaxChildren
    BY <1>1, <2>1
  <2>3. PICK a \in Nat : a = MaxChildren * x + MaxRouters - 1 - MaxChildren /\ a >= MaxRouters - 1
    <3>1. PICK y \in Nat : y = MaxChildren * x /\ y >= MaxChildren
      BY <2>2
    <3>. QED BY <1>1, <3>1
  <2>4. PICK b \in Nat : b = MaxRouters - 1 /\ b >= 1
    BY <1>1, <1>7
  <2>5. a \div b \in Nat /\ a \div b >= 1
    BY <2>3, <2>4, AtLeastOne
  <2>. QED BY <1>4, <1>7, <2>1, <2>3, <2>4, <2>5
<1>. QED BY <1>6, <1>7

LEMMA Multiples ==
  ASSUME NEW c \in Nat, c >= 1, NEW k \in Nat, NEW j \in Nat, k < j
  PROVE  k * c \in Nat /\ j * c \in Nat /\ k * c + c <= j * c /\ k * c < j * c
<1>1. PICK d \in Nat : j = k + 1 + d
  <2>1. j - k - 1 \in Nat /\ j = k + 1 + (j - k - 1)
    OBVIOUS
  <2>. QED BY <2>1
<1>2. j * c = k * c + c + d * c /\ k * c \in Nat /\ d * c \in Nat
  BY <1>1
<1>. QED BY <1>2

LEMMA Blocks ==
  /\ \A k \in Nat : RAddr(k) \in Nat /\ EAddr(k) \in Nat /\ EAddr(k) > OwnAddr + MaxRouters * Cskip
  /\ \A k, j \in Nat : (RAddr(k) = RAddr(j) => k = j) /\ (EAddr(k) = EAddr(j) => k = j)
  /\ \A k \in Nat : k < MaxRouters => RAddr(k) <= OwnAddr + MaxRouters * Cskip /\ RAddr(k) >= 1
  /\ \A k \in Nat : k < MaxRouters /\ Cskip > 1 => RAddr(k) # OwnAddr + MaxRouters * Cskip
<1>1. Cskip \in Nat /\ Cskip >= 1 /\ OwnAddr \in Nat /\ MaxRouters \in Nat
  BY CskipPositive, ChildConstants
<1>2. ASSUME NEW k \in Nat PROVE RAddr(k) \in Nat /\ EAddr(k) \in Nat /\ EAddr(k) > OwnAddr + MaxRouters * Cskip
  <2>1. k * Cskip \in Nat /\ MaxRouters * Cskip \in Nat
    BY <1>1
  <2>. QED BY <1>1, <2>1 DEF RAddr, EAddr
<1>3. ASSUME NEW k \in Nat, NEW j \in Nat PROVE (RAddr(k) = RAddr(j) => k = j) /\ (EAddr(k) = EAddr(j) => k = j)
  <2>1. k * Cskip \in Nat /\ j * Cskip \in Nat /\ MaxRouters * Cskip \in Nat
    BY <1>1
  <2>2. k < j => k * Cskip < j * Cskip
    BY <1>1, Multiples
  <2>3. j < k => j * Cskip < k * Cskip
    BY <1>1, Multiples
  <2>. QED BY <1>1, <2>1, <2>2, <2>3 DEF RAddr, EAddr
<1>4. ASSUME NEW k \in Nat, k < MaxRouters
      PROVE  /\ RAddr(k) <= OwnAddr + MaxRouters * Cskip /\ RAddr(k) >= 1
             /\ Cskip > 1 => RAddr(k) # OwnAddr + MaxRouters * Cskip
  <2>1. k * Cskip \in Nat /\ MaxRouters * Cskip \in Nat /\ k * Cskip + Cskip <= MaxRouters * Cskip
    BY <1>1, <1>4, Multiples
  <2>. QED BY <1>1, <2>1 DEF RAddr
<1>. QED BY <1>2, <1>3, <1>4

-----------------------------------------------------------------------------
\* The address table.
LEMMA Basics ==
  /\ 0 \in Ref /\ Ref \subseteq Int /\ NONE \notin Ref /\ Slot \subseteq Int /\ NONE \notin Slot /\ NONE \in Int
  /\ \A i \in Int : i \in Slot <=> 0 <= i /\ i < Size
  BY ChildConstants DEF Ref, Slot, NONE

LEMMA Chosen == \A S : S # {} => The(S) \in S
  BY DEF The

LEMMA LeastFree ==
  ASSUME NEW a, FreeRefs(a) # {}
  PROVE  Least(FreeRefs(a)) \in Ref /\ ~a[Least(FreeRefs(a))].used
<1>1. FreeRefs(a) \in SUBSET Nat
  BY ChildConstants DEF FreeRefs, Ref
<1>2. \E x \in FreeRefs(a) : \A y \in FreeRefs(a) : x <= y
  BY <1>1, LeastElement
<1>3. Least(FreeRefs(a)) \in FreeRefs(a)
  BY <1>2 DEF Least
<1>. QED BY <1>3 DEF FreeRefs

\* An entry of device d with address s, and what else happens to the table: entries without a lock that
\* named one of them are gone.
Written(a, b, r, d, s) ==
  /\ r \in Ref /\ b \in AddrTabs
  /\ b[r].used /\ b[r].ieee = d /\ b[r].short = s /\ b[r].lock = a[r].lock
  /\ a[r].used => a[r].short = s \/ a[r].ieee = d
  /\ \A q \in Ref \ {r} :
       \/ b[q] = a[q]
       \/ ~b[q].used /\ b[q].lock = a[q].lock /\ a[q].used /\ a[q].lock = 0 /\ (a[q].short = s \/ a[q].ieee = d)
Alone(b, r, d, s) == \A q \in Ref \ {r} : b[q].used => b[q].short # s /\ b[q].ieee # d

LEMMA AddrAddFacts ==
  ASSUME NEW a \in AddrTabs, NEW d \in Dev \cup {NoDev}, NEW s \in Int
  PROVE  /\ FreeRefs(a) = {} => /\ ~AddrAdd(a, d, s).ok /\ AddrAdd(a, d, s).tab = a
                                /\ AddrAdd(a, d, s).fault = "none"
         /\ FreeRefs(a) # {} =>
              /\ AddrAdd(a, d, s).ok /\ AddrAdd(a, d, s).fault = "none"
              /\ ~a[AddrAdd(a, d, s).ref].used
              /\ \A q \in Ref \ {AddrAdd(a, d, s).ref} : AddrAdd(a, d, s).tab[q] = a[q]
              /\ Written(a, AddrAdd(a, d, s).tab, AddrAdd(a, d, s).ref, d, s)
<1>1. CASE FreeRefs(a) = {}
  BY <1>1 DEF AddrAdd
<1>2. CASE FreeRefs(a) # {}
  <2>1. PICK r \in Ref : r = Least(FreeRefs(a)) /\ ~a[r].used
    BY <1>2, LeastFree
  <2>2. PICK e \in Entries : e = [used |-> TRUE, ieee |-> d, short |-> s, lock |-> a[r].lock]
    BY DEF AddrTabs, Entries
  <2>3. /\ AddrAdd(a, d, s).ok /\ AddrAdd(a, d, s).fault = "none" /\ AddrAdd(a, d, s).ref = r
        /\ AddrAdd(a, d, s).tab = [a EXCEPT ![r] = e]
    BY <1>2, <2>1, <2>2 DEF AddrAdd
  <2>4. PICK b \in AddrTabs : b = [a EXCEPT ![r] = e]
    BY DEF AddrTabs
  <2>5. b[r] = e /\ \A q \in Ref \ {r} : b[q] = a[q]
    BY <2>4 DEF AddrTabs
  <2>6. Written(a, b, r, d, s)
    BY <2>1, <2>2, <2>5 DEF Written
  <2>. QED BY <1>2, <2>1, <2>3, <2>4, <2>5, <2>6
<1>. QED BY <1>1, <1>2

LEMMA AddrDeleteFacts ==
  ASSUME NEW a \in AddrTabs, NEW r \in Ref
  PROVE  /\ AddrDelete(a, r) \in AddrTabs
         /\ ~AddrDelete(a, r)[r].used /\ AddrDelete(a, r)[r].lock = a[r].lock
         /\ \A q \in Ref \ {r} : AddrDelete(a, r)[q] = a[q]
<1>1. PICK e \in Entries : e = Unused(a[r].lock) /\ ~e.used /\ e.lock = a[r].lock
  <2>1. PICK l \in 0 .. LockLimit - 1 : l = a[r].lock
    BY DEF AddrTabs, Entries
  <2>2. Unused(l) \in Entries /\ ~Unused(l).used /\ Unused(l).lock = l
    BY DEF Entries, Unused, NONE
  <2>. QED BY <2>1, <2>2
<1>2. AddrDelete(a, r) = [a EXCEPT ![r] = e]
  BY <1>1 DEF AddrDelete
<1>. QED BY <1>1, <1>2 DEF AddrTabs

LEMMA AddrSetFacts ==
  ASSUME NEW a \in AddrTabs, NEW r \in Ref, NEW d \in Dev, NEW s \in Int, a[r].used
  PROVE  /\ AddrSet(a, r, d, s).ok /\ AddrSet(a, r, d, s).fault = "none" /\ AddrSet(a, r, d, s).ref = r
         /\ AddrSet(a, r, d, s).tab \in AddrTabs
         /\ AddrSet(a, r, d, s).tab[r] = [used |-> TRUE, ieee |-> d, short |-> s, lock |-> a[r].lock]
         /\ \A q \in Ref \ {r} : AddrSet(a, r, d, s).tab[q] = a[q]
<1>1. PICK b : b = [a EXCEPT ![r].ieee = d, ![r].short = s]
  OBVIOUS
<1>2. /\ AddrSet(a, r, d, s).ok /\ AddrSet(a, r, d, s).fault = "none" /\ AddrSet(a, r, d, s).ref = r
      /\ AddrSet(a, r, d, s).tab = b
  BY <1>1 DEF AddrSet
<1>3. /\ b \in [Ref -> Entries]
      /\ b[r] = [used |-> TRUE, ieee |-> d, short |-> s, lock |-> a[r].lock]
      /\ \A q \in Ref \ {r} : b[q] = a[q]
  BY <1>1 DEF AddrTabs, Entries
<1>. QED BY <1>2, <1>3 DEF AddrTabs

LEMMA AddrUpdateFacts ==
  ASSUME NEW a \in AddrTabs, Unique(a), NEW d \in Dev, NEW s \in Int
  PROVE  LET U == AddrUpdate(a, d, s) IN
         \/ /\ ~U.ok /\ U.tab = a /\ U.fault \in {"none", "conflict"}
         \/ U.ok /\ U.fault = "none" /\ Written(a, U.tab, U.ref, d, s) /\ Alone(U.tab, U.ref, d, s)
<1>. DEFINE S == ShortSearch(a, s)
            L == IeeeSearch(a, d)
            U == AddrUpdate(a, d, s)
<1>s. \A r \in Ref : a[r].used /\ a[r].short = s => S = {r} /\ r = The(S)
  <2>1. ASSUME NEW r \in Ref, a[r].used, a[r].short = s PROVE S = {r}
    BY <2>1 DEF ShortSearch, Unique
  <2>. HIDE DEF S
  <2>. QED BY <2>1, Chosen
<1>l. \A r \in Ref : a[r].used /\ a[r].ieee = d => L = {r} /\ r = The(L)
  <2>1. ASSUME NEW r \in Ref, a[r].used, a[r].ieee = d PROVE L = {r}
    BY <2>1 DEF IeeeSearch, Unique
  <2>. HIDE DEF L
  <2>. QED BY <2>1, Chosen
<1>0. /\ S # {} => The(S) \in Ref /\ a[The(S)].used /\ a[The(S)].short = s
      /\ L # {} => The(L) \in Ref /\ a[The(L)].used /\ a[The(L)].ieee = d
  <2>1. S # {} => The(S) \in S
    BY Chosen
  <2>2. L # {} => The(L) \in L
    BY Chosen
  <2>. QED BY <2>1, <2>2 DEF ShortSearch, IeeeSearch
<1>d. ASSUME NEW x \in Ref, NEW y \in Ref, x # y, a[x].used, a[y].used, a[x].lock = 0,
             a[x].short = s \/ a[x].ieee = d, a[y].short = s \/ a[y].ieee = d,
             U = AddrSet(AddrDelete(a, x), y, d, s),
             \A q \in Ref : a[q].used /\ (a[q].short = s \/ a[q].ieee = d) => q \in {x, y}
      PROVE  U.ok /\ U.fault = "none" /\ Written(a, U.tab, U.ref, d, s) /\ Alone(U.tab, U.ref, d, s)
  <2>1. PICK b \in AddrTabs : /\ b = AddrDelete(a, x) /\ ~b[x].used /\ b[x].lock = a[x].lock
                              /\ \A q \in Ref \ {x} : b[q] = a[q]
    BY AddrDeleteFacts
  <2>2. PICK c \in AddrTabs : /\ U.ok /\ U.fault = "none" /\ U.ref = y /\ U.tab = c
                              /\ c[y] = [used |-> TRUE, ieee |-> d, short |-> s, lock |-> b[y].lock]
                              /\ \A q \in Ref \ {y} : c[q] = b[q]
    <3>1. b[y].used
      BY <1>d, <2>1
    <3>2. U = AddrSet(b, y, d, s)
      BY <1>d, <2>1
    <3>. HIDE DEF U
    <3>. QED BY <3>1, <3>2, AddrSetFacts
  <2>. HIDE DEF U
  <2>3. Written(a, c, y, d, s)
    BY <1>d, <2>1, <2>2 DEF Written
  <2>4. Alone(c, y, d, s)
    BY <1>d, <2>1, <2>2 DEF Alone
  <2>. QED BY <2>2, <2>3, <2>4
<1>1. CASE S # {} /\ L # {} /\ The(S) # The(L)
  <2>. HIDE DEF S, L
  <2>0. \A q \in Ref : a[q].used /\ (a[q].short = s \/ a[q].ieee = d) => q \in {The(S), The(L)}
    BY <1>s, <1>l
  <2>1. CASE a[The(S)].lock = 0
    <3>1. U = AddrSet(AddrDelete(a, The(S)), The(L), d, s)
      BY <1>1, <2>1 DEF AddrUpdate, S, L
    <3>. HIDE DEF U
    <3>. QED BY <1>0, <1>1, <1>d, <2>0, <2>1, <3>1 DEF U
  <2>2. CASE a[The(S)].lock # 0 /\ a[The(L)].lock = 0
    <3>1. U = AddrSet(AddrDelete(a, The(L)), The(S), d, s)
      BY <1>1, <2>2 DEF AddrUpdate, S, L
    <3>. QED BY <1>0, <1>1, <1>d, <2>0, <2>2, <3>1
  <2>3. CASE a[The(S)].lock # 0 /\ a[The(L)].lock # 0
    BY <1>1, <2>3 DEF AddrUpdate, S, L
  <2>. QED BY <2>1, <2>2, <2>3
<1>2. CASE ~(S # {} /\ L # {} /\ The(S) # The(L)) /\ S \cup L # {}
  <2>1. U = AddrSet(a, The(S \cup L), d, s)
    BY <1>2 DEF AddrUpdate
  <2>. HIDE DEF S, L, U
  <2>2. /\ The(S \cup L) \in Ref /\ a[The(S \cup L)].used
        /\ a[The(S \cup L)].short = s \/ a[The(S \cup L)].ieee = d
        /\ \A q \in Ref : a[q].used /\ (a[q].short = s \/ a[q].ieee = d) => q = The(S \cup L)
    <3>1. The(S \cup L) \in S \cup L
      BY <1>2, Chosen
    <3>2. The(S \cup L) \in Ref /\ a[The(S \cup L)].used
          /\ (a[The(S \cup L)].short = s \/ a[The(S \cup L)].ieee = d)
      BY <3>1 DEF S, L, ShortSearch, IeeeSearch
    <3>. QED BY <1>2, <1>s, <1>l, <1>0, <3>1, <3>2
  <2>3. PICK x \in Ref : x = The(S \cup L)
    BY <2>2
  <2>4. PICK c \in AddrTabs : /\ U.ok /\ U.fault = "none" /\ U.ref = x /\ U.tab = c
                              /\ c[x] = [used |-> TRUE, ieee |-> d, short |-> s, lock |-> a[x].lock]
                              /\ \A q \in Ref \ {x} : c[q] = a[q]
    <3>1. U = AddrSet(a, x, d, s) /\ a[x].used
      BY <2>1, <2>2, <2>3
    <3>. QED BY <3>1, AddrSetFacts
  <2>5. (a[x].short = s \/ a[x].ieee = d) /\ \A q \in Ref : a[q].used /\ (a[q].short = s \/ a[q].ieee = d) => q = x
    BY <2>2, <2>3
  <2>6. Written(a, c, x, d, s)
    BY <2>4, <2>5 DEF Written
  <2>7. Alone(c, x, d, s)
    BY <2>4, <2>5 DEF Alone
  <2>. QED BY <2>4, <2>6, <2>7 DEF U
<1>3. CASE S = {} /\ L = {}
  <2>1. U = AddrAdd(a, d, s)
    BY <1>3 DEF AddrUpdate
  <2>2. \A q \in Ref : a[q].used => a[q].short # s /\ a[q].ieee # d
    BY <1>3 DEF ShortSearch, IeeeSearch
  <2>3. PICK u : u = AddrAdd(a, d, s)
    OBVIOUS
  <2>4. \/ ~u.ok /\ u.tab = a /\ u.fault = "none"
        \/ /\ u.ok /\ u.fault = "none" /\ Written(a, u.tab, u.ref, d, s)
           /\ \A q \in Ref \ {u.ref} : u.tab[q] = a[q]
    BY <2>3, AddrAddFacts
  <2>5. Written(a, u.tab, u.ref, d, s) /\ (\A q \in Ref \ {u.ref} : u.tab[q] = a[q]) => Alone(u.tab, u.ref, d, s)
    BY <2>2 DEF Alone
  <2>. HIDE DEF U
  <2>. QED BY <2>1, <2>3, <2>4, <2>5 DEF U
<1>. QED BY <1>1, <1>2, <1>3

-----------------------------------------------------------------------------
\* The neighbor table: entries leave it.
Tabs == [addr : AddrTabs, index : Indexes, nbt : NbtTabs, used : 0 .. Size, fault : Faults]

LEMMA T0Facts ==
  ASSUME Typed, Ok
  PROVE  T0 \in Tabs /\ T0.addr = addr /\ T0.index = index /\ T0.nbt = nbt /\ T0.used = nbtUsed /\ T0.fault = "none"
  BY DEF Typed, T0, Tabs, Faults

\* A record of tables whose address entry r goes away; its neighbor entry is gone.
LEMMA AddrDropped ==
  ASSUME NEW T \in Tabs, NEW c, TabSound(T, c), NEW r \in Ref, T.index[r] = NONE,
         NEW N \in Tabs, N.addr = AddrDelete(T.addr, r), N.index = T.index, N.nbt = T.nbt, N.used = T.used
  PROVE  TabSound(N, c)
<1>0. T.addr \in AddrTabs
  BY DEF Tabs
<1>1. PICK b \in AddrTabs : b = N.addr /\ ~b[r].used /\ b[r].lock = T.addr[r].lock /\ \A q \in Ref \ {r} : b[q] = T.addr[q]
  BY <1>0, AddrDeleteFacts
<1>2. Indexed(N)
  BY <1>1 DEF TabSound, Indexed
<1>3. Unique(N.addr)
  <2>1. ASSUME NEW q \in Ref, NEW p \in Ref, b[q].used, b[p].used,
               b[q].short = b[p].short \/ (b[q].ieee = b[p].ieee /\ b[q].ieee \in Dev)
        PROVE  q = p
    <3>1. b[q] = T.addr[q] /\ b[p] = T.addr[p]
      BY <1>1, <2>1
    <3>. QED BY <2>1, <3>1 DEF TabSound, Unique
  <2>. QED BY <1>1, <2>1 DEF Unique
<1>4. Locked(N, c)
  BY <1>1 DEF TabSound, Locked
<1>5. Kinds(N, c)
  <2>1. ASSUME NEW q \in Ref, N.index[q] # NONE PROVE q # r /\ N.addr[q] = T.addr[q]
    BY <1>1, <2>1
  <2>. QED BY <2>1 DEF TabSound, Kinds, KindAt
<1>. QED BY <1>2, <1>3, <1>4, <1>5 DEF TabSound

LEMMA NeighborDeleteFacts ==
  ASSUME NEW T \in Tabs, NEW c, TabSound(T, c), NEW r \in Ref
  PROVE  LET N == NeighborDelete(T, r) IN
         /\ N \in Tabs /\ TabSound(N, c)
         /\ N.addr = T.addr /\ N.used = T.used /\ N.fault = T.fault
         /\ N.index[r] = NONE /\ \A q \in Ref \ {r} : N.index[q] = T.index[q]
<1>1. CASE T.index[r] = NONE
  BY <1>1 DEF NeighborDelete
<1>2. CASE T.index[r] # NONE
  <2>1. PICK i \in Slot : i = T.index[r]
    BY <1>2 DEF Tabs, Indexes
  <2>2. EmptyEnt \in Ents /\ ~EmptyEnt.used
    BY DEF EmptyEnt, Ents
  <2>3. PICK e \in Ents : e = EmptyEnt /\ ~e.used
    BY <2>2
  <2>4. PICK x \in Indexes, n \in NbtTabs : x = [T.index EXCEPT ![r] = NONE] /\ n = [T.nbt EXCEPT ![i] = e]
    BY DEF Tabs, Indexes, NbtTabs
  <2>5. /\ x[r] = NONE /\ \A q \in Ref \ {r} : x[q] = T.index[q]
        /\ ~n[i].used /\ \A j \in Slot \ {i} : n[j] = T.nbt[j]
    BY <2>3, <2>4 DEF Tabs, Indexes, NbtTabs
  <2>6. PICK N \in Tabs : N = NeighborDelete(T, r) /\ N.addr = T.addr /\ N.used = T.used /\ N.fault = T.fault
                          /\ N.index = x /\ N.nbt = n
    <3>1. NeighborDelete(T, r) = [T EXCEPT !.index[r] = NONE, !.nbt[i] = e]
      BY <1>2, <2>1, <2>3 DEF NeighborDelete
    <3>2. NeighborDelete(T, r) = [T EXCEPT !.index = x, !.nbt = n]
      BY <2>4, <3>1 DEF Tabs
    <3>. QED BY <3>2 DEF Tabs
  <2>7. \A q \in Ref \ {r} : x[q] # NONE => x[q] \in Slot \ {i}
    BY <2>1, <2>5 DEF TabSound, Indexed, Tabs, Indexes
  <2>8. Indexed(N)
    <3>1. ASSUME NEW q \in Ref, x[q] # NONE
          PROVE  x[q] < T.used /\ n[x[q]].used /\ n[x[q]].ref = q /\ T.addr[q].used
      BY <2>5, <2>7, <3>1 DEF TabSound, Indexed
    <3>2. ASSUME NEW j \in Slot, n[j].used PROVE n[j].ref \in Ref /\ x[n[j].ref] = j
      <4>1. j # i /\ n[j] = T.nbt[j]
        BY <2>5, <3>2
      <4>. QED BY <2>1, <2>5, <3>2, <4>1 DEF TabSound, Indexed
    <3>. QED BY <2>6, <3>1, <3>2 DEF Indexed
  <2>9. Locked(N, c) /\ Kinds(N, c)
    <3>1. ASSUME NEW q \in Ref, x[q] # NONE PROVE q # r /\ x[q] = T.index[q] /\ n[x[q]] = T.nbt[x[q]]
      BY <2>5, <2>7, <3>1
    <3>2. Locked(N, c)
      BY <2>6, <3>1 DEF TabSound, Locked
    <3>3. Kinds(N, c)
      BY <2>6, <3>1 DEF TabSound, Kinds, KindAt
    <3>. QED BY <3>2, <3>3
  <2>10. TabSound(N, c)
    BY <2>6, <2>8, <2>9 DEF TabSound
  <2>. QED BY <2>5, <2>6, <2>10
<1>. QED BY <1>1, <1>2

LEMMA ForgetDeviceFacts ==
  ASSUME NEW T \in Tabs, NEW c, TabSound(T, c), NEW r \in Ref
  PROVE  LET N == ForgetDevice(T, r) IN
         /\ N \in Tabs /\ TabSound(N, c)
         /\ N.addr = AddrDelete(T.addr, r) /\ N.used = T.used /\ N.fault = T.fault
<1>1. PICK D \in Tabs : D = NeighborDelete(T, r) /\ TabSound(D, c) /\ D.addr = T.addr /\ D.used = T.used
                        /\ D.fault = T.fault /\ D.index[r] = NONE
  BY NeighborDeleteFacts
<1>2. PICK b \in AddrTabs : b = AddrDelete(T.addr, r)
  BY AddrDeleteFacts DEF Tabs
<1>3. PICK N \in Tabs : N = ForgetDevice(T, r) /\ N.addr = b /\ N.index = D.index /\ N.nbt = D.nbt /\ N.used = D.used
                        /\ N.fault = D.fault
  <2>1. ForgetDevice(T, r) = [D EXCEPT !.addr = b]
    BY <1>1, <1>2 DEF ForgetDevice
  <2>. QED BY <2>1 DEF Tabs
<1>4. TabSound(N, c)
  BY <1>1, <1>2, <1>3, AddrDropped
<1>. QED BY <1>1, <1>2, <1>3, <1>4

-----------------------------------------------------------------------------
\* A lock changes no name.
SameNames(a, b) == \A q \in Ref : b[q].used = a[q].used /\ b[q].ieee = a[q].ieee /\ b[q].short = a[q].short
Relocked(a, b, r) == b \in AddrTabs /\ SameNames(a, b) /\ \A q \in Ref \ {r} : b[q] = a[q]

LEMMA Remainder ==
  ASSUME NEW x \in Nat, NEW m \in Nat \ {0}
  PROVE  x % m \in 0 .. m - 1
  OBVIOUS

LEMMA LockFacts ==
  ASSUME NEW a \in AddrTabs, NEW r \in Ref
  PROVE  Relocked(a, AddrLock(a, r), r) /\ Relocked(a, AddrUnlock(a, r), r)
<1>1. ASSUME NEW l \in 0 .. LockLimit - 1, NEW b, b = [a EXCEPT ![r].lock = l] PROVE Relocked(a, b, r)
  <2>1. b \in AddrTabs
    BY <1>1 DEF AddrTabs, Entries
  <2>2. \A q \in Ref \ {r} : b[q] = a[q]
    BY <1>1 DEF AddrTabs
  <2>3. b[r] = [a[r] EXCEPT !.lock = l]
    BY <1>1 DEF AddrTabs
  <2>4. b[r].used = a[r].used /\ b[r].ieee = a[r].ieee /\ b[r].short = a[r].short
    BY <2>3 DEF AddrTabs, Entries
  <2>. QED BY <2>1, <2>2, <2>4 DEF Relocked, SameNames
<1>2. PICK x \in Nat : x = a[r].lock
  BY DEF AddrTabs, Entries
<1>3. PICK l \in 0 .. LockLimit - 1 : l = (x + 1) % LockLimit
  <2>1. x + 1 \in Nat /\ LockLimit \in Nat \ {0}
    BY ChildConstants
  <2>. QED BY <2>1, Remainder
<1>4. PICK k \in 0 .. LockLimit - 1 : k = (x + LockLimit - 1) % LockLimit
  <2>1. x + LockLimit - 1 \in Nat /\ LockLimit \in Nat \ {0}
    BY ChildConstants
  <2>. QED BY <2>1, Remainder
<1>5. AddrLock(a, r) = [a EXCEPT ![r].lock = l]
  BY <1>2, <1>3 DEF AddrLock
<1>6. AddrUnlock(a, r) = [a EXCEPT ![r].lock = k]
  BY <1>2, <1>4 DEF AddrUnlock
<1>. QED BY <1>1, <1>5, <1>6

LEMMA UniqueNames ==
  ASSUME NEW a, NEW b, SameNames(a, b), Unique(a)
  PROVE  Unique(b)
  BY DEF SameNames, Unique

LEMMA WrittenUnique ==
  ASSUME NEW a, NEW b, NEW r, NEW d \in Dev, NEW s, Written(a, b, r, d, s), Alone(b, r, d, s), Unique(a)
  PROVE  Unique(b)
<1>1. ASSUME NEW q \in Ref, NEW p \in Ref, b[q].used, b[p].used,
             b[q].short = b[p].short \/ (b[q].ieee = b[p].ieee /\ b[q].ieee \in Dev)
      PROVE  q = p
  <2>1. CASE q = r \/ p = r
    BY <1>1, <2>1 DEF Written, Alone
  <2>2. CASE q # r /\ p # r
    <3>1. b[q] = a[q] /\ b[p] = a[p]
      BY <1>1, <2>2 DEF Written
    <3>. QED BY <1>1, <3>1 DEF Unique
  <2>. QED BY <2>1, <2>2
<1>. QED BY <1>1 DEF Unique

\* The devices an address table names.
NamesGrow(a, b, d, s) == \A e \in Dev, x \in Int : Entered(b, e, x) => Entered(a, e, x) \/ (e = d /\ x = s)
LEMMA WrittenGrow ==
  ASSUME NEW a, NEW b, NEW r, NEW d, NEW s, Written(a, b, r, d, s)
  PROVE  NamesGrow(a, b, d, s)
  BY DEF Written, NamesGrow, Entered

LEMMA GrowSame ==
  ASSUME NEW a, NEW b, NEW z, NEW d, NEW s, NamesGrow(a, b, d, s), SameNames(b, z)
  PROVE  NamesGrow(a, z, d, s)
  BY DEF SameNames, NamesGrow, Entered

-----------------------------------------------------------------------------
\* Accepting a child: an entry is marked as a child.
AlmostSound(T, c, r) ==
  /\ r \in Ref /\ Indexed(T) /\ Unique(T.addr) /\ Locked(T, c)
  /\ T.index[r] # NONE
  /\ \A q \in Ref \ {r} : T.index[q] # NONE => KindAt(T, c, q)
MayBe(T, c, r, cap) ==
  /\ T.addr[r].ieee \in Dev
  /\ IF IsRouter(cap) THEN Known(c, T.addr[r].short) ELSE EdBlock(T.addr[r].short)

LEMMA MarkedFacts ==
  ASSUME NEW T \in Tabs, NEW c, NEW r, AlmostSound(T, c, r), NEW cap \in Caps, MayBe(T, c, r, cap)
  PROVE  LET M == Marked(T, r, cap) IN
         M \in Tabs /\ M.addr = T.addr /\ M.used = T.used /\ M.fault = T.fault /\ TabSound(M, c)
<1>1. r \in Ref /\ T.index[r] # NONE
  BY DEF AlmostSound
<1>2. PICK i \in Slot : i = T.index[r]
  BY <1>1 DEF Tabs, Indexes
<1>3. PICK f \in Ents : f = T.nbt[i]
  BY DEF Tabs, NbtTabs
<1>4. PICK ty \in {"router", "ed"}, rx \in BOOLEAN : ty = (IF IsRouter(cap) THEN "router" ELSE "ed") /\ rx = RxOn(cap)
  BY DEF RxOn
<1>e. PICK e \in Ents : /\ e = [f EXCEPT !.type = ty, !.rxOn = rx, !.rel = "child"]
                        /\ e.used = f.used /\ e.ref = f.ref /\ e.rel = "child" /\ e.type = ty
  <2>1. [f EXCEPT !.type = ty, !.rxOn = rx, !.rel = "child"] \in Ents
    BY DEF Ents
  <2>. QED BY <2>1 DEF Ents
<1>5. PICK n \in NbtTabs : n = [T.nbt EXCEPT ![i] = e] /\ n[i] = e /\ \A j \in Slot \ {i} : n[j] = T.nbt[j]
  <2>1. PICK m \in [Slot -> Ents] : m = T.nbt
    BY DEF Tabs, NbtTabs
  <2>2. /\ [m EXCEPT ![i] = e] \in [Slot -> Ents] /\ [m EXCEPT ![i] = e][i] = e
        /\ \A j \in Slot \ {i} : [m EXCEPT ![i] = e][j] = m[j]
    OBVIOUS
  <2>. QED BY <2>1, <2>2 DEF NbtTabs
<1>6. PICK M \in Tabs : M = Marked(T, r, cap) /\ M.addr = T.addr /\ M.index = T.index /\ M.nbt = n /\ M.used = T.used
                        /\ M.fault = T.fault
  <2>1. Marked(T, r, cap) = [T EXCEPT !.nbt = n]
    <3>1. Marked(T, r, cap) = [T EXCEPT !.nbt[i].type = ty, !.nbt[i].rxOn = rx, !.nbt[i].rel = "child"]
      BY <1>2, <1>4 DEF Marked
    <3>2. T.nbt \in [Slot -> Ents] /\ T.nbt[i] = f
      BY <1>3 DEF Tabs, NbtTabs
    <3>3. [T EXCEPT !.nbt[i].type = ty, !.nbt[i].rxOn = rx, !.nbt[i].rel = "child"]
          = [T EXCEPT !.nbt = [T.nbt EXCEPT ![i] = [f EXCEPT !.type = ty, !.rxOn = rx, !.rel = "child"]]]
      BY <3>2 DEF Tabs
    <3>. QED BY <1>e, <1>5, <3>1, <3>3
  <2>. QED BY <2>1 DEF Tabs
<1>7. \A j \in Slot : n[j].used = T.nbt[j].used /\ n[j].ref = T.nbt[j].ref
  BY <1>3, <1>e, <1>5
<1>8. \A q \in Ref : T.index[q] # NONE => T.index[q] \in Slot
  BY DEF Tabs, Indexes
<1>9. Indexed(M)
  BY <1>6, <1>7, <1>8 DEF AlmostSound, Indexed
<1>10. Unique(M.addr) /\ Locked(M, c)
  BY <1>6 DEF AlmostSound, Locked
<1>11. Kinds(M, c)
  <2>1. ASSUME NEW q \in Ref, T.index[q] # NONE, q # r PROVE KindAt(M, c, q)
    <3>1. T.index[q] # i
      BY <1>2, <1>1, <2>1 DEF AlmostSound, Indexed
    <3>2. n[T.index[q]] = T.nbt[T.index[q]]
      BY <1>5, <1>8, <2>1, <3>1
    <3>3. KindAt(T, c, q)
      BY <2>1 DEF AlmostSound
    <3>. QED BY <1>6, <3>2, <3>3 DEF KindAt
  <2>2. KindAt(M, c, r)
    <3>1. M.nbt[M.index[r]] = e /\ M.addr[r] = T.addr[r]
      BY <1>2, <1>5, <1>6
    <3>2. e.type = ty /\ e.rel = "child"
      BY <1>e
    <3>. QED BY <1>4, <3>1, <3>2 DEF KindAt, MayBe
  <2>. QED BY <1>6, <2>1, <2>2 DEF Kinds
<1>. QED BY <1>6, <1>9, <1>10, <1>11 DEF TabSound

\* What is known grows with the counters.
LEMMA SoundMore ==
  ASSUME NEW T, NEW c, NEW c2, \A s \in Int : Known(c, s) => Known(c2, s), T \in Tabs
  PROVE  /\ TabSound(T, c) => TabSound(T, c2)
         /\ \A r : AlmostSound(T, c, r) => AlmostSound(T, c2, r)
<1>1. \A r \in Ref : T.addr[r].short \in Int
  BY DEF Tabs, AddrTabs, Entries
<1>2. \A r \in Ref : KindAt(T, c, r) => KindAt(T, c2, r)
  BY <1>1 DEF KindAt
<1>3. Locked(T, c) => Locked(T, c2)
  BY <1>1 DEF Locked
<1>. QED BY <1>2, <1>3 DEF TabSound, AlmostSound, Kinds

\* A new entry of the neighbor table.
LEMMA NeighborCreateFacts ==
  ASSUME NEW T \in Tabs, NEW c, TabSound(T, c), NEW r \in Ref, T.addr[r].used, T.index[r] = NONE,
         nbtSize \in 0 .. Size, T.used < nbtSize
  PROVE  LET N == NeighborCreate(T, r) IN
         /\ N \in Tabs /\ SameNames(T.addr, N.addr) /\ N.used = T.used + 1
         /\ N.fault = "none" => AlmostSound(N, c, r)
<1>1. PICK a \in AddrTabs : a = AddrLock(T.addr, r) /\ Relocked(T.addr, a, r)
  <2>1. T.addr \in AddrTabs
    BY DEF Tabs
  <2>. QED BY <2>1, LockFacts DEF Relocked
<1>0. T.used \in 0 .. Size /\ Size \in Nat
  BY ChildConstants DEF Tabs
<1>2. PICK i \in Slot : i = T.used
  BY <1>0 DEF Slot
<1>3. PICK e \in Ents : e = NewEnt(r) /\ e.used /\ e.ref = r
  <2>1. NewEnt(r) \in Ents /\ NewEnt(r).used /\ NewEnt(r).ref = r
    BY DEF Ents, NewEnt
  <2>. QED BY <2>1
<1>4. PICK x \in Indexes : x = [T.index EXCEPT ![r] = i] /\ x[r] = i /\ \A q \in Ref \ {r} : x[q] = T.index[q]
  <2>1. PICK y \in [Ref -> Slot \cup {NONE}] : y = T.index
    BY DEF Tabs, Indexes
  <2>2. /\ [y EXCEPT ![r] = i] \in [Ref -> Slot \cup {NONE}] /\ [y EXCEPT ![r] = i][r] = i
        /\ \A q \in Ref \ {r} : [y EXCEPT ![r] = i][q] = y[q]
    OBVIOUS
  <2>. QED BY <2>1, <2>2 DEF Indexes
<1>5. PICK n \in NbtTabs : n = [T.nbt EXCEPT ![i] = e] /\ n[i] = e /\ \A j \in Slot \ {i} : n[j] = T.nbt[j]
  <2>1. PICK m \in [Slot -> Ents] : m = T.nbt
    BY DEF Tabs, NbtTabs
  <2>2. /\ [m EXCEPT ![i] = e] \in [Slot -> Ents] /\ [m EXCEPT ![i] = e][i] = e
        /\ \A j \in Slot \ {i} : [m EXCEPT ![i] = e][j] = m[j]
    OBVIOUS
  <2>. QED BY <2>1, <2>2 DEF NbtTabs
<1>6. PICK u \in 0 .. Size : u = T.used + 1 /\ u = i + 1
  BY <1>0, <1>2
<1>7. PICK f \in Faults : f = (IF a[r].lock = 0 THEN "locks" ELSE T.fault)
  BY DEF Tabs, Faults
<1>8. PICK N \in Tabs : N = NeighborCreate(T, r) /\ N.addr = a /\ N.index = x /\ N.nbt = n /\ N.used = u /\ N.fault = f
  <2>1. NeighborCreate(T, r) = [T EXCEPT !.addr = a, !.index[r] = i, !.nbt[i] = e, !.used = u, !.fault = f]
    BY <1>1, <1>2, <1>3, <1>6, <1>7 DEF NeighborCreate
  <2>2. [T EXCEPT !.addr = a, !.index[r] = i, !.nbt[i] = e, !.used = u, !.fault = f]
        = [T EXCEPT !.addr = a, !.index = [T.index EXCEPT ![r] = i], !.nbt = [T.nbt EXCEPT ![i] = e], !.used = u, !.fault = f]
    BY DEF Tabs
  <2>3. PICK N : N = [T EXCEPT !.addr = a, !.index = x, !.nbt = n, !.used = u, !.fault = f]
    OBVIOUS
  <2>4. N = NeighborCreate(T, r)
    BY <1>4, <1>5, <2>1, <2>2, <2>3
  <2>5. N.addr = a /\ N.index = x /\ N.nbt = n /\ N.used = u /\ N.fault = f
    BY <2>3 DEF Tabs
  <2>6. N \in Tabs
    BY <2>3 DEF Tabs
  <2>. QED BY <2>4, <2>5, <2>6
<1>9. \A q \in Ref \ {r} : x[q] = T.index[q] /\ (x[q] # NONE => x[q] \in Slot \ {i} /\ x[q] < T.used)
  BY <1>2, <1>4, Basics DEF TabSound, Indexed, Tabs, Indexes
<1>10. SameNames(T.addr, a)
  BY <1>1 DEF Relocked
<1>11. Indexed(N)
  <2>1. ASSUME NEW q \in Ref, x[q] # NONE PROVE x[q] < u /\ n[x[q]].used /\ n[x[q]].ref = q /\ a[q].used
    <3>1. CASE q = r
      BY <1>3, <1>4, <1>5, <1>6, <1>10, <2>1, <3>1, Basics DEF SameNames
    <3>2. CASE q # r
      <4>1. x[q] = T.index[q] /\ T.index[q] # NONE /\ n[x[q]] = T.nbt[x[q]] /\ x[q] < u
        BY <1>2, <1>5, <1>6, <1>9, <2>1, <3>2, Basics
      <4>. QED BY <1>10, <4>1 DEF SameNames, TabSound, Indexed
    <3>. QED BY <3>1, <3>2
  <2>2. ASSUME NEW j \in Slot, n[j].used PROVE n[j].ref \in Ref /\ x[n[j].ref] = j
    <3>1. CASE j = i
      BY <1>3, <1>4, <1>5, <3>1
    <3>2. CASE j # i
      <4>1. n[j] = T.nbt[j]
        BY <1>5, <3>2
      <4>2. T.nbt[j].ref \in Ref /\ T.index[T.nbt[j].ref] = j
        BY <2>2, <4>1 DEF TabSound, Indexed
      <4>3. T.nbt[j].ref # r
        BY <4>2, Basics
      <4>. QED BY <1>4, <4>1, <4>2, <4>3
    <3>. QED BY <3>1, <3>2
  <2>. QED BY <1>8, <2>1, <2>2 DEF Indexed
<1>12. Unique(N.addr)
  BY <1>8, <1>10, UniqueNames DEF TabSound
<1>13. f = "none" => Locked(N, c)
  <2>1. ASSUME f = "none", NEW q \in Ref, x[q] # NONE, a[q].lock = 0 PROVE Known(c, a[q].short)
    <3>1. q # r
      BY <1>7, <2>1
    <3>2. a[q] = T.addr[q] /\ T.index[q] # NONE
      BY <1>1, <1>9, <2>1, <3>1 DEF Relocked
    <3>. QED BY <2>1, <3>2 DEF TabSound, Locked
  <2>. QED BY <1>8, <2>1 DEF Locked
<1>14. \A q \in Ref \ {r} : x[q] # NONE => KindAt(N, c, q)
  <2>1. ASSUME NEW q \in Ref \ {r}, x[q] # NONE PROVE KindAt(N, c, q)
    <3>1. KindAt(T, c, q)
      BY <1>9, <2>1 DEF TabSound, Kinds
    <3>2. N.addr[q] = T.addr[q] /\ N.index[q] = T.index[q] /\ N.nbt[N.index[q]] = T.nbt[T.index[q]]
      BY <1>1, <1>5, <1>8, <1>9, <2>1 DEF Relocked
    <3>. QED BY <3>1, <3>2 DEF KindAt
  <2>. QED BY <2>1
<1>. QED BY <1>4, <1>6, <1>8, <1>10, <1>11, <1>12, <1>13, <1>14, Basics DEF AlmostSound

-----------------------------------------------------------------------------
\* A device that is no neighbor enters the tables.
Absent(T, d) == \A q \in Ref : T.addr[q].used /\ T.addr[q].ieee = d => T.index[q] = NONE

Replacing(N, T, a, f) ==
  N \in Tabs /\ N.addr = a /\ N.index = T.index /\ N.nbt = T.nbt /\ N.used = T.used /\ N.fault = f
LEMMA Replaced ==
  ASSUME NEW T \in Tabs, NEW a \in AddrTabs
  PROVE  /\ \A f \in Faults : Replacing([T EXCEPT !.addr = a, !.fault = f], T, a, f)
         /\ Replacing([T EXCEPT !.addr = a], T, a, T.fault)
<1>1. ASSUME NEW f \in Faults, NEW N, N = [T EXCEPT !.addr = a, !.fault = f] PROVE Replacing(N, T, a, f)
  <2>1. N.addr = a /\ N.index = T.index /\ N.nbt = T.nbt /\ N.used = T.used /\ N.fault = f
    BY <1>1 DEF Tabs
  <2>2. N \in Tabs
    BY <1>1 DEF Tabs
  <2>. QED BY <2>1, <2>2 DEF Replacing
<1>2. ASSUME NEW N, N = [T EXCEPT !.addr = a] PROVE Replacing(N, T, a, T.fault)
  <2>1. N.addr = a /\ N.index = T.index /\ N.nbt = T.nbt /\ N.used = T.used /\ N.fault = T.fault
    BY <1>2 DEF Tabs
  <2>2. N \in Tabs
    BY <1>2 DEF Tabs
  <2>. QED BY <2>1, <2>2 DEF Replacing
<1>. QED BY <1>1, <1>2

LEMMA EnteredBase ==
  ASSUME NEW T \in Tabs, NEW c, TabSound(T, c), NEW d \in Dev, NEW s \in Int, ~Known(c, s),
         Absent(T, d),
         NEW b, NEW r, Written(T.addr, b, r, d, s), Alone(b, r, d, s), NEW l, Relocked(b, l, r),
         NEW N \in Tabs, N.addr = l, N.index = T.index, N.nbt = T.nbt, N.used = T.used
  PROVE  /\ T.index[r] = NONE => TabSound(N, c)
         /\ T.index[r] # NONE /\ l[r].lock # 0 => AlmostSound(N, c, r)
<1>1. r \in Ref /\ l[r].used
  BY DEF Written, Relocked, SameNames
<1>2. ASSUME NEW q \in Ref \ {r}, T.index[q] # NONE PROVE l[q] = T.addr[q] /\ T.addr[q].used
  <2>1. T.addr[q].used
    BY <1>2 DEF TabSound, Indexed
  <2>2. T.addr[q].lock = 0 => T.addr[q].short # s
    BY <1>2 DEF TabSound, Locked
  <2>3. T.addr[q].ieee # d
    BY <1>2, <2>1 DEF Absent
  <2>4. b[q] = T.addr[q]
    BY <2>1, <2>2, <2>3 DEF Written
  <2>. QED BY <2>1, <2>4 DEF Relocked
<1>3. Indexed(N)
  BY <1>1, <1>2 DEF TabSound, Indexed
<1>4. Unique(l)
  BY WrittenUnique, UniqueNames DEF Relocked, TabSound
<1>5. \A q \in Ref \ {r} : T.index[q] # NONE => (l[q].lock = 0 => Known(c, l[q].short)) /\ KindAt(N, c, q)
  <2>1. ASSUME NEW q \in Ref \ {r}, T.index[q] # NONE
        PROVE  (l[q].lock = 0 => Known(c, l[q].short)) /\ KindAt(N, c, q)
    <3>1. l[q] = T.addr[q]
      BY <1>2, <2>1
    <3>2. KindAt(T, c, q) /\ (T.addr[q].lock = 0 => Known(c, T.addr[q].short))
      BY <2>1 DEF TabSound, Kinds, Locked
    <3>. QED BY <3>1, <3>2 DEF KindAt
  <2>. QED BY <2>1
<1>6. CASE T.index[r] = NONE
  <2>1. Locked(N, c) /\ Kinds(N, c)
    BY <1>5, <1>6 DEF Locked, Kinds
  <2>. QED BY <1>3, <1>4, <1>6, <2>1 DEF TabSound
<1>7. CASE T.index[r] # NONE /\ l[r].lock # 0
  <2>1. Locked(N, c)
    BY <1>5, <1>7 DEF Locked
  <2>. QED BY <1>1, <1>3, <1>4, <1>5, <1>7, <2>1 DEF AlmostSound
<1>. QED BY <1>6, <1>7

LEMMA EnterFacts ==
  ASSUME NEW T \in Tabs, T.fault = "none", NEW c, TabSound(T, c), NEW d \in Dev, NEW s \in Int, ~Known(c, s),
         Absent(T, d),
         nbtSize \in 0 .. Size, T.used <= nbtSize
  PROVE  LET E == Enter(T, d, s)
             N == E.tables
         IN  /\ N \in Tabs /\ N.used <= nbtSize /\ NamesGrow(T.addr, N.addr, d, s)
             /\ ~E.ok /\ N.fault = "none" => TabSound(N, c)
             /\ E.ok \in BOOLEAN
             /\ E.ok /\ N.fault = "none" => AlmostSound(N, c, E.ref) /\ N.addr[E.ref].ieee = d /\ N.addr[E.ref].short = s
<1>0. PICK a \in AddrTabs : a = T.addr /\ Unique(a)
  BY DEF Tabs, TabSound
<1>1. PICK U : U = AddrUpdate(a, d, s)
  OBVIOUS
<1>2. \/ ~U.ok /\ U.tab = a /\ U.fault \in {"none", "conflict"}
      \/ U.ok /\ U.fault = "none" /\ Written(a, U.tab, U.ref, d, s) /\ Alone(U.tab, U.ref, d, s)
  BY <1>0, <1>1, AddrUpdateFacts
<1>3. CASE ~U.ok
  <2>1. PICK f \in Faults : f = U.fault
    BY <1>2, <1>3 DEF Faults
  <2>2. f # "none" => f = U.fault
    BY <2>1
  <2>3. PICK N : N = [T EXCEPT !.addr = a, !.fault = f] /\ Replacing(N, T, a, f)
    BY Replaced
  <2>r. N \in Tabs /\ N.addr = a /\ N.index = T.index /\ N.nbt = T.nbt /\ N.used = T.used /\ N.fault = f
    BY <2>3 DEF Replacing
  <2>4. Enter(T, d, s) = [ok |-> FALSE, ref |-> NONE, tables |-> N]
    BY <1>0, <1>1, <1>2, <1>3, <2>1, <2>3 DEF Enter
  <2>5. NamesGrow(a, a, d, s)
    BY DEF NamesGrow
  <2>6. TabSound(N, c)
    BY <1>0, <2>r DEF TabSound, Indexed, Locked, Kinds, KindAt
  <2>. QED BY <1>0, <1>3, <2>r, <2>4, <2>5, <2>6
<1>4. CASE U.ok
  <2>1. PICK b \in AddrTabs, r \in Ref : /\ b = U.tab /\ r = U.ref /\ U.fault = "none"
                                         /\ Written(a, b, r, d, s) /\ Alone(b, r, d, s)
    BY <1>2, <1>4 DEF Written
  <2>2. PICK l \in AddrTabs : l = AddrLock(b, r) /\ Relocked(b, l, r)
    BY LockFacts DEF Relocked
  <2>3. NamesGrow(a, l, d, s) /\ l[r].used /\ l[r].ieee = d /\ l[r].short = s
    <3>1. NamesGrow(a, b, d, s)
      BY <2>1, WrittenGrow
    <3>2. SameNames(b, l)
      BY <2>2 DEF Relocked
    <3>3. NamesGrow(a, l, d, s)
      BY <3>1, <3>2, GrowSame
    <3>. QED BY <2>1, <3>2, <3>3 DEF Written, SameNames
  <2>4. PICK f \in Faults : f = (IF l[r].lock = 0 THEN "locks" ELSE "none")
    BY DEF Faults
  <2>p. PICK N : N = [T EXCEPT !.addr = l, !.fault = f] /\ Replacing(N, T, l, f)
    BY Replaced
  <2>5. N \in Tabs /\ N.addr = l /\ N.index = T.index /\ N.nbt = T.nbt /\ N.used = T.used /\ N.fault = f
    BY <2>p DEF Replacing
  <2>6. N = [T EXCEPT !.addr = (IF U.ok THEN AddrLock(U.tab, U.ref) ELSE U.tab),
                      !.fault = IF U.fault # "none" THEN U.fault
                                ELSE IF U.ok /\ (IF U.ok THEN AddrLock(U.tab, U.ref) ELSE U.tab)[U.ref].lock = 0 THEN "locks" ELSE "none"]
    BY <1>4, <2>1, <2>2, <2>4, <2>p
  <2>7. Enter(T, d, s) = IF N.index[r] # NONE THEN [ok |-> TRUE, ref |-> r, tables |-> N]
                         ELSE IF NoRoom(N)
                              THEN [ok |-> FALSE, ref |-> NONE, tables |-> [N EXCEPT !.addr = AddrUnlock(l, r)]]
                         ELSE [ok |-> TRUE, ref |-> r, tables |-> NeighborAdd(N, r)]
    BY <1>0, <1>1, <1>4, <2>1, <2>2, <2>6 DEF Enter
  <2>8. /\ T.index[r] = NONE => TabSound(N, c)
        /\ T.index[r] # NONE /\ l[r].lock # 0 => AlmostSound(N, c, r)
    <3>1. Written(T.addr, b, r, d, s) /\ Alone(b, r, d, s) /\ Relocked(b, l, r)
      BY <1>0, <2>1, <2>2
    <3>. QED BY <2>5, <3>1, EnteredBase
  <2>9. CASE T.index[r] # NONE
    <3>1. Enter(T, d, s) = [ok |-> TRUE, ref |-> r, tables |-> N]
      BY <2>5, <2>7, <2>9
    <3>2. f = "none" => AlmostSound(N, c, r)
      BY <2>4, <2>8, <2>9
    <3>. QED BY <1>0, <2>3, <2>5, <3>1, <3>2
  <2>10. CASE T.index[r] = NONE /\ NoRoom(N)
    <3>1. PICK k \in AddrTabs : k = AddrUnlock(l, r) /\ Relocked(l, k, r)
      BY LockFacts DEF Relocked
    <3>2. PICK M \in Tabs : M = [N EXCEPT !.addr = AddrUnlock(l, r)] /\ M.addr = k /\ M.index = T.index /\ M.nbt = T.nbt
                            /\ M.used = T.used /\ M.fault = f
      <4>1. PICK M : M = [N EXCEPT !.addr = k] /\ Replacing(M, N, k, N.fault)
        BY <2>5, Replaced
      <4>2. M \in Tabs /\ M.addr = k /\ M.index = N.index /\ M.nbt = N.nbt /\ M.used = N.used /\ M.fault = N.fault
        BY <4>1 DEF Replacing
      <4>. QED BY <2>5, <3>1, <4>1, <4>2
    <3>3. Enter(T, d, s) = [ok |-> FALSE, ref |-> NONE, tables |-> M]
      BY <2>5, <2>7, <2>10, <3>2
    <3>4. Relocked(b, k, r) /\ SameNames(l, k)
      BY <2>2, <3>1 DEF Relocked, SameNames
    <3>5. TabSound(M, c)
      <4>1. Written(T.addr, b, r, d, s) /\ Alone(b, r, d, s) /\ Relocked(b, k, r)
        BY <1>0, <2>1, <3>4
      <4>. QED BY <2>10, <3>2, <4>1, EnteredBase
    <3>6. NamesGrow(a, k, d, s)
      BY <2>3, <3>4, GrowSame
    <3>7. M \in Tabs /\ M.used <= nbtSize /\ NamesGrow(T.addr, M.addr, d, s)
      BY <1>0, <3>2, <3>6
    <3>8. Enter(T, d, s).tables = M /\ ~Enter(T, d, s).ok /\ Enter(T, d, s).ok \in BOOLEAN
      BY <3>3
    <3>. QED BY <3>5, <3>7, <3>8
  <2>11. CASE T.index[r] = NONE /\ ~NoRoom(N)
    <3>0. N.used \in Int /\ nbtSize \in Int
      BY <2>5, ChildConstants DEF Tabs
    <3>1. PICK M : M = NeighborAdd(N, r) /\ Enter(T, d, s) = [ok |-> TRUE, ref |-> r, tables |-> M]
      BY <2>5, <2>7, <2>11
    <3>2. CASE N.used >= nbtSize
      <4>1. M = [N EXCEPT !.fault = "overrun"]
        BY <3>1, <3>2 DEF NeighborAdd
      <4>2. M \in Tabs /\ M.addr = l /\ M.used = T.used /\ M.fault = "overrun"
        BY <2>5, <4>1 DEF Tabs, Faults
      <4>. QED BY <1>0, <2>3, <3>1, <4>2
    <3>3. CASE N.used < nbtSize
      <4>1. M = NeighborCreate(N, r)
        <5>1. ~(N.used >= nbtSize)
          BY <3>0, <3>3
        <5>. QED BY <3>1, <5>1 DEF NeighborAdd
      <4>2. /\ M \in Tabs /\ SameNames(N.addr, M.addr) /\ M.used = N.used + 1
            /\ M.fault = "none" => AlmostSound(M, c, r)
        BY <2>3, <2>5, <2>8, <2>11, <3>3, <4>1, NeighborCreateFacts
      <4>3. NamesGrow(a, M.addr, d, s)
        BY <2>3, <2>5, <4>2, GrowSame
      <4>4. M.addr[r].ieee = d /\ M.addr[r].short = s
        BY <2>3, <2>5, <4>2 DEF SameNames
      <4>5. M.used <= nbtSize
        BY <3>0, <3>3, <4>2
      <4>. QED BY <1>0, <3>1, <4>2, <4>3, <4>4, <4>5
    <3>4. N.used >= nbtSize \/ N.used < nbtSize
      BY <3>0
    <3>. QED BY <3>2, <3>3, <3>4
  <2>. QED BY <2>9, <2>10, <2>11
<1>. QED BY <1>2, <1>3, <1>4

-----------------------------------------------------------------------------
\* The addresses handed out.
LimitedBy(c) == Cskip > 1 => c.router + c.ed <= MaxChildren
AtLeast(c, c2) == c.router <= c2.router /\ c.ed <= c2.ed
Allowed(c, d, a) == a = NONE \/ (Given(c, freed, a) /\ \A e \in Dev : e # d /\ Holds(e, a) => a \in freed)

LEMMA CountersInt ==
  \A c \in Counters : c.router \in Nat /\ c.router <= MaxRouters /\ c.ed \in Nat /\ c.ed < ByteLimit
  BY ChildConstants DEF Counters

LEMMA GivenMore ==
  ASSUME NEW c \in Counters, NEW c2 \in Counters, AtLeast(c, c2)
  PROVE  /\ \A s : Known(c, s) => Known(c2, s)
         /\ \A s, f : Given(c, f, s) => Given(c2, f, s)
<1>1. 0 .. c.router - 1 \subseteq 0 .. c2.router - 1 /\ 0 .. c.ed - 1 \subseteq 0 .. c2.ed - 1
  BY CountersInt DEF AtLeast
<1>2. \A s : (GivenR(c, s) => GivenR(c2, s)) /\ (GivenE(c, s) => GivenE(c2, s))
  BY <1>1 DEF GivenR, GivenE
<1>. QED BY <1>2 DEF Known, Given

\* Addresses of routers and of end devices are different ones, and none is heard from elsewhere.
LEMMA BlocksApart ==
  /\ \A c \in Counters : \A s : GivenR(c, s) => ~EdBlock(s) /\ s \notin Heard /\ s \in Nat
  /\ \A s : EdBlock(s) => s \notin Heard /\ s \in Nat
<1>1. ASSUME NEW c \in Counters, NEW s, GivenR(c, s) PROVE ~EdBlock(s) /\ s \notin Heard /\ s \in Nat
  <2>1. PICK k \in 0 .. c.router - 1 : s = RAddr(k)
    BY <1>1 DEF GivenR
  <2>2. k \in Nat /\ k < MaxRouters
    BY <2>1, CountersInt, ChildConstants
  <2>3. s \in Nat /\ s <= OwnAddr + MaxRouters * Cskip
    BY <2>1, <2>2, Blocks
  <2>4. ASSUME NEW j \in 0 .. MaxChildren - 1, s = EAddr(j) PROVE FALSE
    <3>1. j \in Nat /\ OwnAddr + MaxRouters * Cskip \in Nat
      BY ChildConstants, CskipPositive
    <3>2. s > OwnAddr + MaxRouters * Cskip
      BY <2>4, <3>1, Blocks
    <3>. QED BY <2>3, <3>1, <3>2
  <2>5. s \notin Heard
    <3>1. 0 \in 0 .. MaxChildren - 1 /\ k \in 0 .. MaxRouters - 1
      BY <2>2, ChildConstants
    <3>2. RouterAddress([router |-> k, ed |-> 0]) = s
      BY <2>1 DEF RouterAddress, RAddr
    <3>. QED BY <3>1, <3>2, HeardAssumption
  <2>. QED BY <2>3, <2>4, <2>5 DEF EdBlock
<1>2. ASSUME NEW s, EdBlock(s) PROVE s \notin Heard /\ s \in Nat
  <2>1. PICK k \in 0 .. MaxChildren - 1 : s = EAddr(k)
    BY <1>2 DEF EdBlock
  <2>2. k \in Nat /\ 0 \in 0 .. MaxRouters - 1
    BY <2>1, ChildConstants
  <2>3. EdAddress([router |-> 0, ed |-> k]) = s
    BY <2>1 DEF EdAddress, EAddr
  <2>. QED BY <2>1, <2>2, <2>3, Blocks, HeardAssumption
<1>. QED BY <1>1, <1>2

LEMMA FreshAddress ==
  ASSUME Typed, Owners, Limited, NEW d \in Dev, NEW cap \in Caps, HasRoom(cap),
         NEW a, a = IF IsRouter(cap) THEN RouterAddress(childNum) ELSE EdAddress(childNum)
  PROVE  /\ a \in Nat /\ ~Known(childNum, a) /\ Allowed(Counted(cap), d, a)
         /\ Counted(cap) \in Counters /\ LimitedBy(Counted(cap)) /\ AtLeast(childNum, Counted(cap))
         /\ IF IsRouter(cap) THEN Known(Counted(cap), a) ELSE EdBlock(a)
<1>1. PICK r \in Nat, e \in Nat : r = childNum.router /\ e = childNum.ed /\ r <= MaxRouters /\ e < ByteLimit
                                 /\ childNum = [router |-> r, ed |-> e]
  <2>1. childNum \in Counters
    BY DEF Typed
  <2>. QED BY <2>1, CountersInt DEF Counters
<1>2. MaxChildren > e + r
  BY <1>1 DEF HasRoom
<1>3. OwnAddr + MaxRouters * Cskip \in Nat
  BY ChildConstants, CskipPositive
<1>4. CASE IsRouter(cap)
  <2>1. a = RAddr(r) /\ r < MaxRouters /\ r \in 0 .. MaxRouters - 1
    BY <1>1, <1>4, ChildConstants DEF RouterAddress, RAddr, HasRoom
  <2>2. PICK c : c = Counted(cap) /\ c = [router |-> r + 1, ed |-> e]
    BY <1>1, <1>4 DEF Counted
  <2>3. c \in Counters /\ LimitedBy(c) /\ AtLeast(childNum, c)
    BY <1>1, <1>2, <2>1, <2>2, ChildConstants DEF Counters, LimitedBy, AtLeast
  <2>4. GivenR(c, a)
    BY <2>1, <2>2 DEF GivenR
  <2>5. a \in Nat /\ a \notin Heard /\ ~EdBlock(a)
    BY <2>3, <2>4, BlocksApart
  <2>6. ~GivenR(childNum, a)
    <3>1. ASSUME NEW k \in 0 .. r - 1, RAddr(r) = RAddr(k) PROVE FALSE
      BY <3>1, Blocks
    <3>. QED BY <1>1, <2>1, <3>1 DEF GivenR
  <2>7. \A x \in Dev : ~Holds(x, a)
    BY <2>5, <2>6 DEF Owners, Given
  <2>8. Known(c, a)
    BY <2>4 DEF Known
  <2>9. ~Known(childNum, a)
    BY <2>5, <2>6 DEF Known
  <2>10. Allowed(c, d, a)
    BY <2>4, <2>7 DEF Allowed, Given
  <2>. QED BY <1>4, <2>2, <2>3, <2>5, <2>8, <2>9, <2>10
<1>5. CASE ~IsRouter(cap)
  <2>1. a = EAddr(e) /\ e \in 0 .. MaxChildren - 1
    BY <1>1, <1>2, <1>5, ChildConstants DEF EdAddress, EAddr
  <2>2. PICK c : c = Counted(cap) /\ c = [router |-> r, ed |-> e + 1]
    BY <1>1, <1>5 DEF Counted
  <2>3. c \in Counters /\ LimitedBy(c) /\ AtLeast(childNum, c)
    BY <1>1, <1>2, <2>2, ChildConstants DEF Counters, LimitedBy, AtLeast
  <2>4. EdBlock(a) /\ GivenE(c, a)
    BY <2>1, <2>2 DEF GivenE, EdBlock
  <2>5. a \in Nat /\ a \notin Heard
    BY <2>4, BlocksApart
  <2>6. ~GivenR(childNum, a)
    BY <2>4, BlocksApart DEF Typed
  <2>7. ~GivenE(childNum, a)
    <3>1. ASSUME NEW k \in 0 .. e - 1, EAddr(e) = EAddr(k) PROVE FALSE
      BY <3>1, Blocks
    <3>. QED BY <1>1, <2>1, <3>1 DEF GivenE
  <2>8. \A x \in Dev : Holds(x, a) => a \in freed
    BY <2>5, <2>6, <2>7 DEF Owners, Given
  <2>9. ~Known(childNum, a)
    BY <2>5, <2>6 DEF Known
  <2>10. Allowed(c, d, a)
    BY <2>4, <2>8 DEF Allowed, Given
  <2>. QED BY <1>5, <2>2, <2>3, <2>4, <2>5, <2>9, <2>10
<1>. QED BY <1>4, <1>5

LEMMA NoNeighborLeft ==
  ASSUME NEW d \in Dev, TabSound(T0, childNum), T0 \in Tabs
  PROVE  LET K == NeighborByIeee(T0, d)
             T == IF K # {} THEN NeighborDelete(T0, The(K)) ELSE T0
         IN  /\ T \in Tabs /\ TabSound(T, childNum) /\ Absent(T, d) /\ T.addr = T0.addr /\ T.used = T0.used
             /\ T.fault = T0.fault
<1>. DEFINE K == NeighborByIeee(T0, d)
<1>1. CASE K = {}
  <2>1. Absent(T0, d)
    BY <1>1 DEF NeighborByIeee, IeeeSearch, Absent
  <2>. QED BY <1>1, <2>1
<1>2. CASE K # {}
  <2>1. The(K) \in K
    BY <1>2, Chosen
  <2>2. PICK k \in Ref : k = The(K) /\ T0.addr[k].used /\ T0.addr[k].ieee = d
    BY <2>1 DEF NeighborByIeee, IeeeSearch
  <2>. HIDE DEF K
  <2>3. PICK T \in Tabs : /\ T = NeighborDelete(T0, k) /\ TabSound(T, childNum) /\ T.addr = T0.addr /\ T.used = T0.used
                          /\ T.fault = T0.fault /\ T.index[k] = NONE
    BY NeighborDeleteFacts
  <2>4. Absent(T, d)
    <3>1. ASSUME NEW q \in Ref, T0.addr[q].used, T0.addr[q].ieee = d PROVE q = k
      BY <2>2, <3>1 DEF TabSound, Unique
    <3>. QED BY <2>3, <3>1 DEF Absent
  <2>. QED BY <1>2, <2>2, <2>3, <2>4 DEF K
<1>. QED BY <1>1, <1>2

Accepted(R, d) ==
  /\ R.tables \in Tabs /\ R.tables.used <= nbtSize
  /\ R.num \in Counters /\ LimitedBy(R.num) /\ AtLeast(childNum, R.num)
  /\ R.short \in Int
  /\ \E a \in Int : NamesGrow(addr, R.tables.addr, d, a) /\ R.short \in {a, NONE} /\ Allowed(R.num, d, a)
  /\ R.tables.fault = "none" => TabSound(R.tables, R.num)

LEMMA AcceptFacts ==
  ASSUME ChildInv, Ok, NEW d \in Dev, NEW cap \in Caps
  PROVE  Accepted(Accept(d, cap), d)
<1>. DEFINE K == NeighborByIeee(T0, d)
            same == {r \in K : CapMatches(Ent(T0, r), cap)}
<1>1. /\ Typed /\ Owners /\ Limited /\ TabSound(T0, childNum) /\ nbtUsed <= nbtSize
      /\ T0 \in Tabs /\ T0.addr = addr /\ T0.index = index /\ T0.nbt = nbt /\ T0.used = nbtUsed /\ T0.fault = "none"
      /\ nbtSize \in 0 .. Size /\ childNum \in Counters
  BY T0Facts DEF ChildInv, Scanning, Typed
<1>2. LimitedBy(childNum) /\ AtLeast(childNum, childNum)
  BY <1>1, CountersInt DEF Limited, LimitedBy, AtLeast
<1>3. PICK a : a = IF IsRouter(cap) THEN RouterAddress(childNum) ELSE EdAddress(childNum)
  OBVIOUS
<1>4. PICK T \in Tabs : /\ T = (IF K # {} THEN NeighborDelete(T0, The(K)) ELSE T0)
                        /\ TabSound(T, childNum) /\ Absent(T, d) /\ T.addr = addr /\ T.used = nbtUsed /\ T.fault = "none"
  BY <1>1, NoNeighborLeft
<1>5. CASE same # {}
  <2>1. The(same) \in same
    BY <1>5, Chosen
  <2>2. PICK r \in Ref : /\ r = The(same) /\ addr[r].used /\ addr[r].ieee = d /\ index[r] # NONE
                         /\ CapMatches(nbt[index[r]], cap)
    BY <1>1, <2>1 DEF NeighborByIeee, IeeeSearch, Ent
  <2>3. PICK s \in Int : s = addr[r].short
    BY <1>1 DEF Typed, AddrTabs, Entries
  <2>4. AlmostSound(T0, childNum, r)
    BY <1>1, <2>2 DEF AlmostSound, TabSound, Kinds
  <2>5. MayBe(T0, childNum, r, cap)
    <3>1. KindAt(T0, childNum, r)
      BY <1>1, <2>2 DEF TabSound, Kinds
    <3>. QED BY <1>1, <2>2, <3>1 DEF KindAt, MayBe, CapMatches
  <2>6. PICK M \in Tabs : /\ M = Marked(T0, r, cap) /\ M.addr = addr /\ M.used = nbtUsed /\ M.fault = "none"
                          /\ TabSound(M, childNum)
    BY <1>1, <2>4, <2>5, MarkedFacts
  <2>. HIDE DEF K, same
  <2>e. Accept(d, cap) = [ok |-> TRUE, short |-> addr[The(same)].short, num |-> childNum,
                          tables |-> Marked(T0, The(same), cap)]
    BY <1>5 DEF Accept, K, same
  <2>7. PICK R : R = Accept(d, cap) /\ R.short = s /\ R.num = childNum /\ R.tables = M
    BY <2>2, <2>3, <2>6, <2>e
  <2>8. NamesGrow(addr, addr, d, s)
    BY DEF NamesGrow
  <2>9. Allowed(childNum, d, s)
    <3>1. s # NONE => Holds(d, s)
      BY <2>2, <2>3 DEF Holds, Entered
    <3>. QED BY <1>1, <3>1 DEF Allowed, Owners
  <2>. QED BY <1>1, <1>2, <2>6, <2>7, <2>8, <2>9 DEF Accepted
<1>6. CASE same = {} /\ ~HasRoom(cap)
  <2>. HIDE DEF K, same
  <2>1. PICK R : R = Accept(d, cap) /\ R.short = NONE /\ R.num = childNum /\ R.tables = T
    <3>1. Accept(d, cap) = [ok |-> FALSE, short |-> NONE, num |-> childNum,
                            tables |-> IF K # {} THEN NeighborDelete(T0, The(K)) ELSE T0]
      BY <1>6 DEF Accept, K, same
    <3>. QED BY <1>4, <3>1
  <2>2. NamesGrow(addr, addr, d, NONE) /\ Allowed(childNum, d, NONE)
    BY DEF NamesGrow, Allowed
  <2>. QED BY <1>1, <1>2, <1>4, <2>1, <2>2, Basics DEF Accepted
<1>7. CASE same = {} /\ HasRoom(cap)
  <2>. HIDE DEF K, same
  <2>1. PICK c \in Counters : /\ c = Counted(cap) /\ a \in Nat /\ ~Known(childNum, a) /\ Allowed(c, d, a)
                              /\ LimitedBy(c) /\ AtLeast(childNum, c)
                              /\ IF IsRouter(cap) THEN Known(c, a) ELSE EdBlock(a)
    BY <1>1, <1>3, <1>7, FreshAddress
  <2>2. PICK E : E = Enter(T, d, a)
    OBVIOUS
  <2>3. PICK N \in Tabs : /\ N = E.tables /\ N.used <= nbtSize /\ NamesGrow(addr, N.addr, d, a) /\ E.ok \in BOOLEAN
                          /\ ~E.ok /\ N.fault = "none" => TabSound(N, childNum)
                          /\ E.ok /\ N.fault = "none" =>
                               AlmostSound(N, childNum, E.ref) /\ N.addr[E.ref].ieee = d /\ N.addr[E.ref].short = a
    BY <1>1, <1>4, <2>1, <2>2, EnterFacts
  <2>4. PICK R : R = Accept(d, cap) /\ R.ok = E.ok /\ R.short = (IF E.ok THEN a ELSE NONE) /\ R.num = c
                 /\ R.tables = IF E.ok /\ N.fault = "none" THEN Marked(N, E.ref, cap) ELSE N
    <3>1. Accept(d, cap) =
            LET X == Enter(IF K # {} THEN NeighborDelete(T0, The(K)) ELSE T0, d,
                           IF IsRouter(cap) THEN RouterAddress(childNum) ELSE EdAddress(childNum)) IN
            [ok |-> X.ok, short |-> IF X.ok THEN (IF IsRouter(cap) THEN RouterAddress(childNum) ELSE EdAddress(childNum)) ELSE NONE,
             num |-> Counted(cap),
             tables |-> IF X.ok /\ X.tables.fault = "none" THEN Marked(X.tables, X.ref, cap) ELSE X.tables]
      BY <1>7 DEF Accept, K, same
    <3>2. Accept(d, cap) =
            [ok |-> E.ok, short |-> IF E.ok THEN a ELSE NONE, num |-> c,
             tables |-> IF E.ok /\ N.fault = "none" THEN Marked(N, E.ref, cap) ELSE N]
      BY <1>3, <1>4, <2>1, <2>2, <2>3, <3>1
    <3>. QED BY <3>2
  <2>5. R.short \in {a, NONE} /\ R.short \in Int
    BY <2>1, <2>4, Basics
  <2>6. \A s \in Int : Known(childNum, s) => Known(c, s)
    BY <1>1, <2>1, GivenMore
  <2>7. CASE E.ok /\ N.fault = "none"
    <3>1. AlmostSound(N, c, E.ref)
      BY <2>3, <2>6, <2>7, SoundMore
    <3>2. MayBe(N, c, E.ref, cap)
      BY <2>1, <2>3, <2>7 DEF MayBe
    <3>3. PICK M \in Tabs : /\ M = Marked(N, E.ref, cap) /\ M.addr = N.addr /\ M.used = N.used /\ M.fault = "none"
                            /\ TabSound(M, c)
      BY <2>7, <3>1, <3>2, MarkedFacts
    <3>4. R.tables = M
      BY <2>4, <2>7, <3>3
    <3>. QED BY <2>1, <2>3, <2>4, <2>5, <3>3, <3>4 DEF Accepted
  <2>8. CASE ~(E.ok /\ N.fault = "none")
    <3>1. R.tables = N
      BY <2>4, <2>8
    <3>2. N.fault = "none" => TabSound(N, c)
      BY <2>3, <2>6, <2>8, SoundMore
    <3>. QED BY <2>1, <2>3, <2>4, <2>5, <3>1, <3>2 DEF Accepted
  <2>. QED BY <2>7, <2>8
<1>. QED BY <1>5, <1>6, <1>7

-----------------------------------------------------------------------------
\* What devices hold after a step.
LEMMA ToldSent ==
  ASSUME Typed, NEW k \in MsgKinds, NEW d \in Dev, NEW s \in Int, Sends(k, d, s)
  PROVE  /\ flying' \in [MsgKinds -> Seq(Messages)]
         /\ \A e, x : Told(e, x)' => Told(e, x) \/ (k \in Answers /\ e = d /\ x = s)
<1>1. PICK f \in [MsgKinds -> Seq(Messages)] : f = flying
  BY DEF Typed
<1>2. PICK m \in Messages : m = Msg(d, s)
  BY DEF Messages, Msg
<1>3. Append(f[k], m) \in Seq(Messages)
  BY <1>1
<1>4. flying' = [f EXCEPT ![k] = Append(f[k], m)]
  BY <1>1, <1>2 DEF Sends
<1>5. flying' \in [MsgKinds -> Seq(Messages)]
  BY <1>3, <1>4
<1>6. ASSUME NEW e, NEW x, Told(e, x)' PROVE Told(e, x) \/ (k \in Answers /\ e = d /\ x = s)
  <2>1. PICK j, i : j \in Answers /\ i \in DOMAIN flying'[j] /\ flying'[j][i] = Msg(e, x)
    BY <1>6 DEF Told
  <2>2. j \in MsgKinds
    BY <2>1 DEF Answers, MsgKinds
  <2>3. CASE j # k
    <3>1. flying'[j] = flying[j]
      BY <1>1, <1>4, <2>2, <2>3
    <3>. QED BY <2>1, <3>1 DEF Told
  <2>4. CASE j = k
    <3>1. PICK q \in Seq(Messages) : q = f[k]
      BY <1>1
    <3>2. flying'[k] = Append(q, m)
      BY <1>4, <3>1
    <3>3. i \in 1 .. Len(q) + 1 /\ Append(q, m)[i] = Msg(e, x)
      BY <2>1, <2>4, <3>2
    <3>4. CASE i = Len(q) + 1
      <4>1. Append(q, m)[i] = m
        BY <3>4
      <4>2. m = Msg(e, x)
        BY <3>3, <4>1
      <4>3. e = d /\ x = s
        BY <1>2, <4>2 DEF Msg
      <4>. QED BY <2>1, <2>4, <4>3
    <3>5. CASE i # Len(q) + 1
      <4>1. i \in DOMAIN q /\ q[i] = Msg(e, x)
        BY <3>3, <3>5
      <4>. QED BY <1>1, <2>1, <2>4, <3>1, <4>1 DEF Told
    <3>. QED BY <3>4, <3>5
  <2>. QED BY <2>3, <2>4
<1>. QED BY <1>5, <1>6

LEMMA ToldDone ==
  ASSUME Typed, NEW k \in MsgKinds, Done(k), flying[k] # <<>>
  PROVE  /\ flying' \in [MsgKinds -> Seq(Messages)]
         /\ \A e, x : Told(e, x)' => Told(e, x)
         /\ Oldest(k) \in Messages /\ Oldest(k) = Msg(Oldest(k).dev, Oldest(k).short)
         /\ k \in Answers => Told(Oldest(k).dev, Oldest(k).short)
<1>1. PICK f \in [MsgKinds -> Seq(Messages)] : f = flying
  BY DEF Typed
<1>2. PICK q \in Seq(Messages) : q = f[k] /\ q # <<>>
  BY <1>1
<1>3. Head(q) = q[1] /\ q[1] \in Messages /\ 1 \in DOMAIN q /\ Tail(q) \in Seq(Messages)
  BY <1>2
<1>4. flying' = [f EXCEPT ![k] = Tail(q)]
  BY <1>1, <1>2 DEF Done
<1>5. flying' \in [MsgKinds -> Seq(Messages)]
  BY <1>3, <1>4
<1>6. ASSUME NEW e, NEW x, Told(e, x)' PROVE Told(e, x)
  <2>1. PICK j, i : j \in Answers /\ i \in DOMAIN flying'[j] /\ flying'[j][i] = Msg(e, x)
    BY <1>6 DEF Told
  <2>2. j \in MsgKinds
    BY <2>1 DEF Answers, MsgKinds
  <2>3. CASE j # k
    <3>1. flying'[j] = flying[j]
      BY <1>1, <1>4, <2>2, <2>3
    <3>. QED BY <2>1, <3>1 DEF Told
  <2>4. CASE j = k
    <3>1. flying'[k] = Tail(q)
      BY <1>3, <1>4
    <3>2. i \in DOMAIN Tail(q) /\ Tail(q)[i] = Msg(e, x)
      BY <2>1, <2>4, <3>1
    <3>3. i + 1 \in DOMAIN q /\ q[i + 1] = Msg(e, x)
      BY <1>2, <3>2
    <3>. QED BY <1>1, <1>2, <2>1, <2>4, <3>3 DEF Told
  <2>. QED BY <2>3, <2>4
<1>7. PICK m \in Messages : m = Oldest(k) /\ m = flying[k][1] /\ 1 \in DOMAIN flying[k]
  BY <1>1, <1>2, <1>3 DEF Oldest
<1>8. m = Msg(m.dev, m.short)
  BY DEF Messages, Msg
<1>9. k \in Answers => Told(m.dev, m.short)
  BY <1>7, <1>8 DEF Told
<1>. QED BY <1>5, <1>6, <1>7, <1>8, <1>9

\* One device holds one more address.
LEMMA OwnersMore ==
  ASSUME Owners, freed' = freed, \A s : Given(childNum, freed, s) => Given(childNum', freed, s),
         NEW d \in Dev, NEW a \in Int, Allowed(childNum', d, a),
         \A e \in Dev, s \in Int : Holds(e, s)' => Holds(e, s) \/ (e = d /\ s = a)
  PROVE  Owners'
<1>1. ASSUME NEW e \in Dev, NEW s \in Int, Holds(e, s)' PROVE Given(childNum', freed', s)
  <2>1. s # NONE
    BY <1>1 DEF Holds
  <2>2. CASE Holds(e, s)
    BY <2>2 DEF Owners
  <2>3. CASE e = d /\ s = a
    BY <2>1, <2>3 DEF Allowed
  <2>. QED BY <1>1, <2>2, <2>3
<1>2. ASSUME NEW e \in Dev, NEW f \in Dev, NEW s \in Int, e # f, Holds(e, s)', Holds(f, s)' PROVE s \in freed'
  <2>1. s # NONE
    BY <1>2 DEF Holds
  <2>2. CASE Holds(e, s) /\ Holds(f, s)
    BY <1>2, <2>2 DEF Owners
  <2>3. CASE e = d /\ s = a /\ Holds(f, s)
    BY <1>2, <2>1, <2>3 DEF Allowed
  <2>4. CASE f = d /\ s = a /\ Holds(e, s)
    BY <1>2, <2>1, <2>4 DEF Allowed
  <2>. QED BY <1>2, <2>2, <2>3, <2>4
<1>. QED BY <1>1, <1>2 DEF Owners

LEMMA OwnersFewer ==
  ASSUME Owners, freed' = freed, childNum' = childNum, \A e \in Dev, s \in Int : Holds(e, s)' => Holds(e, s)
  PROVE  Owners'
<1>1. ASSUME NEW e \in Dev, NEW s \in Int, Holds(e, s)' PROVE Given(childNum', freed', s)
  BY <1>1 DEF Owners
<1>2. ASSUME NEW e \in Dev, NEW f \in Dev, NEW s \in Int, e # f, Holds(e, s)', Holds(f, s)' PROVE s \in freed'
  BY <1>2 DEF Owners
<1>. QED BY <1>1, <1>2 DEF Owners

-----------------------------------------------------------------------------
\* What is left to show of a step that writes back tables.
LEMMA CommitFacts ==
  ASSUME NEW R \in Tabs, Commit(R)
  PROVE  /\ addr' = R.addr /\ index' = R.index /\ nbt' = R.nbt /\ nbtUsed' = R.used /\ fault' = R.fault
         /\ addr' \in AddrTabs /\ index' \in Indexes /\ nbt' \in NbtTabs /\ nbtUsed' \in 0 .. Size /\ fault' \in Faults
         /\ \A c : TabSound(R, c) => TabSound(T0', c)
<1>1. /\ addr' = R.addr /\ index' = R.index /\ nbt' = R.nbt /\ nbtUsed' = R.used /\ fault' = R.fault
      /\ addr' \in AddrTabs /\ index' \in Indexes /\ nbt' \in NbtTabs /\ nbtUsed' \in 0 .. Size /\ fault' \in Faults
  BY DEF Commit, Tabs
<1>2. PICK N : N = T0' /\ N.addr = R.addr /\ N.index = R.index /\ N.nbt = R.nbt /\ N.used = R.used
  <2>1. T0' = [addr |-> R.addr, index |-> R.index, nbt |-> R.nbt, used |-> R.used, fault |-> "none"]
    BY <1>1, Zenon DEF T0
  <2>. QED BY <2>1
<1>3. \A c : TabSound(R, c) => TabSound(N, c)
  BY <1>2 DEF TabSound, Indexed, Locked, Kinds, KindAt
<1>. QED BY <1>1, <1>2, <1>3

LEMMA TablesKept ==
  ASSUME UNCHANGED tables
  PROVE  \A c : TabSound(T0, c) => TabSound(T0', c)
<1>1. PICK N : N = T0' /\ N.addr = T0.addr /\ N.index = T0.index /\ N.nbt = T0.nbt /\ N.used = T0.used
  BY DEF T0, tables
<1>2. \A c : TabSound(T0, c) => TabSound(N, c)
  BY <1>1 DEF TabSound, Indexed, Locked, Kinds, KindAt
<1>. QED BY <1>1, <1>2

LEMMA ScanningKept ==
  ASSUME Typed, Scanning, UNCHANGED scan, nbtUsed' <= nbtSize, \A s : Known(childNum, s) => Known(childNum', s)
  PROVE  Scanning'
  BY DEF Scanning, scan

LEMMA AcceptStep ==
  ASSUME ChildInv, Ok, NEW d \in Dev, NEW R, Accepted(R, d), AcceptChild(R),
         NEW k \in {"assocResp", "rejoinResp", "rejoinRefused"}, Sends(k, d, R.short), JoinsAnew(d),
         UNCHANGED <<scan, freed>>, rejoinTab' \in Seq(Int), Len(rejoinTab') <= RejoinTableSize
  PROVE  ChildInv'
<1>1. /\ Typed /\ Owners /\ Scanning /\ childNum \in Counters /\ k \in MsgKinds
  BY DEF ChildInv, Typed, MsgKinds
<1>2. /\ R.tables \in Tabs /\ R.tables.used <= nbtSize
      /\ R.num \in Counters /\ LimitedBy(R.num) /\ AtLeast(childNum, R.num) /\ R.short \in Int
      /\ R.tables.fault = "none" => TabSound(R.tables, R.num)
      /\ childNum' = R.num /\ Commit(R.tables)
  BY DEF Accepted, AcceptChild
<1>3. PICK a \in Int : NamesGrow(addr, R.tables.addr, d, a) /\ R.short \in {a, NONE} /\ Allowed(R.num, d, a)
  BY DEF Accepted
<1>4. /\ addr' = R.tables.addr /\ nbtUsed' = R.tables.used /\ fault' = R.tables.fault
      /\ addr' \in AddrTabs /\ index' \in Indexes /\ nbt' \in NbtTabs /\ nbtUsed' \in 0 .. Size /\ fault' \in Faults
      /\ TabSound(R.tables, R.num) => TabSound(T0', R.num)
  BY <1>2, CommitFacts
<1>5. /\ flying' \in [MsgKinds -> Seq(Messages)]
      /\ \A e, x : Told(e, x)' => Told(e, x) \/ (e = d /\ x = R.short)
  BY <1>1, <1>2, ToldSent
<1>6. granted' \in [Dev -> Int] /\ \A e \in Dev : granted'[e] = granted[e] \/ granted'[e] = NONE
  BY <1>1, Basics DEF JoinsAnew, Typed
<1>7. Typed'
  BY <1>1, <1>2, <1>4, <1>5, <1>6 DEF Typed, scan
<1>8. \A s : (Known(childNum, s) => Known(childNum', s)) /\ (Given(childNum, freed, s) => Given(childNum', freed, s))
  BY <1>1, <1>2, GivenMore
<1>9. Owners'
  <2>1. ASSUME NEW e \in Dev, NEW s \in Int, Holds(e, s)' PROVE Holds(e, s) \/ (e = d /\ s = a)
    <3>1. s # NONE
      BY <2>1 DEF Holds
    <3>2. CASE granted'[e] = s
      BY <1>6, <3>1, <3>2 DEF Holds
    <3>3. CASE Told(e, s)'
      BY <1>3, <1>5, <3>1, <3>3 DEF Holds
    <3>4. CASE Entered(addr', e, s)
      BY <1>3, <1>4, <3>1, <3>4 DEF Holds, NamesGrow
    <3>. QED BY <2>1, <3>2, <3>3, <3>4 DEF Holds
  <2>. QED BY <1>1, <1>2, <1>3, <1>8, <2>1, OwnersMore
<1>10. Limited'
  BY <1>2 DEF Limited, LimitedBy
<1>11. ASSUME Ok' PROVE TabSound(T0', childNum') /\ Scanning'
  <2>1. TabSound(T0', childNum')
    BY <1>2, <1>4, <1>11 DEF Ok
  <2>2. Scanning'
    BY <1>1, <1>2, <1>4, <1>8, ScanningKept
  <2>. QED BY <2>1, <2>2
<1>. QED BY <1>7, <1>9, <1>10, <1>11 DEF ChildInv

LEMMA AssociateIndicationStep ==
  ASSUME ChildInv, NEW d \in Dev, NEW cap \in Caps, AssociateIndication(d, cap)
  PROVE  ChildInv'
<1>1. PICK R : R = Accept(d, cap) /\ AcceptChild(R) /\ Sends("assocResp", d, R.short)
  BY DEF AssociateIndication
<1>2. Ok /\ JoinsAnew(d) /\ UNCHANGED <<scan, freed>> /\ UNCHANGED rejoinTab
  BY DEF AssociateIndication
<1>3. Accepted(R, d)
  BY <1>1, <1>2, AcceptFacts
<1>4. rejoinTab' \in Seq(Int) /\ Len(rejoinTab') <= RejoinTableSize
  BY <1>2 DEF ChildInv, Typed
<1>. QED BY <1>1, <1>2, <1>3, <1>4, AcceptStep

LEMMA RejoinRequestStep ==
  ASSUME ChildInv, NEW d \in Dev, NEW cap \in Caps, RejoinRequest(d, cap)
  PROVE  ChildInv'
<1>1. PICK R : /\ R = Accept(d, cap) /\ AcceptChild(R)
               /\ Sends(IF R.ok THEN "rejoinResp" ELSE "rejoinRefused", d, R.short)
               /\ rejoinTab' = IF R.ok THEN Append(rejoinTab, R.short) ELSE rejoinTab
  BY DEF RejoinRequest
<1>2. Ok /\ JoinsAnew(d) /\ UNCHANGED <<scan, freed>> /\ Len(rejoinTab) < RejoinTableSize
  BY DEF RejoinRequest
<1>3. Accepted(R, d)
  BY <1>1, <1>2, AcceptFacts
<1>4. rejoinTab' \in Seq(Int) /\ Len(rejoinTab') <= RejoinTableSize
  <2>1. PICK q \in Seq(Int) : q = rejoinTab
    BY DEF ChildInv, Typed
  <2>2. PICK s \in Int : s = R.short
    BY <1>3 DEF Accepted
  <2>3. Append(q, s) \in Seq(Int) /\ Len(Append(q, s)) = Len(q) + 1 /\ Len(q) \in Nat
    OBVIOUS
  <2>. QED BY <1>1, <1>2, <2>1, <2>2, <2>3, ChildConstants
<1>5. PICK k \in {"assocResp", "rejoinResp", "rejoinRefused"} : k = IF R.ok THEN "rejoinResp" ELSE "rejoinRefused"
  OBVIOUS
<1>6. Sends(k, d, R.short)
  BY <1>1, <1>5
<1>. QED BY <1>1, <1>2, <1>3, <1>4, <1>6, AcceptStep

\* A step after which no device holds an address that it did not hold before.
Fewer ==
  /\ \A e \in Dev, x \in Int : Told(e, x)' => Told(e, x)
  /\ \A e \in Dev : granted'[e] = granted[e] \/ granted'[e] = NONE \/ Holds(e, granted'[e])
  /\ \A e \in Dev, x \in Int : Entered(addr', e, x) => Entered(addr, e, x)

LEMMA FewerStep ==
  ASSUME ChildInv, Ok, addr' \in AddrTabs, index' \in Indexes, nbt' \in NbtTabs, nbtUsed' = nbtUsed, fault' \in Faults,
         UNCHANGED scan, childNum' = childNum, freed' = freed,
         flying' \in [MsgKinds -> Seq(Messages)], granted' \in [Dev -> Int],
         rejoinTab' \in Seq(Int), Len(rejoinTab') <= RejoinTableSize,
         Ok' => TabSound(T0', childNum), Fewer
  PROVE  ChildInv'
<1>1. Typed /\ Owners /\ Limited /\ Scanning /\ nbtUsed <= nbtSize
  BY DEF ChildInv, Scanning
<1>2. Typed'
  BY <1>1 DEF Typed, scan
<1>3. Owners'
  <2>1. ASSUME NEW e \in Dev, NEW s \in Int, Holds(e, s)' PROVE Holds(e, s)
    BY <2>1 DEF Holds, Fewer
  <2>. QED BY <1>1, <2>1, OwnersFewer
<1>4. Limited'
  BY <1>1 DEF Limited
<1>5. Scanning'
  BY <1>1, ScanningKept
<1>. QED BY <1>2, <1>3, <1>4, <1>5 DEF ChildInv

LEMMA SameTables ==
  ASSUME ChildInv, Ok, UNCHANGED tables
  PROVE  /\ addr' \in AddrTabs /\ index' \in Indexes /\ nbt' \in NbtTabs /\ nbtUsed' = nbtUsed
         /\ TabSound(T0', childNum)
         /\ \A e \in Dev, x \in Int : Entered(addr', e, x) => Entered(addr, e, x)
<1>1. addr' \in AddrTabs /\ index' \in Indexes /\ nbt' \in NbtTabs /\ nbtUsed' = nbtUsed /\ addr' = addr
  BY DEF ChildInv, Typed, tables
<1>2. TabSound(T0', childNum)
  BY TablesKept DEF ChildInv
<1>. QED BY <1>1, <1>2

\* The deletions write back sound tables that name no new device.
LEMMA ForgetCommitted ==
  ASSUME ChildInv, Ok, NEW r \in Ref, Commit(ForgetDevice(T0, r))
  PROVE  /\ addr' \in AddrTabs /\ index' \in Indexes /\ nbt' \in NbtTabs /\ nbtUsed' = nbtUsed /\ fault' \in Faults
         /\ TabSound(T0', childNum)
         /\ \A e \in Dev, x \in Int : Entered(addr', e, x) => Entered(addr, e, x)
<1>1. T0 \in Tabs /\ TabSound(T0, childNum) /\ T0.addr = addr /\ T0.used = nbtUsed /\ addr \in AddrTabs
  BY T0Facts DEF ChildInv, Typed
<1>2. PICK R \in Tabs : R = ForgetDevice(T0, r) /\ TabSound(R, childNum) /\ R.addr = AddrDelete(addr, r) /\ R.used = nbtUsed
  BY <1>1, ForgetDeviceFacts
<1>3. /\ addr' \in AddrTabs /\ index' \in Indexes /\ nbt' \in NbtTabs /\ nbtUsed' = nbtUsed /\ fault' \in Faults
      /\ TabSound(T0', childNum) /\ addr' = AddrDelete(addr, r)
  <2>1. Commit(R)
    BY <1>2
  <2>. QED BY <1>2, <2>1, CommitFacts
<1>4. ~addr'[r].used /\ \A q \in Ref \ {r} : addr'[q] = addr[q]
  BY <1>1, <1>3, AddrDeleteFacts
<1>5. \A e \in Dev, x \in Int : Entered(addr', e, x) => Entered(addr, e, x)
  BY <1>4 DEF Entered
<1>. QED BY <1>3, <1>5

LEMMA NeighborCommitted ==
  ASSUME ChildInv, Ok, NEW r \in Ref, Commit(NeighborDelete(T0, r))
  PROVE  /\ addr' \in AddrTabs /\ index' \in Indexes /\ nbt' \in NbtTabs /\ nbtUsed' = nbtUsed /\ fault' \in Faults
         /\ TabSound(T0', childNum)
         /\ \A e \in Dev, x \in Int : Entered(addr', e, x) => Entered(addr, e, x)
<1>1. T0 \in Tabs /\ TabSound(T0, childNum) /\ T0.addr = addr /\ T0.used = nbtUsed
  BY T0Facts DEF ChildInv
<1>2. PICK R \in Tabs : R = NeighborDelete(T0, r) /\ TabSound(R, childNum) /\ R.addr = addr /\ R.used = nbtUsed
  BY <1>1, NeighborDeleteFacts
<1>3. Commit(R)
  BY <1>2
<1>4. /\ addr' \in AddrTabs /\ index' \in Indexes /\ nbt' \in NbtTabs /\ nbtUsed' = nbtUsed /\ fault' \in Faults
      /\ TabSound(T0', childNum) /\ addr' = addr
  BY <1>2, <1>3, CommitFacts
<1>. QED BY <1>4

LEMMA NeighborsAreRefs ==
  ASSUME NEW T, NEW x
  PROVE  /\ NeighborByIeee(T, x) # {} => The(NeighborByIeee(T, x)) \in Ref
         /\ NeighborByShort(T, x) # {} => The(NeighborByShort(T, x)) \in Ref
<1>1. NeighborByIeee(T, x) \subseteq Ref /\ NeighborByShort(T, x) \subseteq Ref
  BY DEF NeighborByIeee, NeighborByShort, IeeeSearch, ShortSearch
<1>. QED BY <1>1, Chosen

\* A response arrives: the device was told that address.
LEMMA ReceivesFacts ==
  ASSUME Typed, NEW m \in Messages, NEW o, Receives(m, o), Told(m.dev, m.short)
  PROVE  /\ granted' \in [Dev -> Int]
         /\ \A e \in Dev : granted'[e] = granted[e] \/ granted'[e] = NONE \/ Holds(e, granted'[e])
<1>1. granted \in [Dev -> Int] /\ m.short \in Int
  BY DEF Typed, Messages
<1>2. CASE granted' = granted
  BY <1>1, <1>2
<1>3. CASE granted' = [granted EXCEPT ![m.dev] = m.short] /\ m.short # NONE
  <2>1. granted' \in [Dev -> Int]
    BY <1>1, <1>3
  <2>2. ASSUME NEW e \in Dev, granted'[e] # granted[e] PROVE Holds(e, granted'[e])
    <3>1. e = m.dev /\ granted'[e] = m.short
      BY <1>1, <1>3, <2>2
    <3>. QED BY <1>3, <3>1 DEF Holds
  <2>. QED BY <2>1, <2>2
<1>. QED BY <1>2, <1>3 DEF Receives

LEMMA CommStatusIndicationStep ==
  ASSUME ChildInv, NEW o \in Outcomes, CommStatusIndication(o)
  PROVE  ChildInv'
<1>. DEFINE m == Oldest("assocResp")
            K == NeighborByIeee(T0, m.dev)
<1>1. /\ Ok /\ Typed /\ "assocResp" \in MsgKinds /\ "assocResp" \in Answers /\ Done("assocResp")
      /\ flying["assocResp"] # <<>> /\ Receives(m, o) /\ UNCHANGED <<scan, rejoinTab, freed>>
  BY DEF CommStatusIndication, ChildInv, MsgKinds, Answers
<1>2. /\ flying' \in [MsgKinds -> Seq(Messages)] /\ (\A e, x : Told(e, x)' => Told(e, x))
      /\ m \in Messages /\ Told(m.dev, m.short)
  BY <1>1, ToldDone
<1>3. /\ granted' \in [Dev -> Int]
      /\ \A e \in Dev : granted'[e] = granted[e] \/ granted'[e] = NONE \/ Holds(e, granted'[e])
  BY <1>1, <1>2, ReceivesFacts
<1>4. rejoinTab' \in Seq(Int) /\ Len(rejoinTab') <= RejoinTableSize
  BY <1>1 DEF Typed
<1>5. CASE o.status = "failed" /\ K # {}
  <2>1. Commit(ForgetDevice(T0, The(K))) /\ childNum' = childNum /\ The(K) \in Ref
    BY <1>5, NeighborsAreRefs DEF CommStatusIndication, NumAfterFailure
  <2>2. /\ addr' \in AddrTabs /\ index' \in Indexes /\ nbt' \in NbtTabs /\ nbtUsed' = nbtUsed /\ fault' \in Faults
        /\ TabSound(T0', childNum)
        /\ \A e \in Dev, x \in Int : Entered(addr', e, x) => Entered(addr, e, x)
    BY <1>1, <2>1, ForgetCommitted
  <2>3. Fewer
    BY <1>2, <1>3, <2>2 DEF Fewer
  <2>. QED BY <1>1, <1>2, <1>3, <1>4, <2>1, <2>2, <2>3, FewerStep
<1>6. CASE ~(o.status = "failed" /\ K # {})
  <2>1. UNCHANGED <<tables, childNum, fault>>
    BY <1>6 DEF CommStatusIndication
  <2>2. /\ addr' \in AddrTabs /\ index' \in Indexes /\ nbt' \in NbtTabs /\ nbtUsed' = nbtUsed
        /\ TabSound(T0', childNum)
        /\ \A e \in Dev, x \in Int : Entered(addr', e, x) => Entered(addr, e, x)
    BY <1>1, <2>1, SameTables
  <2>3. Fewer
    BY <1>2, <1>3, <2>2 DEF Fewer
  <2>4. fault' \in Faults
    BY <1>1, <2>1 DEF Typed
  <2>. QED BY <1>1, <1>2, <1>3, <1>4, <2>1, <2>2, <2>3, <2>4, FewerStep
<1>. QED BY <1>5, <1>6

\* Nothing that a device is told.
LEMMA GrantedKept ==
  ASSUME Typed, granted' = granted
  PROVE  granted' \in [Dev -> Int] /\ \A e \in Dev : granted'[e] = granted[e] \/ granted'[e] = NONE \/ Holds(e, granted'[e])
  BY DEF Typed

LEMMA NeverMind ==
  ASSUME Typed, \A k \in Answers : flying'[k] = flying[k]
  PROVE  \A e, x : Told(e, x)' => Told(e, x)
  BY DEF Told

LEMMA IndirectExpiredStep ==
  ASSUME ChildInv, NEW r \in Ref, IndirectExpired(r)
  PROVE  ChildInv'
<1>. DEFINE K == NeighborByShort(T0, addr[r].short)
<1>1. /\ Ok /\ Typed /\ addr[r].used /\ index[r] # NONE /\ Commit(ForgetDevice(T0, The(K)))
      /\ UNCHANGED <<scan, childNum, rejoinTab, flying, devices>>
  BY DEF IndirectExpired, ChildInv
<1>2. The(K) \in Ref
  <2>1. T0.addr = addr /\ T0.index = index
    BY DEF T0
  <2>2. r \in K
    BY <1>1, <2>1 DEF NeighborByShort, ShortSearch
  <2>. QED BY <2>2, NeighborsAreRefs
<1>3. /\ addr' \in AddrTabs /\ index' \in Indexes /\ nbt' \in NbtTabs /\ nbtUsed' = nbtUsed /\ fault' \in Faults
      /\ TabSound(T0', childNum)
      /\ \A e \in Dev, x \in Int : Entered(addr', e, x) => Entered(addr, e, x)
  BY <1>1, <1>2, ForgetCommitted
<1>4. /\ granted' \in [Dev -> Int]
      /\ \A e \in Dev : granted'[e] = granted[e] \/ granted'[e] = NONE \/ Holds(e, granted'[e])
  BY <1>1, GrantedKept DEF devices
<1>5. Fewer
  <2>1. \A e, x : Told(e, x)' => Told(e, x)
    BY <1>1, NeverMind
  <2>. QED BY <1>3, <1>4, <2>1 DEF Fewer
<1>6. /\ flying' \in [MsgKinds -> Seq(Messages)] /\ rejoinTab' \in Seq(Int) /\ Len(rejoinTab') <= RejoinTableSize
      /\ freed' = freed /\ childNum' = childNum
  BY <1>1 DEF Typed, devices
<1>. QED BY <1>1, <1>3, <1>4, <1>5, <1>6, FewerStep

LEMMA RejoinRespSentStep ==
  ASSUME ChildInv, NEW o \in Outcomes, RejoinRespSent(o)
  PROVE  ChildInv'
<1>. DEFINE m == Oldest("rejoinResp")
<1>1. /\ Ok /\ Typed /\ "rejoinResp" \in MsgKinds /\ "rejoinResp" \in Answers /\ Done("rejoinResp")
      /\ flying["rejoinResp"] # <<>> /\ Receives(m, o) /\ UNCHANGED <<tables, scan, childNum, freed>>
  BY DEF RejoinRespSent, ChildInv, MsgKinds, Answers
<1>2. /\ flying' \in [MsgKinds -> Seq(Messages)] /\ (\A e, x : Told(e, x)' => Told(e, x))
      /\ m \in Messages /\ Told(m.dev, m.short)
  BY <1>1, ToldDone
<1>3. /\ granted' \in [Dev -> Int]
      /\ \A e \in Dev : granted'[e] = granted[e] \/ granted'[e] = NONE \/ Holds(e, granted'[e])
  BY <1>1, <1>2, ReceivesFacts
<1>4. rejoinTab' \in Seq(Int) /\ Len(rejoinTab') <= RejoinTableSize /\ fault' \in Faults
  <2>1. PICK q \in Seq(Int) : q = rejoinTab /\ Len(q) <= RejoinTableSize
    BY <1>1 DEF Typed
  <2>2. CASE rejoinTab # <<>> /\ ShortSearch(addr, Last(rejoinTab)) # {}
    <3>1. rejoinTab' = Front(q) /\ fault' \in {"rejoinEnt", "none"} /\ q # <<>>
      BY <2>1, <2>2 DEF RejoinRespSent
    <3>2. Front(q) \in Seq(Int) /\ Len(Front(q)) = Len(q) - 1
      <4>1. Len(q) \in Nat /\ Len(q) > 0
        BY <3>1
      <4>2. PICK n \in Nat : n = Len(q) - 1
        BY <4>1
      <4>3. Front(q) = [i \in 1 .. n |-> q[i]]
        BY <4>1, <4>2 DEF Front, SubSeq
      <4>4. \A i \in 1 .. n : q[i] \in Int
        BY <4>1, <4>2
      <4>5. [i \in 1 .. n |-> q[i]] \in Seq(Int) /\ Len([i \in 1 .. n |-> q[i]]) = n
        BY <4>4
      <4>. QED BY <4>2, <4>3, <4>5
    <3>. QED BY <2>1, <3>1, <3>2, ChildConstants DEF Faults
  <2>3. CASE ~(rejoinTab # <<>> /\ ShortSearch(addr, Last(rejoinTab)) # {})
    BY <2>1, <2>3 DEF RejoinRespSent, Faults
  <2>. QED BY <2>2, <2>3
<1>5. /\ addr' \in AddrTabs /\ index' \in Indexes /\ nbt' \in NbtTabs /\ nbtUsed' = nbtUsed
      /\ TabSound(T0', childNum)
      /\ \A e \in Dev, x \in Int : Entered(addr', e, x) => Entered(addr, e, x)
  BY <1>1, SameTables
<1>6. Fewer
  BY <1>2, <1>3, <1>5 DEF Fewer
<1>. QED BY <1>1, <1>2, <1>3, <1>4, <1>5, <1>6, FewerStep

LEMMA RejoinRefusedSentStep ==
  ASSUME ChildInv, RejoinRefusedSent
  PROVE  ChildInv'
<1>1. /\ Ok /\ Typed /\ "rejoinRefused" \in MsgKinds /\ Done("rejoinRefused") /\ flying["rejoinRefused"] # <<>>
      /\ UNCHANGED <<tables, scan, childNum, rejoinTab, devices, fault>>
  BY DEF RejoinRefusedSent, ChildInv, MsgKinds
<1>2. flying' \in [MsgKinds -> Seq(Messages)] /\ (\A e, x : Told(e, x)' => Told(e, x))
  BY <1>1, ToldDone
<1>3. /\ granted' \in [Dev -> Int]
      /\ \A e \in Dev : granted'[e] = granted[e] \/ granted'[e] = NONE \/ Holds(e, granted'[e])
  BY <1>1, GrantedKept DEF devices
<1>4. /\ addr' \in AddrTabs /\ index' \in Indexes /\ nbt' \in NbtTabs /\ nbtUsed' = nbtUsed
      /\ TabSound(T0', childNum)
      /\ \A e \in Dev, x \in Int : Entered(addr', e, x) => Entered(addr, e, x)
  BY <1>1, SameTables
<1>5. Fewer
  BY <1>2, <1>3, <1>4 DEF Fewer
<1>6. rejoinTab' \in Seq(Int) /\ Len(rejoinTab') <= RejoinTableSize /\ fault' \in Faults /\ freed' = freed
  BY <1>1 DEF Typed, devices
<1>. QED BY <1>1, <1>2, <1>3, <1>4, <1>5, <1>6, FewerStep

LEMMA OrphanIndicationStep ==
  ASSUME ChildInv, NEW d \in Dev, OrphanIndication(d)
  PROVE  ChildInv'
<1>1. /\ Ok /\ Typed /\ UNCHANGED <<tables, scan, childNum, rejoinTab, flying, freed, fault>>
  BY DEF OrphanIndication, ChildInv
<1>2. PICK r \in NeighborByIeee(T0, d) : granted' = [granted EXCEPT ![d] = addr[r].short]
  BY DEF OrphanIndication
<1>3. r \in Ref /\ addr[r].used /\ addr[r].ieee = d
  BY <1>2 DEF NeighborByIeee, IeeeSearch, T0
<1>4. PICK s \in Int : s = addr[r].short /\ Entered(addr, d, s)
  BY <1>1, <1>3 DEF Typed, AddrTabs, Entries, Entered
<1>5. /\ granted' \in [Dev -> Int]
      /\ \A e \in Dev : granted'[e] = granted[e] \/ granted'[e] = NONE \/ Holds(e, granted'[e])
  BY <1>1, <1>2, <1>4 DEF Typed, Holds
<1>6. /\ addr' \in AddrTabs /\ index' \in Indexes /\ nbt' \in NbtTabs /\ nbtUsed' = nbtUsed
      /\ TabSound(T0', childNum)
      /\ \A e \in Dev, x \in Int : Entered(addr', e, x) => Entered(addr, e, x)
  BY <1>1, SameTables
<1>7. Fewer
  <2>1. \A e, x : Told(e, x)' => Told(e, x)
    BY <1>1, NeverMind
  <2>. QED BY <1>5, <1>6, <2>1 DEF Fewer
<1>8. /\ flying' \in [MsgKinds -> Seq(Messages)] /\ rejoinTab' \in Seq(Int) /\ Len(rejoinTab') <= RejoinTableSize
      /\ fault' \in Faults
  BY <1>1 DEF Typed
<1>. QED BY <1>1, <1>5, <1>6, <1>7, <1>8, FewerStep

LEMMA LeaveConfirmStep ==
  ASSUME ChildInv, LeaveConfirm
  PROVE  ChildInv'
<1>. DEFINE K == NeighborByIeee(T0, Oldest("leaveConfirm").dev)
<1>1. /\ Ok /\ Typed /\ "leaveConfirm" \in MsgKinds /\ Done("leaveConfirm") /\ flying["leaveConfirm"] # <<>>
      /\ UNCHANGED <<scan, childNum, rejoinTab, devices>>
      /\ Commit(IF K = {} THEN [T0 EXCEPT !.fault = "leaveEnt"] ELSE NeighborDelete(T0, The(K)))
  BY DEF LeaveConfirm, ChildInv, MsgKinds
<1>2. flying' \in [MsgKinds -> Seq(Messages)] /\ (\A e, x : Told(e, x)' => Told(e, x))
  BY <1>1, ToldDone
<1>3. /\ granted' \in [Dev -> Int]
      /\ \A e \in Dev : granted'[e] = granted[e] \/ granted'[e] = NONE \/ Holds(e, granted'[e])
  BY <1>1, GrantedKept DEF devices
<1>4. /\ addr' \in AddrTabs /\ index' \in Indexes /\ nbt' \in NbtTabs /\ nbtUsed' = nbtUsed
      /\ TabSound(T0', childNum) /\ fault' \in Faults
      /\ \A e \in Dev, x \in Int : Entered(addr', e, x) => Entered(addr, e, x)
  <2>1. CASE K = {}
    <3>1. UNCHANGED tables /\ fault' = "leaveEnt"
      BY <1>1, <2>1 DEF Commit, T0, tables
    <3>. QED BY <1>1, <3>1, SameTables DEF Faults
  <2>2. CASE K # {}
    <3>1. Commit(NeighborDelete(T0, The(K))) /\ The(K) \in Ref
      BY <1>1, <2>2, NeighborsAreRefs
    <3>. QED BY <1>1, <3>1, NeighborCommitted
  <2>. QED BY <2>1, <2>2
<1>5. Fewer
  BY <1>2, <1>3, <1>4 DEF Fewer
<1>6. rejoinTab' \in Seq(Int) /\ Len(rejoinTab') <= RejoinTableSize /\ freed' = freed
  BY <1>1 DEF Typed, devices
<1>. QED BY <1>1, <1>2, <1>3, <1>4, <1>5, <1>6, FewerStep

LEMMA LeaveIndicationStep ==
  ASSUME ChildInv, LeaveIndication
  PROVE  ChildInv'
<1>. DEFINE K == NeighborByIeee(T0, Oldest("leaveInd").dev)
<1>1. /\ Ok /\ Typed /\ "leaveInd" \in MsgKinds /\ Done("leaveInd") /\ flying["leaveInd"] # <<>>
      /\ UNCHANGED <<scan, childNum, rejoinTab, devices>>
      /\ Commit(IF K = {} THEN T0 ELSE ForgetDevice(T0, The(K)))
  BY DEF LeaveIndication, ChildInv, MsgKinds
<1>2. flying' \in [MsgKinds -> Seq(Messages)] /\ (\A e, x : Told(e, x)' => Told(e, x))
  BY <1>1, ToldDone
<1>3. /\ granted' \in [Dev -> Int]
      /\ \A e \in Dev : granted'[e] = granted[e] \/ granted'[e] = NONE \/ Holds(e, granted'[e])
  BY <1>1, GrantedKept DEF devices
<1>4. /\ addr' \in AddrTabs /\ index' \in Indexes /\ nbt' \in NbtTabs /\ nbtUsed' = nbtUsed
      /\ TabSound(T0', childNum) /\ fault' \in Faults
      /\ \A e \in Dev, x \in Int : Entered(addr', e, x) => Entered(addr, e, x)
  <2>1. CASE K = {}
    <3>1. UNCHANGED tables /\ fault' = "none"
      BY <1>1, <2>1 DEF Commit, T0, tables
    <3>. QED BY <1>1, <3>1, SameTables DEF Faults
  <2>2. CASE K # {}
    <3>1. Commit(ForgetDevice(T0, The(K))) /\ The(K) \in Ref
      BY <1>1, <2>2, NeighborsAreRefs
    <3>. QED BY <1>1, <3>1, ForgetCommitted
  <2>. QED BY <2>1, <2>2
<1>5. Fewer
  BY <1>2, <1>3, <1>4 DEF Fewer
<1>6. rejoinTab' \in Seq(Int) /\ Len(rejoinTab') <= RejoinTableSize /\ freed' = freed
  BY <1>1 DEF Typed, devices
<1>. QED BY <1>1, <1>2, <1>3, <1>4, <1>5, <1>6, FewerStep

LEMMA LeaveCmdSentStep ==
  ASSUME ChildInv, NEW arrived \in BOOLEAN, LeaveCmdSent(arrived)
  PROVE  ChildInv'
<1>1. /\ Ok /\ Typed /\ flying["leaveCmd"] # <<>> /\ UNCHANGED <<tables, scan, childNum, rejoinTab, freed, fault>>
  BY DEF LeaveCmdSent, ChildInv
<1>2. PICK m, S : /\ S = ShortSearch(addr, m.short)
                  /\ granted' = IF arrived /\ granted[m.dev] = m.short THEN [granted EXCEPT ![m.dev] = NONE] ELSE granted
                  /\ flying' = [flying EXCEPT !["leaveCmd"] = Tail(@),
                                  !["leaveConfirm"] = Append(@, Msg(IF S = {} THEN NoDev ELSE addr[The(S)].ieee, NONE))]
  BY DEF LeaveCmdSent
<1>3. granted' \in [Dev -> Int] /\ \A e \in Dev : granted'[e] = granted[e] \/ granted'[e] = NONE
  BY <1>1, <1>2, Basics DEF Typed
<1>4. PICK x \in Messages : x = Msg(IF S = {} THEN NoDev ELSE addr[The(S)].ieee, NONE)
  <2>1. S # {} => The(S) \in Ref
    BY <1>2, Chosen DEF ShortSearch
  <2>2. PICK d \in Dev \cup {NoDev} : d = IF S = {} THEN NoDev ELSE addr[The(S)].ieee
    BY <1>1, <2>1 DEF Typed, AddrTabs, Entries
  <2>. QED BY <2>2, Basics DEF Messages, Msg
<1>5. PICK f \in [MsgKinds -> Seq(Messages)] : f = flying
  BY <1>1 DEF Typed
<1>6. PICK p \in Seq(Messages), q \in Seq(Messages) : p = Tail(f["leaveCmd"]) /\ q = Append(f["leaveConfirm"], x)
  <2>1. "leaveCmd" \in MsgKinds /\ "leaveConfirm" \in MsgKinds
    BY DEF MsgKinds
  <2>2. PICK u \in Seq(Messages), v \in Seq(Messages) : u = f["leaveCmd"] /\ v = f["leaveConfirm"] /\ u # <<>>
    BY <1>1, <1>5, <2>1
  <2>3. Tail(u) \in Seq(Messages) /\ Append(v, x) \in Seq(Messages)
    BY <2>2
  <2>. QED BY <2>2, <2>3
<1>7. flying' = [f EXCEPT !["leaveCmd"] = p, !["leaveConfirm"] = q]
  BY <1>2, <1>4, <1>5, <1>6
<1>8. flying' \in [MsgKinds -> Seq(Messages)] /\ \A k \in Answers : flying'[k] = flying[k]
  BY <1>5, <1>7 DEF MsgKinds, Answers
<1>9. /\ addr' \in AddrTabs /\ index' \in Indexes /\ nbt' \in NbtTabs /\ nbtUsed' = nbtUsed
      /\ TabSound(T0', childNum)
      /\ \A e \in Dev, s \in Int : Entered(addr', e, s) => Entered(addr, e, s)
  BY <1>1, SameTables
<1>10. Fewer
  <2>1. \A e, s : Told(e, s)' => Told(e, s)
    BY <1>1, <1>8, NeverMind
  <2>. QED BY <1>3, <1>9, <2>1 DEF Fewer
<1>11. rejoinTab' \in Seq(Int) /\ Len(rejoinTab') <= RejoinTableSize /\ fault' \in Faults
  BY <1>1 DEF Typed
<1>. QED BY <1>1, <1>3, <1>8, <1>9, <1>10, <1>11, FewerStep

LEMMA LeaveHandlerStep ==
  ASSUME ChildInv, NEW d \in Dev, LeaveHandler(d)
  PROVE  ChildInv'
<1>. DEFINE S == ShortSearch(addr, granted[d])
<1>1. /\ Ok /\ Typed /\ granted' = [granted EXCEPT ![d] = NONE]
      /\ UNCHANGED <<index, nbt, nbtUsed, scan, childNum, rejoinTab, freed, fault>>
  BY DEF LeaveHandler, ChildInv
<1>2. granted' \in [Dev -> Int] /\ \A e \in Dev : granted'[e] = granted[e] \/ granted'[e] = NONE
  BY <1>1, Basics DEF Typed
<1>3. rejoinTab' \in Seq(Int) /\ Len(rejoinTab') <= RejoinTableSize /\ fault' \in Faults
  BY <1>1 DEF Typed
<1>4. S # {} => The(S) \in Ref /\ addr[The(S)].used
  <2>1. S # {} => The(S) \in S
    BY Chosen
  <2>. QED BY <2>1 DEF ShortSearch
<1>5. CASE S # {} /\ index[The(S)] = NONE
  <2>1. addr' = AddrDelete(addr, The(S)) /\ flying' = flying
    BY <1>5 DEF LeaveHandler
  <2>2. PICK r \in Ref : r = The(S)
    BY <1>4, <1>5
  <2>3. T0 \in Tabs /\ TabSound(T0, childNum) /\ T0.addr = addr /\ T0.index = index /\ addr \in AddrTabs
    BY <1>1, T0Facts DEF ChildInv, Typed
  <2>4. addr' \in AddrTabs /\ ~addr'[r].used /\ \A q \in Ref \ {r} : addr'[q] = addr[q]
    BY <2>1, <2>2, <2>3, AddrDeleteFacts
  <2>5. PICK a \in AddrTabs : a = addr' /\ a = AddrDelete(T0.addr, r)
    BY <2>1, <2>2, <2>3, <2>4
  <2>6. PICK N : N = [T0 EXCEPT !.addr = a] /\ Replacing(N, T0, a, T0.fault)
    BY <2>3, Replaced
  <2>7. N \in Tabs /\ N.addr = a /\ N.index = T0.index /\ N.nbt = T0.nbt /\ N.used = T0.used
    BY <2>6 DEF Replacing
  <2>8. TabSound(N, childNum)
    <3>1. T0.index[r] = NONE /\ N.addr = AddrDelete(T0.addr, r)
      BY <1>5, <2>2, <2>3, <2>5, <2>7
    <3>. QED BY <2>3, <2>7, <3>1, AddrDropped
  <2>9. TabSound(T0', childNum)
    <3>1. Commit(N)
      <4>1. N.fault = "none" /\ T0.nbt = nbt /\ T0.used = nbtUsed /\ fault' = "none"
        BY <1>1, <2>3, <2>6, T0Facts DEF Replacing, Ok
      <4>. QED BY <1>1, <2>3, <2>5, <2>7, <4>1 DEF Commit
    <3>. QED BY <2>7, <2>8, <3>1, CommitFacts
  <2>10. index' \in Indexes /\ nbt' \in NbtTabs /\ nbtUsed' = nbtUsed /\ flying' \in [MsgKinds -> Seq(Messages)]
    BY <1>1, <2>1 DEF Typed
  <2>11. Fewer
    <3>1. \A e, s : Told(e, s)' => Told(e, s)
      BY <1>1, <2>1, NeverMind
    <3>2. \A e \in Dev, s \in Int : Entered(addr', e, s) => Entered(addr, e, s)
      BY <2>4 DEF Entered
    <3>. QED BY <1>2, <3>1, <3>2 DEF Fewer
  <2>. QED BY <1>1, <1>2, <1>3, <2>4, <2>9, <2>10, <2>11, FewerStep
<1>6. CASE ~(S # {} /\ index[The(S)] = NONE)
  <2>1. UNCHANGED tables
    BY <1>1, <1>6 DEF LeaveHandler, tables
  <2>2. /\ flying' \in [MsgKinds -> Seq(Messages)]
        /\ \A k \in Answers : flying'[k] = flying[k]
    <3>1. CASE S = {}
      BY <1>1, <3>1 DEF LeaveHandler, Typed
    <3>2. CASE S # {}
      <4>1. PICK f \in [MsgKinds -> Seq(Messages)] : f = flying
        BY <1>1 DEF Typed
      <4>2. PICK x \in Messages : x = Msg(addr[The(S)].ieee, NONE)
        <5>1. addr[The(S)].ieee \in Dev \cup {NoDev}
          BY <1>1, <1>4, <3>2 DEF Typed, AddrTabs, Entries
        <5>. QED BY <5>1, Basics DEF Messages, Msg
      <4>3. flying' = [f EXCEPT !["leaveInd"] = Append(@, x)]
        BY <1>6, <3>2, <4>1, <4>2 DEF LeaveHandler, Sends
      <4>4. "leaveInd" \in MsgKinds /\ Append(f["leaveInd"], x) \in Seq(Messages)
        BY DEF MsgKinds
      <4>. QED BY <4>1, <4>3, <4>4 DEF MsgKinds, Answers
    <3>. QED BY <3>1, <3>2
  <2>3. /\ addr' \in AddrTabs /\ index' \in Indexes /\ nbt' \in NbtTabs /\ nbtUsed' = nbtUsed
        /\ TabSound(T0', childNum)
        /\ \A e \in Dev, s \in Int : Entered(addr', e, s) => Entered(addr, e, s)
    BY <1>1, <2>1, SameTables
  <2>4. Fewer
    <3>1. \A e, s : Told(e, s)' => Told(e, s)
      BY <1>1, <2>2, NeverMind
    <3>. QED BY <1>2, <2>3, <3>1 DEF Fewer
  <2>. QED BY <1>1, <1>2, <1>3, <2>2, <2>3, <2>4, FewerStep
<1>. QED BY <1>5, <1>6

LEMMA StepDown ==
  ASSUME NEW b \in Nat, NEW e \in Nat, e < b
  PROVE  /\ (e + b - 1) % b \in 0 .. b - 1
         /\ e > 0 => (e + b - 1) % b = e - 1
         /\ e = 0 => (e + b - 1) % b = b - 1
<1>1. CASE e > 0
  <2>1. PICK k \in Nat : k = e - 1 /\ k < b
    BY <1>1
  <2>2. (k + b) % b = k
    BY <2>1
  <2>3. e + b - 1 = k + b
    BY <2>1
  <2>. QED BY <1>1, <2>1, <2>2, <2>3
<1>2. CASE e = 0
  <2>1. PICK k \in Nat : k = b - 1 /\ k < b
    BY <1>2
  <2>2. k % b = k
    BY <2>1
  <2>3. e + b - 1 = k
    BY <1>2, <2>1
  <2>. QED BY <1>2, <2>1, <2>2, <2>3
<1>. QED BY <1>1, <1>2

\* The last end device address is given free: it stays a given one.
LEMMA FreeAgain ==
  ASSUME Typed, Owners, Limited, NEW d \in Dev, NEW s \in Int, Entered(addr, d, s), FreesAddress(s),
         NEW c, c = [childNum EXCEPT !.ed = (@ + ByteLimit - 1) % ByteLimit]
  PROVE  /\ c \in Counters /\ c.router = childNum.router /\ LimitedBy(c)
         /\ \A x : Given(childNum, freed, x) => Given(c, freed \cup {s}, x)
<1>1. PICK r \in Nat, e \in Nat : r = childNum.router /\ e = childNum.ed /\ r <= MaxRouters /\ e < ByteLimit
                                 /\ childNum = [router |-> r, ed |-> e]
  <2>1. childNum \in Counters
    BY DEF Typed
  <2>. QED BY <2>1, CountersInt DEF Counters
<1>2. PICK base \in Nat : base = OwnAddr + MaxRouters * Cskip
  BY ChildConstants, CskipPositive
<1>3. s = base + e /\ EAddr(e) = base + e + 1
  BY <1>1, <1>2 DEF FreesAddress, EdAddress, EAddr
<1>4. Given(childNum, freed, s)
  <2>1. s # NONE
    BY <1>3 DEF NONE
  <2>2. Holds(d, s)
    BY <2>1 DEF Holds
  <2>. QED BY <2>2 DEF Owners
<1>5. PICK n \in 0 .. ByteLimit - 1 : /\ n = (e + ByteLimit - 1) % ByteLimit /\ (e > 0 => n = e - 1)
                                      /\ (e = 0 => n = ByteLimit - 1)
  BY <1>1, StepDown, ChildConstants
<1>6. c = [router |-> r, ed |-> n]
  BY <1>1, <1>5
<1>7. c \in Counters /\ c.router = childNum.router /\ childNum \in Counters
  BY <1>1, <1>5, <1>6 DEF Counters, Typed
<1>8. \A k \in 0 .. r - 1 : RAddr(k) <= base /\ (Cskip > 1 => RAddr(k) # base)
  BY <1>1, <1>2, Blocks, ChildConstants
<1>9. \A k \in Nat : EAddr(k) > base
  BY <1>2, Blocks
<1>10. \A x : GivenR(c, x) <=> GivenR(childNum, x)
  BY <1>1, <1>6 DEF GivenR
<1>11. CASE e > 0
  <2>1. LimitedBy(c)
    <3>1. n = e - 1
      BY <1>5, <1>11
    <3>. QED BY <1>1, <1>6, <3>1, ChildConstants DEF Limited, LimitedBy
  <2>2. ASSUME NEW x, GivenE(childNum, x) PROVE GivenE(c, x) \/ x = s
    <3>1. PICK k \in 0 .. e - 1 : x = EAddr(k)
      BY <1>1, <2>2 DEF GivenE
    <3>2. CASE k = e - 1
      <4>1. EAddr(k) = EAddr(e) - 1
        BY <1>2, <3>2 DEF EAddr
      <4>. QED BY <1>3, <3>1, <4>1
    <3>3. CASE k # e - 1
      <4>1. k \in 0 .. n - 1
        BY <1>5, <1>11, <3>3
      <4>. QED BY <1>6, <3>1, <4>1 DEF GivenE
    <3>. QED BY <3>2, <3>3
  <2>3. \A x : Given(childNum, freed, x) => Given(c, freed \cup {s}, x)
    BY <1>10, <2>2 DEF Given
  <2>. QED BY <1>7, <2>1, <2>3
<1>12. CASE e = 0
  <2>1. AtLeast(childNum, c)
    BY <1>1, <1>5, <1>6, <1>12, ChildConstants DEF AtLeast
  <2>2. \A x : Given(childNum, freed, x) => Given(c, freed \cup {s}, x)
    <3>1. \A x : Given(childNum, freed, x) => Given(c, freed, x)
      BY <1>7, <2>1, GivenMore
    <3>. QED BY <3>1 DEF Given
  <2>3. ~(Cskip > 1)
    <3>1. SUFFICES ASSUME Cskip > 1 PROVE FALSE
      OBVIOUS
    <3>2. ~GivenR(childNum, s)
      BY <1>1, <1>3, <1>8, <1>12, <3>1 DEF GivenR
    <3>3. ~EdBlock(s)
      <4>1. \A k \in 0 .. MaxChildren - 1 : EAddr(k) > base
        BY <1>9, ChildConstants
      <4>. QED BY <1>3, <1>12, <4>1 DEF EdBlock
    <3>. QED BY <1>4, <3>2, <3>3 DEF Given
  <2>. QED BY <1>7, <2>2, <2>3 DEF LimitedBy
<1>13. e > 0 \/ e = 0
  BY <1>1
<1>. QED BY <1>11, <1>12, <1>13

LEMMA LeaveRequestStep ==
  ASSUME ChildInv, NEW d \in Dev, LeaveRequest(d)
  PROVE  ChildInv'
<1>1. /\ Ok /\ Typed /\ Owners /\ Limited /\ Scanning /\ UNCHANGED <<tables, scan, rejoinTab, granted, fault>>
  BY DEF LeaveRequest, ChildInv
<1>2. PICK r \in NeighborByIeee(T0, d) :
        /\ IF FreesAddress(addr[r].short)
           THEN childNum' = [childNum EXCEPT !.ed = (@ + ByteLimit - 1) % ByteLimit] /\ freed' = freed \cup {addr[r].short}
           ELSE UNCHANGED <<childNum, freed>>
        /\ Sends("leaveCmd", d, addr[r].short)
  BY DEF LeaveRequest
<1>3. r \in Ref /\ addr[r].used /\ addr[r].ieee = d
  BY <1>2 DEF NeighborByIeee, IeeeSearch, T0
<1>4. PICK s \in Int : s = addr[r].short /\ Entered(addr, d, s)
  BY <1>1, <1>3 DEF Typed, AddrTabs, Entries, Entered
<1>5. flying' \in [MsgKinds -> Seq(Messages)] /\ \A e, x : Told(e, x)' => Told(e, x)
  <2>1. "leaveCmd" \in MsgKinds /\ "leaveCmd" \notin Answers /\ Sends("leaveCmd", d, s)
    BY <1>2, <1>4 DEF MsgKinds, Answers
  <2>. QED BY <1>1, <2>1, ToldSent
<1>6. /\ childNum' \in Counters /\ childNum'.router = childNum.router /\ LimitedBy(childNum')
      /\ freed \subseteq freed' /\ freed' \in SUBSET Int
      /\ \A x : Given(childNum, freed, x) => Given(childNum', freed', x)
  <2>1. CASE FreesAddress(s)
    <3>1. PICK c : c = [childNum EXCEPT !.ed = (@ + ByteLimit - 1) % ByteLimit]
      OBVIOUS
    <3>2. /\ c \in Counters /\ c.router = childNum.router /\ LimitedBy(c)
          /\ \A x : Given(childNum, freed, x) => Given(c, freed \cup {s}, x)
      BY <1>1, <1>4, <2>1, <3>1, FreeAgain
    <3>3. childNum' = c /\ freed' = freed \cup {s}
      BY <1>2, <1>4, <2>1, <3>1
    <3>. QED BY <1>1, <3>2, <3>3 DEF Typed
  <2>2. CASE ~FreesAddress(s)
    BY <1>1, <1>2, <1>4, <2>2 DEF Typed, Limited, LimitedBy
  <2>. QED BY <2>1, <2>2
<1>7. addr' = addr /\ index' = index /\ nbt' = nbt /\ nbtUsed' = nbtUsed
  BY <1>1 DEF tables
<1>8. \A e \in Dev, x \in Int : Holds(e, x)' => Holds(e, x)
  BY <1>1, <1>5, <1>7 DEF Holds
<1>9. Typed'
  BY <1>1, <1>5, <1>6, <1>7 DEF Typed, scan
<1>10. Owners'
  <2>1. ASSUME NEW e \in Dev, NEW x \in Int, Holds(e, x)' PROVE Given(childNum', freed', x)
    BY <1>1, <1>6, <1>8, <2>1 DEF Owners
  <2>2. ASSUME NEW e \in Dev, NEW f \in Dev, NEW x \in Int, e # f, Holds(e, x)', Holds(f, x)' PROVE x \in freed'
    <3>1. x \in freed
      BY <1>1, <1>8, <2>2 DEF Owners
    <3>. QED BY <1>6, <3>1
  <2>. QED BY <2>1, <2>2 DEF Owners
<1>11. Limited'
  BY <1>6 DEF Limited, LimitedBy
<1>12. TabSound(T0', childNum') /\ Scanning'
  <2>1. \A x : Known(childNum, x) => Known(childNum', x)
    BY <1>6 DEF Known, GivenR
  <2>2. Scanning'
    BY <1>1, <1>7, <2>1, ScanningKept DEF Scanning
  <2>3. T0 \in Tabs /\ TabSound(T0, childNum)
    BY <1>1, T0Facts DEF ChildInv
  <2>4. TabSound(T0, childNum')
    BY <2>1, <2>3, SoundMore
  <2>5. TabSound(T0', childNum')
    BY <1>1, <2>4, TablesKept
  <2>. QED BY <2>2, <2>5
<1>. QED BY <1>9, <1>10, <1>11, <1>12 DEF ChildInv

-----------------------------------------------------------------------------
\* The extended table: a beacon.
LEMMA BeaconHeardStep ==
  ASSUME ChildInv, NEW s \in Beaconing, BeaconHeard(s)
  PROVE  ChildInv'
<1>1. /\ Ok /\ Typed /\ Owners /\ Limited /\ Scanning /\ ext.size > 0 /\ Len(ext.seq) < ext.size
      /\ ext' = [ext EXCEPT !.seq = Append(@, s)]
      /\ UNCHANGED <<tables, nbtSize, scans, childNum, rejoinTab, flying, devices, fault>>
  BY DEF BeaconHeard, ChildInv
<1>2. s \in Int /\ Known(childNum, s)
  <2>1. CASE s \in Heard
    BY <2>1, ChildConstants DEF Known
  <2>2. CASE s \notin Heard
    <3>1. PICK d \in Dev : s = granted[d] /\ s \in 1 .. OwnAddr + MaxRouters * Cskip
      BY <2>2 DEF Beaconing
    <3>2. PICK base \in Nat : base = OwnAddr + MaxRouters * Cskip
      BY ChildConstants, CskipPositive
    <3>3. s \in Int /\ s # NONE /\ s <= base
      BY <3>1, <3>2 DEF NONE
    <3>4. Given(childNum, freed, s)
      BY <1>1, <3>1, <3>3 DEF Holds, Owners
    <3>5. ~EdBlock(s)
      <4>1. \A k \in 0 .. MaxChildren - 1 : EAddr(k) > base /\ EAddr(k) \in Nat
        BY <3>2, Blocks, ChildConstants
      <4>. QED BY <3>2, <3>3, <4>1 DEF EdBlock
    <3>. QED BY <3>3, <3>4, <3>5 DEF Given, Known
  <2>. QED BY <2>1, <2>2
<1>3. PICK q \in Seq(Int) : q = ext.seq
  BY <1>1 DEF Typed
<1>4. PICK n \in Int : n = ext.size
  BY <1>1 DEF Typed
<1>5. /\ ext'.size = n /\ ext'.seq = Append(q, s) /\ ext' \in [size : Int, seq : Seq(Int)]
  <2>1. ext = [size |-> n, seq |-> q]
    BY <1>1, <1>3, <1>4 DEF Typed
  <2>2. Append(q, s) \in Seq(Int)
    BY <1>2
  <2>. QED BY <1>1, <2>1, <2>2
<1>6. addr' = addr /\ index' = index /\ nbt' = nbt /\ nbtUsed' = nbtUsed /\ granted' = granted /\ freed' = freed
  BY <1>1 DEF tables, devices
<1>7. Typed'
  BY <1>1, <1>5, <1>6 DEF Typed
<1>8. Owners'
  <2>1. \A e \in Dev, x \in Int : Holds(e, x)' => Holds(e, x)
    BY <1>1, <1>6 DEF Holds, Told
  <2>. QED BY <1>1, <1>6, <2>1, OwnersFewer
<1>9. Limited'
  BY <1>1 DEF Limited
<1>10. Scanning'
  <2>1. Len(Append(q, s)) = Len(q) + 1 /\ DOMAIN Append(q, s) = 1 .. Len(q) + 1
    BY <1>2
  <2>2. \A i \in DOMAIN Append(q, s) : Known(childNum, Append(q, s)[i])
    <3>1. ASSUME NEW i \in DOMAIN Append(q, s) PROVE Known(childNum, Append(q, s)[i])
      <4>1. CASE i \in DOMAIN q
        BY <1>1, <1>3, <2>1, <4>1 DEF Scanning
      <4>2. CASE i \notin DOMAIN q
        BY <1>2, <2>1, <4>2
      <4>. QED BY <4>1, <4>2
    <3>. QED BY <3>1
  <2>3. n > 0 /\ Len(q) + 1 <= n
    BY <1>1, <1>3, <1>4
  <2>4. nbtUsed' <= nbtSize' /\ n * ExtBytes <= (Size - nbtSize') * EntBytes
    BY <1>1, <1>4, <1>6 DEF Scanning
  <2>. QED BY <1>1, <1>5, <2>1, <2>2, <2>3, <2>4 DEF Scanning
<1>11. TabSound(T0', childNum')
  BY <1>1, TablesKept DEF ChildInv
<1>. QED BY <1>7, <1>8, <1>9, <1>10, <1>11 DEF ChildInv

-----------------------------------------------------------------------------
\* The extended table: packing.
PackStates == [index : [Ref -> Int], nbt : NbtTabs, hole : Int, seen : Int, fault : Faults]
PackTab(p) == [addr |-> addr, index |-> p.index, nbt |-> p.nbt, used |-> nbtUsed]
SameEntries(p) == \A r \in Ref : p.index[r] # NONE => index[r] # NONE /\ p.nbt[p.index[r]] = nbt[index[r]]
Packing(p, i) ==
  /\ p \in PackStates /\ p.index \in Indexes /\ p.hole \in 0 .. i
  /\ Indexed(PackTab(p)) /\ SameEntries(p)
  /\ p.seen < nbtUsed /\ p.fault = "none" => \A j \in Slot : i - p.hole <= j /\ j < i => ~p.nbt[j].used

LEMMA PackClosed ==
  ASSUME NEW p \in PackStates, NEW i \in Slot
  PROVE  PackStep(p, i) \in PackStates
<1>1. PICK e \in Ents : e = p.nbt[i]
  BY DEF PackStates, NbtTabs
<1>2. CASE p.seen >= nbtUsed \/ p.fault # "none"
  BY <1>2 DEF PackStep
<1>3. CASE ~(p.seen >= nbtUsed \/ p.fault # "none") /\ p.nbt[i] = Leftover
  <2>1. PackStep(p, i) = [p EXCEPT !.fault = "leftover"]
    BY <1>3 DEF PackStep
  <2>. QED BY <2>1 DEF PackStates, Faults
<1>4. CASE ~(p.seen >= nbtUsed \/ p.fault # "none") /\ p.nbt[i] # Leftover /\ ~p.nbt[i].used
  <2>1. PackStep(p, i) = [p EXCEPT !.hole = @ + 1]
    BY <1>4 DEF PackStep
  <2>. QED BY <2>1 DEF PackStates
<1>5. CASE ~(p.seen >= nbtUsed \/ p.fault # "none") /\ p.nbt[i] # Leftover /\ p.nbt[i].used /\ p.hole = 0
  <2>1. PackStep(p, i) = [p EXCEPT !.seen = @ + 1]
    BY <1>5 DEF PackStep
  <2>. QED BY <2>1 DEF PackStates
<1>6. CASE ~(p.seen >= nbtUsed \/ p.fault # "none") /\ p.nbt[i] # Leftover /\ p.nbt[i].used /\ p.hole # 0
  <2>1. PICK t \in Int : t = i - p.hole
    BY Basics DEF PackStates
  <2>2. PICK m \in Ents : m = EmptyEnt
    BY DEF Ents, EmptyEnt
  <2>3. PackStep(p, i) = [p EXCEPT !.seen = @ + 1, !.hole = @ - 1, !.index[e.ref] = t,
                                   !.nbt = [@ EXCEPT ![t] = e, ![i] = m]]
    BY <1>1, <1>6, <2>1, <2>2 DEF PackStep
  <2>4. PICK n \in NbtTabs : n = [p.nbt EXCEPT ![t] = e, ![i] = m]
    <3>1. PICK b \in [Slot -> Ents] : b = p.nbt
      BY DEF PackStates, NbtTabs
    <3>2. [b EXCEPT ![t] = e, ![i] = m] \in [Slot -> Ents]
      OBVIOUS
    <3>. QED BY <3>1, <3>2 DEF NbtTabs
  <2>5. PICK x \in [Ref -> Int] : x = [p.index EXCEPT ![e.ref] = t]
    <3>1. PICK y \in [Ref -> Int] : y = p.index
      BY DEF PackStates
    <3>2. [y EXCEPT ![e.ref] = t] \in [Ref -> Int]
      OBVIOUS
    <3>. QED BY <3>1, <3>2
  <2>6. PackStep(p, i) = [p EXCEPT !.seen = @ + 1, !.hole = @ - 1, !.index = x, !.nbt = n]
    <3>1. [p EXCEPT !.seen = @ + 1, !.hole = @ - 1, !.index[e.ref] = t, !.nbt = [@ EXCEPT ![t] = e, ![i] = m]]
          = [p EXCEPT !.seen = @ + 1, !.hole = @ - 1, !.index = [p.index EXCEPT ![e.ref] = t],
                      !.nbt = [p.nbt EXCEPT ![t] = e, ![i] = m]]
      BY DEF PackStates
    <3>. QED BY <2>3, <2>4, <2>5, <3>1
  <2>7. PICK h \in Int, s \in Int : h = p.hole - 1 /\ s = p.seen + 1
    BY DEF PackStates
  <2>8. PackStep(p, i) = [p EXCEPT !.seen = s, !.hole = h, !.index = x, !.nbt = n]
    BY <2>6, <2>7
  <2>9. [p EXCEPT !.seen = s, !.hole = h, !.index = x, !.nbt = n] \in PackStates
    BY DEF PackStates
  <2>. QED BY <2>8, <2>9
<1>. QED BY <1>2, <1>3, <1>4, <1>5, <1>6

LEMMA PackKept ==
  ASSUME Typed, NEW i \in Slot, NEW p, Packing(p, i)
  PROVE  Packing(PackStep(p, i), i + 1)
<1>. DEFINE q == PackStep(p, i)
<1>0. /\ p \in PackStates /\ p.index \in Indexes /\ p.nbt \in NbtTabs /\ p.hole \in Int /\ 0 <= p.hole /\ p.hole <= i
      /\ i \in Int /\ 0 <= i /\ p.seen \in Int /\ nbtUsed \in Int
      /\ Indexed(PackTab(p)) /\ SameEntries(p)
      /\ p.seen < nbtUsed /\ p.fault = "none" => \A j \in Slot : i - p.hole <= j /\ j < i => ~p.nbt[j].used
  BY ChildConstants DEF Packing, PackStates, Slot, Typed
<1>1. q \in PackStates
  BY <1>0, PackClosed
<1>i. /\ \A r \in Ref : p.index[r] # NONE =>
           p.index[r] < nbtUsed /\ p.nbt[p.index[r]].used /\ p.nbt[p.index[r]].ref = r /\ addr[r].used
      /\ \A j \in Slot : p.nbt[j].used => p.nbt[j].ref \in Ref /\ p.index[p.nbt[j].ref] = j
  BY <1>0 DEF PackTab, Indexed
<1>2. ASSUME NEW z \in PackStates, z.index = p.index, z.nbt = p.nbt, z.hole \in 0 .. i + 1,
             z.seen < nbtUsed /\ z.fault = "none" => \A j \in Slot : (i + 1) - z.hole <= j /\ j < i + 1 => ~z.nbt[j].used
      PROVE  Packing(z, i + 1)
  <2>1. PackTab(z) = PackTab(p)
    BY <1>2 DEF PackTab
  <2>2. SameEntries(z)
    BY <1>0, <1>2 DEF SameEntries
  <2>. QED BY <1>0, <1>2, <2>1, <2>2 DEF Packing
<1>3. CASE p.seen >= nbtUsed \/ p.fault # "none"
  <2>1. q = p
    BY <1>3 DEF PackStep
  <2>2. p.hole \in 0 .. i + 1 /\ ~(p.seen < nbtUsed /\ p.fault = "none")
    BY <1>0, <1>3
  <2>. HIDE DEF q
  <2>. QED BY <1>0, <1>2, <2>1, <2>2 DEF q
<1>4. CASE ~(p.seen >= nbtUsed \/ p.fault # "none") /\ p.nbt[i] = Leftover
  <2>1. q = [p EXCEPT !.fault = "leftover"]
    BY <1>4 DEF PackStep
  <2>. HIDE DEF q
  <2>2. q.index = p.index /\ q.nbt = p.nbt /\ q.hole = p.hole /\ q.fault = "leftover"
    BY <2>1 DEF PackStates
  <2>3. p.hole \in 0 .. i + 1
    BY <1>0
  <2>. QED BY <1>1, <1>2, <2>2, <2>3 DEF q
<1>5. CASE ~(p.seen >= nbtUsed \/ p.fault # "none") /\ p.nbt[i] # Leftover /\ ~p.nbt[i].used
  <2>1. q = [p EXCEPT !.hole = @ + 1]
    BY <1>5 DEF PackStep
  <2>. HIDE DEF q
  <2>2. q.index = p.index /\ q.nbt = p.nbt /\ q.hole = p.hole + 1
    BY <1>0, <2>1 DEF PackStates
  <2>3. p.seen < nbtUsed /\ p.fault = "none"
    BY <1>0, <1>5
  <2>4. q.hole \in 0 .. i + 1
    BY <1>0, <2>2
  <2>5. ASSUME NEW j \in Slot, (i + 1) - q.hole <= j, j < i + 1 PROVE ~q.nbt[j].used
    <3>1. j \in Int
      BY Basics
    <3>2. j = i \/ (i - p.hole <= j /\ j < i)
      BY <1>0, <2>2, <2>5, <3>1
    <3>. QED BY <1>0, <1>5, <2>2, <2>3, <3>2
  <2>. QED BY <1>1, <1>2, <2>2, <2>4, <2>5 DEF q
<1>6. CASE ~(p.seen >= nbtUsed \/ p.fault # "none") /\ p.nbt[i] # Leftover /\ p.nbt[i].used /\ p.hole = 0
  <2>1. q = [p EXCEPT !.seen = @ + 1]
    BY <1>6 DEF PackStep
  <2>. HIDE DEF q
  <2>2. q.index = p.index /\ q.nbt = p.nbt /\ q.hole = 0
    BY <1>6, <2>1 DEF PackStates
  <2>3. q.hole \in 0 .. i + 1
    BY <1>0, <2>2
  <2>4. ASSUME NEW j \in Slot, (i + 1) - q.hole <= j, j < i + 1 PROVE ~q.nbt[j].used
    <3>1. j \in Int
      BY Basics
    <3>2. (i + 1) - 0 <= j
      BY <2>2, <2>4
    <3>. QED BY <1>0, <2>4, <3>1, <3>2
  <2>. QED BY <1>1, <1>2, <2>2, <2>3, <2>4 DEF q
<1>7. CASE ~(p.seen >= nbtUsed \/ p.fault # "none") /\ p.nbt[i] # Leftover /\ p.nbt[i].used /\ p.hole # 0
  <2>1. PICK t \in Slot : t = i - p.hole /\ t < i
    <3>1. i < Size /\ Size \in Nat
      BY ChildConstants DEF Slot
    <3>2. PICK t \in Int : t = i - p.hole
      BY <1>0
    <3>3. 0 <= t /\ t < i /\ t < Size
      BY <1>0, <1>7, <3>1, <3>2
    <3>. QED BY <3>2, <3>3, Basics
  <2>2. PICK e \in Ents : e = p.nbt[i] /\ e.used
    BY <1>0, <1>7 DEF NbtTabs
  <2>3. PICK r \in Ref : r = e.ref /\ p.index[r] = i
    BY <1>i, <2>2
  <2>4. PICK m \in Ents : m = EmptyEnt /\ ~m.used
    <3>1. EmptyEnt \in Ents /\ ~EmptyEnt.used
      BY DEF Ents, EmptyEnt
    <3>. QED BY <3>1
  <2>5. q = [p EXCEPT !.seen = @ + 1, !.hole = @ - 1, !.index[r] = t, !.nbt = [@ EXCEPT ![t] = e, ![i] = m]]
    BY <1>7, <2>1, <2>2, <2>3, <2>4 DEF PackStep
  <2>. HIDE DEF q
  <2>6. PICK n \in NbtTabs : n = [p.nbt EXCEPT ![t] = e, ![i] = m] /\ n[t] = e /\ n[i] = m
                             /\ \A j \in Slot \ {t, i} : n[j] = p.nbt[j]
    <3>1. PICK b \in [Slot -> Ents] : b = p.nbt
      BY <1>0 DEF NbtTabs
    <3>2. /\ [b EXCEPT ![t] = e, ![i] = m] \in [Slot -> Ents]
          /\ [b EXCEPT ![t] = e, ![i] = m][t] = e /\ [b EXCEPT ![t] = e, ![i] = m][i] = m
          /\ \A j \in Slot \ {t, i} : [b EXCEPT ![t] = e, ![i] = m][j] = b[j]
      BY <2>1, Basics
    <3>. QED BY <3>1, <3>2 DEF NbtTabs
  <2>7. PICK x \in Indexes : x = [p.index EXCEPT ![r] = t] /\ x[r] = t /\ \A s \in Ref \ {r} : x[s] = p.index[s]
    <3>1. PICK y \in [Ref -> Slot \cup {NONE}] : y = p.index
      BY <1>0 DEF Indexes
    <3>2. /\ [y EXCEPT ![r] = t] \in [Ref -> Slot \cup {NONE}] /\ [y EXCEPT ![r] = t][r] = t
          /\ \A s \in Ref \ {r} : [y EXCEPT ![r] = t][s] = y[s]
      OBVIOUS
    <3>. QED BY <3>1, <3>2 DEF Indexes
  <2>8. q = [p EXCEPT !.seen = @ + 1, !.hole = @ - 1, !.index = x, !.nbt = n]
    <3>1. [p EXCEPT !.seen = @ + 1, !.hole = @ - 1, !.index[r] = t, !.nbt = [@ EXCEPT ![t] = e, ![i] = m]]
          = [p EXCEPT !.seen = @ + 1, !.hole = @ - 1, !.index = [p.index EXCEPT ![r] = t],
                      !.nbt = [p.nbt EXCEPT ![t] = e, ![i] = m]]
      BY <1>0 DEF PackStates
    <3>. QED BY <2>5, <2>6, <2>7, <3>1
  <2>9. q.index = x /\ q.nbt = n /\ q.hole = p.hole - 1
    BY <1>0, <2>8 DEF PackStates
  <2>10. p.seen < nbtUsed /\ p.fault = "none" /\ ~p.nbt[t].used
    BY <1>0, <1>7, <2>1, Basics
  <2>11. ASSUME NEW s \in Ref, s # r, p.index[s] # NONE
         PROVE  x[s] = p.index[s] /\ p.index[s] \in Slot \ {t, i} /\ n[x[s]] = p.nbt[p.index[s]]
    <3>1. p.index[s] \in Slot /\ p.nbt[p.index[s]].used /\ p.nbt[p.index[s]].ref = s
      BY <1>0, <1>i, <2>11 DEF Indexes
    <3>2. p.index[s] # t /\ p.index[s] # i
      BY <2>2, <2>3, <2>10, <2>11, <3>1
    <3>. QED BY <2>6, <2>7, <2>11, <3>1, <3>2
  <2>12. Indexed(PackTab(q))
    <3>1. ASSUME NEW s \in Ref, x[s] # NONE PROVE x[s] < nbtUsed /\ n[x[s]].used /\ n[x[s]].ref = s /\ addr[s].used
      <4>1. CASE s = r
        <5>1. i < nbtUsed /\ addr[r].used
          BY <1>i, <2>3, Basics
        <5>2. t < nbtUsed
          BY <1>0, <2>1, <5>1, Basics
        <5>. QED BY <2>2, <2>3, <2>6, <2>7, <4>1, <5>1, <5>2
      <4>2. CASE s # r
        <5>1. p.index[s] # NONE
          BY <2>7, <3>1, <4>2
        <5>. QED BY <1>i, <2>11, <4>2, <5>1
      <4>. QED BY <4>1, <4>2
    <3>2. ASSUME NEW j \in Slot, n[j].used PROVE n[j].ref \in Ref /\ x[n[j].ref] = j
      <4>1. CASE j = t
        BY <2>3, <2>6, <2>7, <4>1
      <4>2. CASE j # t
        <5>1. j # i /\ n[j] = p.nbt[j]
          BY <2>4, <2>6, <3>2, <4>2
        <5>2. p.nbt[j].ref \in Ref /\ p.index[p.nbt[j].ref] = j
          BY <1>i, <3>2, <5>1
        <5>. QED BY <2>3, <2>7, <5>1, <5>2
      <4>. QED BY <4>1, <4>2
    <3>3. PICK T : T = PackTab(q) /\ T.index = x /\ T.nbt = n /\ T.used = nbtUsed /\ T.addr = addr
      <4>1. PackTab(q) = [addr |-> addr, index |-> x, nbt |-> n, used |-> nbtUsed]
        BY <2>9 DEF PackTab
      <4>. QED BY <4>1
    <3>. QED BY <3>1, <3>2, <3>3 DEF Indexed
  <2>13. SameEntries(q)
    <3>1. ASSUME NEW s \in Ref, x[s] # NONE PROVE index[s] # NONE /\ n[x[s]] = nbt[index[s]]
      <4>1. CASE s = r
        <5>1. p.index[r] # NONE /\ n[x[r]] = p.nbt[p.index[r]]
          BY <2>2, <2>3, <2>6, <2>7, Basics
        <5>. QED BY <1>0, <4>1, <5>1 DEF SameEntries
      <4>2. CASE s # r
        <5>1. p.index[s] # NONE /\ n[x[s]] = p.nbt[p.index[s]]
          BY <2>7, <2>11, <3>1, <4>2
        <5>. QED BY <1>0, <5>1 DEF SameEntries
      <4>. QED BY <4>1, <4>2
    <3>. QED BY <2>9, <3>1 DEF SameEntries
  <2>14. q.hole \in 0 .. i + 1
    BY <1>0, <1>7, <2>9
  <2>15. ASSUME NEW j \in Slot, (i + 1) - q.hole <= j, j < i + 1 PROVE ~q.nbt[j].used
    <3>1. j \in Int
      BY Basics
    <3>2. j = i \/ (i - p.hole <= j /\ j < i /\ j # t /\ j # i)
      BY <1>0, <2>1, <2>9, <2>15, <3>1
    <3>3. CASE j = i
      BY <2>4, <2>6, <2>9, <3>3
    <3>4. CASE i - p.hole <= j /\ j < i /\ j # t /\ j # i
      BY <1>0, <2>6, <2>9, <2>10, <3>4
    <3>. QED BY <3>2, <3>3, <3>4
  <2>. QED BY <1>1, <2>7, <2>9, <2>12, <2>13, <2>14, <2>15 DEF Packing, q
<1>. QED BY <1>3, <1>4, <1>5, <1>6, <1>7

LEMMA PackedFacts ==
  ASSUME Typed, TabSound(T0, childNum)
  PROVE  Packing(Packed, nbtSize)
<1>. DEFINE p0 == [index |-> index, nbt |-> nbt, hole |-> 0, seen |-> 0, fault |-> "none"]
            Follows(f) == f = [i \in 0 .. nbtSize |-> IF i = 0 THEN p0 ELSE PackStep(f[i - 1], i - 1)]
            packed == CHOOSE f : Follows(f)
<1>1. /\ nbtSize \in Nat /\ nbtSize <= Size /\ Size \in Nat
      /\ index \in Indexes /\ nbt \in NbtTabs
  BY ChildConstants DEF Typed
<1>2. p0 \in PackStates
  <2>1. Indexes \subseteq [Ref -> Int]
    BY Basics DEF Indexes
  <2>. QED BY <1>1, <2>1 DEF PackStates, Faults
<1>3. \A k \in 1 .. nbtSize : k - 1 \in Slot
  BY <1>1 DEF Slot
<1>4. Follows(packed)
  <2>. DEFINE step == [s \in (1 .. nbtSize) \X PackStates |-> PackStep(s[2], s[1] - 1)]
  <2>1. step \in [(1 .. nbtSize) \X PackStates -> PackStates]
    <3>1. ASSUME NEW s \in (1 .. nbtSize) \X PackStates PROVE PackStep(s[2], s[1] - 1) \in PackStates
      BY <1>3, PackClosed
    <3>. QED BY <3>1
  <2>2. PICK st \in [(1 .. nbtSize) \X PackStates -> PackStates] :
          \A k \in 1 .. nbtSize, x \in PackStates : st[<<k, x>>] = PackStep(x, k - 1)
    <3>1. \A k \in 1 .. nbtSize, x \in PackStates : step[<<k, x>>] = PackStep(x, k - 1)
      OBVIOUS
    <3>. HIDE DEF step
    <3>. QED BY <2>1, <3>1
  <2>. HIDE DEF p0, step
  <2>3. PICK h : Run(PackStates, p0, nbtSize, st, h)
    <3>1. Stepper(PackStates, nbtSize, st)
      BY <2>2 DEF Stepper
    <3>. QED BY <1>1, <1>2, <3>1, RunExists
  <2>4. h \in [0 .. nbtSize -> PackStates]
    BY <2>3 DEF Run
  <2>5. \A k \in 0 .. nbtSize : h[k] = IF k = 0 THEN p0 ELSE PackStep(h[k - 1], k - 1)
    <3>1. ASSUME NEW k \in 0 .. nbtSize PROVE h[k] = IF k = 0 THEN p0 ELSE PackStep(h[k - 1], k - 1)
      <4>1. CASE k = 0
        BY <2>3, <4>1 DEF Run
      <4>2. CASE k # 0
        <5>1. k \in 1 .. nbtSize /\ h[k - 1] \in PackStates
          BY <1>1, <2>4, <4>2
        <5>2. h[k] = st[<<k, h[k - 1]>>]
          BY <2>3, <4>2 DEF Run
        <5>. QED BY <2>2, <4>2, <5>1, <5>2
      <4>. QED BY <4>1, <4>2
    <3>. QED BY <3>1
  <2>6. Follows(h)
    BY <2>4, <2>5
  <2>. HIDE DEF Follows
  <2>. QED BY <2>6
<1>5. \A k \in 0 .. nbtSize : packed[k] = IF k = 0 THEN p0 ELSE PackStep(packed[k - 1], k - 1)
  <2>1. PICK f : f = packed
    OBVIOUS
  <2>2. f = [i \in 0 .. nbtSize |-> IF i = 0 THEN p0 ELSE PackStep(f[i - 1], i - 1)]
    BY <1>4, <2>1
  <2>. HIDE DEF p0, packed
  <2>3. \A k \in 0 .. nbtSize : f[k] = IF k = 0 THEN p0 ELSE PackStep(f[k - 1], k - 1)
    BY <2>2, Zenon
  <2>. QED BY <2>1, <2>3
<1>6. Packed = packed[nbtSize]
  BY DEF Packed
<1>7. Packing(p0, 0)
  <2>1. PICK p \in PackStates : p = p0 /\ p.index = index /\ p.nbt = nbt /\ p.hole = 0
    BY <1>2
  <2>2. Indexed(PackTab(p))
    <3>1. PICK T : T = PackTab(p) /\ T.index = index /\ T.nbt = nbt /\ T.used = nbtUsed /\ T.addr = addr
      <4>1. PackTab(p) = [addr |-> addr, index |-> index, nbt |-> nbt, used |-> nbtUsed]
        BY <2>1 DEF PackTab
      <4>. QED BY <4>1
    <3>2. PICK z : z = T0 /\ z.index = index /\ z.nbt = nbt /\ z.used = nbtUsed /\ z.addr = addr
      BY DEF T0
    <3>3. Indexed(z)
      BY <3>2 DEF TabSound
    <3>. QED BY <3>1, <3>2, <3>3 DEF Indexed
  <2>3. SameEntries(p)
    BY <2>1 DEF SameEntries
  <2>4. \A j \in Slot : ~(0 - 0 <= j /\ j < 0)
    BY Basics
  <2>. HIDE DEF p0
  <2>. QED BY <1>1, <2>1, <2>2, <2>3, <2>4 DEF Packing
<1>. HIDE DEF p0, packed
<1>. DEFINE Reached == {k \in Nat : k <= nbtSize => Packing(packed[k], k)}
<1>8. 0 \in Reached
  BY <1>1, <1>5, <1>7
<1>9. ASSUME NEW k \in Nat, k \in Reached PROVE k + 1 \in Reached
  <2>1. SUFFICES ASSUME k + 1 <= nbtSize PROVE Packing(packed[k + 1], k + 1)
    OBVIOUS
  <2>2. Packing(packed[k], k) /\ k \in Slot
    BY <1>1, <1>9, <2>1 DEF Slot
  <2>3. packed[k + 1] = PackStep(packed[k], k)
    BY <1>1, <1>5, <2>1
  <2>. QED BY <2>2, <2>3, PackKept
<1>10. Nat \subseteq Reached
  <2>. HIDE DEF Reached
  <2>. QED BY <1>8, <1>9, NatClosed
<1>. QED BY <1>1, <1>6, <1>10

LEMMA Halves ==
  ASSUME NEW n \in Nat
  PROVE  n \div 2 \in Nat /\ n \div 2 <= n
  OBVIOUS

LEMMA Rounded ==
  ASSUME NEW n \in Nat
  PROVE  RoundTo4(n) \in Nat /\ RoundTo4(n) >= n
  BY DEF RoundTo4

LEMMA Quotient ==
  ASSUME NEW y \in Int, NEW e \in Nat \ {0}
  PROVE  y \div e \in Int /\ (y \div e) * e <= y
<1>1. y \div e \in Int
  OBVIOUS
<1>2. (y \div e) * e <= y
  OBVIOUS
<1>. QED BY <1>1, <1>2

LEMMA CutFacts ==
  ASSUME Typed, nbtUsed <= nbtSize
  PROVE  /\ Cut \in Nat /\ Cut <= nbtSize /\ nbtUsed <= nbtSize - Cut
         /\ ExtSizeFor(nbtSize - Cut, Cut) \in Int
         /\ ExtSizeFor(nbtSize - Cut, Cut) * ExtBytes <= Cut * EntBytes
<1>1. PICK n \in Nat, u \in Nat : n = nbtSize /\ u = nbtUsed /\ u <= n
  BY ChildConstants DEF Typed
<1>2. PICK h \in Nat : h = n \div 2 /\ h <= n
  BY Halves
<1>3. PICK c \in Nat : c = Cut /\ c <= n /\ u <= n - c
  <2>1. Cut = IF u > n - h THEN n - u ELSE h
    BY <1>1, <1>2 DEF Cut
  <2>2. CASE u > n - h
    BY <1>1, <2>1, <2>2
  <2>3. CASE ~(u > n - h)
    BY <1>1, <1>2, <2>1, <2>3
  <2>. QED BY <2>2, <2>3
<1>4. PICK s \in Nat : s = n - c
  BY <1>3
<1>5. EntBytes \in Nat /\ ExtBytes \in Nat \ {0}
  BY ChildConstants
<1>6. PICK x \in Nat, b \in Nat : x = s * EntBytes /\ b = c * EntBytes
  BY <1>5
<1>7. PICK o \in Nat : o = Offset(s) /\ o >= x
  BY <1>6, Rounded DEF Offset
<1>8. PICK y \in Int : y = b - (o - x) /\ y <= b
  BY <1>7
<1>9. PICK z \in Int : z = y \div ExtBytes /\ z * ExtBytes <= y
  BY <1>5, Quotient
<1>10. ExtSizeFor(s, c) = z
  BY <1>6, <1>7, <1>8, <1>9 DEF ExtSizeFor
<1>11. z * ExtBytes \in Int
  BY <1>5
<1>. QED BY <1>1, <1>3, <1>4, <1>6, <1>8, <1>9, <1>10, <1>11

LEMMA ExneighborStartStep ==
  ASSUME ChildInv, ExneighborStart
  PROVE  ChildInv'
<1>1. /\ Ok /\ Typed /\ Owners /\ Limited /\ Scanning /\ TabSound(T0, childNum) /\ ext.size = 0 /\ scans' = scans + 1
      /\ nbtSize' = nbtSize - Cut /\ ext' = [size |-> ExtSizeFor(nbtSize - Cut, Cut), seq |-> <<>>]
      /\ UNCHANGED <<addr, nbtUsed, childNum, rejoinTab, flying, devices>>
  BY DEF ExneighborStart, ChildInv
<1>2. PICK p : /\ p = Packed /\ index' = p.index /\ nbt' = p.nbt
               /\ fault' = IF p.fault # "none" THEN p.fault
                           ELSE IF Offset(nbtSize - Cut) >= ByteLimit THEN "offset"
                           ELSE IF ExtSizeFor(nbtSize - Cut, Cut) <= 0 THEN "noExt" ELSE "none"
  BY DEF ExneighborStart
<1>3. /\ p \in PackStates /\ p.index \in Indexes /\ Indexed(PackTab(p)) /\ SameEntries(p)
      /\ p.nbt \in NbtTabs /\ p.fault \in Faults
  BY <1>1, <1>2, PackedFacts DEF Packing, PackStates
<1>4. nbtUsed <= nbtSize /\ nbtSize = Size
  BY <1>1 DEF Scanning, Typed
<1>5. PICK c \in Nat, z \in Int : /\ c = Cut /\ c <= nbtSize /\ nbtUsed <= nbtSize - c
                                  /\ z = ExtSizeFor(nbtSize - c, c) /\ z * ExtBytes <= c * EntBytes
  BY <1>1, <1>4, CutFacts
<1>6. ext' = [size |-> z, seq |-> <<>>] /\ nbtSize' = nbtSize - c
  BY <1>1, <1>5
<1>7. ext' \in [size : Int, seq : Seq(Int)] /\ ext'.size = z /\ ext'.seq = <<>>
  BY <1>6
<1>8. nbtSize' \in 0 .. Size
  BY <1>4, <1>5, <1>6, ChildConstants
<1>9. fault' \in Faults
  BY <1>2, <1>3 DEF Faults
<1>10. granted' = granted /\ freed' = freed
  BY <1>1 DEF devices
<1>11. Typed'
  BY <1>1, <1>2, <1>3, <1>7, <1>8, <1>9, <1>10 DEF Typed
<1>12. Owners'
  <2>1. \A e \in Dev, x \in Int : Holds(e, x)' => Holds(e, x)
    BY <1>1, <1>10 DEF Holds, Told
  <2>. QED BY <1>1, <1>10, <2>1, OwnersFewer
<1>13. Limited'
  BY <1>1 DEF Limited
<1>14. ASSUME Ok' PROVE Scanning'
  <2>1. z > 0
    BY <1>2, <1>3, <1>5, <1>14 DEF Ok, Faults
  <2>2. Size - nbtSize' = c
    BY <1>4, <1>5, <1>6, ChildConstants
  <2>3. nbtUsed' <= nbtSize'
    BY <1>1, <1>5, <1>6
  <2>4. Len(ext'.seq) = 0 /\ DOMAIN ext'.seq = {}
    BY <1>7
  <2>. QED BY <1>5, <1>7, <2>1, <2>2, <2>3, <2>4 DEF Scanning
<1>15. TabSound(T0', childNum')
  <2>1. PICK N : N = T0' /\ N.addr = addr /\ N.index = p.index /\ N.nbt = p.nbt /\ N.used = nbtUsed
    <3>1. T0' = [addr |-> addr, index |-> p.index, nbt |-> p.nbt, used |-> nbtUsed, fault |-> "none"]
      BY <1>1, <1>2, Zenon DEF T0
    <3>. QED BY <3>1
  <2>2. PICK T : T = T0 /\ T.index = index /\ T.nbt = nbt /\ T.used = nbtUsed /\ T.addr = addr
    <3>1. T0.index = index /\ T0.nbt = nbt /\ T0.used = nbtUsed /\ T0.addr = addr
      BY DEF T0
    <3>. QED BY <3>1
  <2>3. Indexed(N)
    <3>1. PICK Z : Z = PackTab(p) /\ Z.index = p.index /\ Z.nbt = p.nbt /\ Z.used = nbtUsed /\ Z.addr = addr
      <4>1. /\ PackTab(p).index = p.index /\ PackTab(p).nbt = p.nbt /\ PackTab(p).used = nbtUsed
            /\ PackTab(p).addr = addr
        BY DEF PackTab
      <4>. QED BY <4>1
    <3>2. Indexed(Z)
      BY <1>3, <3>1
    <3>. QED BY <2>1, <3>1, <3>2 DEF Indexed
  <2>4. Unique(N.addr) /\ Locked(N, childNum) /\ Kinds(N, childNum)
    <3>1. TabSound(T, childNum)
      BY <1>1, <2>2
    <3>2. Unique(N.addr) /\ Locked(N, childNum)
      BY <1>3, <2>1, <2>2, <3>1 DEF TabSound, Locked, SameEntries
    <3>3. ASSUME NEW r \in Ref, p.index[r] # NONE PROVE KindAt(N, childNum, r)
      <4>1. KindAt(T, childNum, r) /\ N.nbt[N.index[r]] = T.nbt[T.index[r]] /\ N.addr = T.addr
        BY <1>3, <2>1, <2>2, <3>1, <3>3 DEF TabSound, Kinds, SameEntries
      <4>. QED BY <4>1 DEF KindAt
    <3>. QED BY <2>1, <3>2, <3>3 DEF Kinds
  <2>. QED BY <1>1, <2>1, <2>3, <2>4 DEF TabSound
<1>. QED BY <1>11, <1>12, <1>13, <1>14, <1>15 DEF ChildInv

-----------------------------------------------------------------------------
\* The extended table: copying back.
NoNewDevice(a, b) == \A e \in Dev, x \in Int : Entered(b, e, x) => Entered(a, e, x)
Copying(T) == T \in Tabs /\ T.fault = "none" /\ TabSound(T, childNum) /\ NoNewDevice(addr, T.addr)

LEMMA GrownInside ==
  ASSUME Typed, Scanning, NEW i \in DOMAIN ext.seq
  PROVE  Grown(i) \in Int /\ Grown(i) <= Size
<1>1. PICK n \in Nat, e \in Nat \ {0}, x \in Nat, z \in Nat, m \in Nat :
        n = nbtSize /\ e = EntBytes /\ x = ExtBytes /\ z = Size /\ n <= z /\ m = Len(ext.seq)
  <2>1. Len(ext.seq) \in Nat
    BY DEF Typed
  <2>2. nbtSize \in Nat /\ nbtSize <= Size
    BY ChildConstants DEF Typed
  <2>. QED BY <2>1, <2>2, ChildConstants
<1>2. PICK k \in Nat : k = i - 1 /\ k < m
  <2>1. i \in 1 .. m
    BY <1>1 DEF Typed
  <2>2. i - 1 \in Nat /\ i - 1 < m
    BY <2>1
  <2>. QED BY <2>2
<1>3. PICK s \in Nat : s = ext.size /\ m <= s /\ s * x <= (z - n) * e
  <2>1. ext.size \in Int /\ m <= ext.size
    BY <1>1 DEF Typed, Scanning
  <2>2. ext.size \in Nat
    BY <2>1
  <2>. QED BY <1>1, <2>1, <2>2 DEF Scanning
<1>4. PICK g \in Nat : g = z - n
  BY <1>1
<1>5. k * x \in Nat /\ s * x \in Nat /\ g * e \in Nat /\ k * x <= s * x
  <2>1. PICK d \in Nat : s = k + d
    <3>1. s - k \in Nat /\ s = k + (s - k)
      BY <1>2, <1>3
    <3>. QED BY <3>1
  <2>2. s * x = k * x + d * x /\ d * x \in Nat /\ k * x \in Nat
    BY <1>1, <2>1
  <2>. QED BY <1>1, <1>4, <2>2
<1>6. PICK y \in Nat : y = k * x /\ y <= g * e
  BY <1>3, <1>4, <1>5
<1>7. PICK q \in Int : q = y \div e /\ q * e <= y
  BY <1>1, Quotient
<1>8. q <= g
  <2>1. SUFFICES ASSUME q > g PROVE FALSE
    BY <1>4
  <2>2. PICK d \in Nat : q = g + 1 + d
    <3>1. q - g - 1 \in Nat /\ q = g + 1 + (q - g - 1)
      BY <2>1
    <3>. QED BY <3>1
  <2>3. q * e = g * e + e + d * e /\ d * e \in Nat /\ g * e \in Nat /\ e >= 1
    BY <1>1, <2>2
  <2>. QED BY <1>6, <1>7, <2>3
<1>9. Grown(i) = n + q
  BY <1>1, <1>2, <1>6, <1>7 DEF Grown
<1>. QED BY <1>1, <1>4, <1>7, <1>8, <1>9

\* An address without a device.
LEMMA NamelessAdded ==
  ASSUME NEW T, Copying(T), NEW s \in Int, ShortSearch(T.addr, s) = {}, NEW b, NEW r,
         Written(T.addr, b, r, NoDev, s), ~T.addr[r].used, \A q \in Ref \ {r} : b[q] = T.addr[q],
         NEW N, Replacing(N, T, b, "none")
  PROVE  Copying(N) /\ N.index[r] = NONE
<1>1. /\ T \in Tabs /\ TabSound(T, childNum) /\ NoNewDevice(addr, T.addr)
      /\ N \in Tabs /\ N.addr = b /\ N.index = T.index /\ N.nbt = T.nbt /\ N.used = T.used /\ N.fault = "none"
      /\ r \in Ref /\ b[r].used /\ b[r].ieee = NoDev /\ b[r].short = s
  BY DEF Copying, Replacing, Written
<1>2. T.index[r] = NONE
  BY <1>1 DEF TabSound, Indexed
<1>3. \A q \in Ref : T.addr[q].used => T.addr[q].short # s
  BY DEF ShortSearch
<1>4. Unique(b)
  <2>1. ASSUME NEW q \in Ref, NEW p \in Ref, b[q].used, b[p].used,
               b[q].short = b[p].short \/ (b[q].ieee = b[p].ieee /\ b[q].ieee \in Dev)
        PROVE  q = p
    <3>1. CASE q = r \/ p = r
      BY <1>1, <1>3, <2>1, <3>1, DevAssumption
    <3>2. CASE q # r /\ p # r
      BY <1>1, <2>1, <3>2 DEF TabSound, Unique
    <3>. QED BY <3>1, <3>2
  <2>. QED BY <2>1 DEF Unique
<1>5. \A q \in Ref : T.index[q] # NONE => b[q] = T.addr[q]
  BY <1>2
<1>6. Indexed(N) /\ Locked(N, childNum) /\ Kinds(N, childNum)
  BY <1>1, <1>5 DEF TabSound, Indexed, Locked, Kinds, KindAt
<1>7. NoNewDevice(addr, b)
  <2>1. ASSUME NEW e \in Dev, NEW x \in Int, Entered(b, e, x) PROVE Entered(T.addr, e, x)
    BY <1>1, <2>1, DevAssumption DEF Entered
  <2>. QED BY <1>1, <2>1 DEF NoNewDevice
<1>. QED BY <1>1, <1>2, <1>4, <1>6, <1>7 DEF Copying, TabSound

\* A neighbor heard in a beacon.
LEMMA NeighborCopied ==
  ASSUME NEW T, Copying(T), NEW r \in Ref, T.index[r] = NONE, T.addr[r].used, Known(childNum, T.addr[r].short),
         T.used < Size,
         NEW N, N = [T EXCEPT !.index[r] = T.used, !.used = @ + 1,
                              !.nbt[T.used] = [NewEnt(r) EXCEPT !.type = "router", !.rxOn = TRUE]]
  PROVE  Copying(N)
<1>0. T \in Tabs /\ TabSound(T, childNum) /\ NoNewDevice(addr, T.addr) /\ T.fault = "none"
  BY DEF Copying
<1>1. T.used \in Nat /\ Size \in Nat
  BY <1>0, ChildConstants DEF Tabs
<1>2. PICK i \in Slot : i = T.used
  BY <1>1 DEF Slot
<1>e. PICK f \in Ents : f = NewEnt(r) /\ f.used /\ f.ref = r /\ f.rel = "none"
  <2>1. NewEnt(r) \in Ents /\ NewEnt(r).used /\ NewEnt(r).ref = r /\ NewEnt(r).rel = "none"
    BY DEF Ents, NewEnt
  <2>. QED BY <2>1
<1>d. PICK e : e = [f EXCEPT !.type = "router", !.rxOn = TRUE]
  OBVIOUS
<1>3. e \in Ents /\ e.used /\ e.ref = r /\ e.type = "router" /\ e.rel = "none"
  <2>1. e.used = f.used /\ e.ref = f.ref /\ e.type = "router" /\ e.rel = f.rel
    BY <1>d DEF Ents
  <2>2. e \in Ents
    BY <1>d DEF Ents
  <2>. QED BY <1>e, <2>1, <2>2
<1>4. PICK x \in Indexes : x = [T.index EXCEPT ![r] = i] /\ x[r] = i /\ \A q \in Ref \ {r} : x[q] = T.index[q]
  <2>1. PICK y \in [Ref -> Slot \cup {NONE}] : y = T.index
    BY <1>0 DEF Tabs, Indexes
  <2>2. /\ [y EXCEPT ![r] = i] \in [Ref -> Slot \cup {NONE}] /\ [y EXCEPT ![r] = i][r] = i
        /\ \A q \in Ref \ {r} : [y EXCEPT ![r] = i][q] = y[q]
    OBVIOUS
  <2>. QED BY <2>1, <2>2 DEF Indexes
<1>5. PICK n \in NbtTabs : n = [T.nbt EXCEPT ![i] = e] /\ n[i] = e /\ \A j \in Slot \ {i} : n[j] = T.nbt[j]
  <2>1. PICK m \in [Slot -> Ents] : m = T.nbt
    BY <1>0 DEF Tabs, NbtTabs
  <2>2. /\ [m EXCEPT ![i] = e] \in [Slot -> Ents] /\ [m EXCEPT ![i] = e][i] = e
        /\ \A j \in Slot \ {i} : [m EXCEPT ![i] = e][j] = m[j]
    BY <1>3
  <2>. QED BY <2>1, <2>2 DEF NbtTabs
<1>6. PICK u \in 0 .. Size : u = T.used + 1 /\ u = i + 1
  BY <1>1, <1>2
<1>8. /\ N \in Tabs /\ N.addr = T.addr /\ N.index = x /\ N.nbt = n /\ N.used = u /\ N.fault = "none"
  <2>1. N = [T EXCEPT !.index[r] = i, !.used = u, !.nbt[i] = e]
    BY <1>2, <1>d, <1>e, <1>6
  <2>2. [T EXCEPT !.index[r] = i, !.used = u, !.nbt[i] = e]
        = [T EXCEPT !.index = [T.index EXCEPT ![r] = i], !.used = u, !.nbt = [T.nbt EXCEPT ![i] = e]]
    BY <1>0 DEF Tabs
  <2>3. N = [T EXCEPT !.index = x, !.used = u, !.nbt = n]
    BY <1>4, <1>5, <2>1, <2>2
  <2>4. N.addr = T.addr /\ N.index = x /\ N.nbt = n /\ N.used = u /\ N.fault = "none"
    BY <1>0, <2>3 DEF Tabs
  <2>5. N \in Tabs
    BY <1>0, <2>3 DEF Tabs
  <2>. QED BY <2>4, <2>5
<1>9. \A q \in Ref \ {r} : x[q] = T.index[q] /\ (x[q] # NONE => x[q] \in Slot \ {i} /\ x[q] < T.used)
  BY <1>0, <1>2, <1>4, Basics DEF TabSound, Indexed, Tabs, Indexes
<1>11. Indexed(N)
  <2>1. ASSUME NEW q \in Ref, x[q] # NONE PROVE x[q] < u /\ n[x[q]].used /\ n[x[q]].ref = q /\ T.addr[q].used
    <3>1. CASE q = r
      BY <1>3, <1>4, <1>5, <1>6, <2>1, <3>1, Basics
    <3>2. CASE q # r
      <4>1. x[q] = T.index[q] /\ T.index[q] # NONE /\ n[x[q]] = T.nbt[x[q]] /\ x[q] < u
        BY <1>2, <1>5, <1>6, <1>9, <2>1, <3>2, Basics
      <4>. QED BY <1>0, <4>1 DEF TabSound, Indexed
    <3>. QED BY <3>1, <3>2
  <2>2. ASSUME NEW j \in Slot, n[j].used PROVE n[j].ref \in Ref /\ x[n[j].ref] = j
    <3>1. CASE j = i
      BY <1>3, <1>4, <1>5, <3>1
    <3>2. CASE j # i
      <4>1. n[j] = T.nbt[j]
        BY <1>5, <3>2
      <4>2. T.nbt[j].ref \in Ref /\ T.index[T.nbt[j].ref] = j
        BY <1>0, <2>2, <4>1 DEF TabSound, Indexed
      <4>3. T.nbt[j].ref # r
        BY <4>2, Basics
      <4>. QED BY <1>4, <4>1, <4>2, <4>3
    <3>. QED BY <3>1, <3>2
  <2>3. PICK M : M = N /\ M.addr = T.addr /\ M.index = x /\ M.nbt = n /\ M.used = u
    BY <1>8
  <2>4. Indexed(M)
    <3>1. ASSUME NEW q \in Ref, M.index[q] # NONE
          PROVE  M.index[q] < M.used /\ M.nbt[M.index[q]].used /\ M.nbt[M.index[q]].ref = q /\ M.addr[q].used
      <4>1. x[q] # NONE
        BY <2>3, <3>1
      <4>2. x[q] < u /\ n[x[q]].used /\ n[x[q]].ref = q /\ T.addr[q].used
        BY <2>1, <4>1
      <4>. QED BY <2>3, <4>2
    <3>2. \A j \in Slot : M.nbt[j].used => M.nbt[j].ref \in Ref /\ M.index[M.nbt[j].ref] = j
      BY <2>2, <2>3
    <3>. QED BY <3>1, <3>2 DEF Indexed
  <2>. QED BY <2>3, <2>4
<1>12. Unique(N.addr)
  BY <1>0, <1>8 DEF TabSound
<1>13. Locked(N, childNum)
  <2>1. ASSUME NEW q \in Ref, x[q] # NONE, T.addr[q].lock = 0 PROVE Known(childNum, T.addr[q].short)
    BY <1>0, <1>9, <2>1 DEF TabSound, Locked
  <2>. QED BY <1>8, <2>1 DEF Locked
<1>14. Kinds(N, childNum)
  <2>1. ASSUME NEW q \in Ref \ {r}, x[q] # NONE PROVE KindAt(N, childNum, q)
    <3>1. KindAt(T, childNum, q)
      BY <1>0, <1>9, <2>1 DEF TabSound, Kinds
    <3>2. N.addr[q] = T.addr[q] /\ N.index[q] = T.index[q] /\ N.nbt[N.index[q]] = T.nbt[T.index[q]]
      BY <1>5, <1>8, <1>9, <2>1
    <3>. QED BY <3>1, <3>2 DEF KindAt
  <2>2. KindAt(N, childNum, r)
    <3>1. N.nbt[N.index[r]] = e /\ N.addr = T.addr
      BY <1>4, <1>5, <1>8
    <3>. QED BY <1>3, <3>1 DEF KindAt
  <2>. QED BY <1>8, <2>1, <2>2 DEF Kinds
<1>. QED BY <1>0, <1>8, <1>11, <1>12, <1>13, <1>14 DEF Copying, TabSound

LEMMA CopyKept ==
  ASSUME Typed, Scanning, NEW T, Copying(T), NEW i \in DOMAIN ext.seq
  PROVE  Copying(Copy(T, i))
<1>. DEFINE s == ext.seq[i]
            A == IF ShortSearch(T.addr, s) # {}
                 THEN [ok |-> TRUE, tab |-> T.addr, ref |-> The(ShortSearch(T.addr, s))]
                 ELSE AddrAdd(T.addr, NoDev, s)
            N == [T EXCEPT !.addr = A.tab]
<1>0. /\ T \in Tabs /\ TabSound(T, childNum) /\ T.fault = "none" /\ T.addr \in AddrTabs
      /\ s \in Int /\ Known(childNum, s)
  BY DEF Copying, Tabs, Scanning, Typed
<1>1. Copy(T, i) = IF ~A.ok THEN N
                   ELSE IF N.index[A.ref] # NONE
                        THEN IF Ent(N, A.ref).type = "none" THEN [N EXCEPT !.nbt[N.index[A.ref]].type = "router"] ELSE N
                   ELSE IF N.used >= Grown(i) THEN N
                   ELSE [N EXCEPT !.index[A.ref] = N.used, !.used = @ + 1,
                                  !.nbt[N.used] = [NewEnt(A.ref) EXCEPT !.type = "router", !.rxOn = TRUE]]
  BY DEF Copy
<1>. HIDE DEF s
<1>2. /\ Copying(N)
      /\ A.ok => A.ref \in Ref /\ N.addr[A.ref].used /\ N.addr[A.ref].short = s
  <2>1. CASE ShortSearch(T.addr, s) # {}
    <3>1. A.ok /\ A.tab = T.addr /\ A.ref = The(ShortSearch(T.addr, s))
      BY <2>1
    <3>. HIDE DEF A
    <3>2. Replacing(N, T, T.addr, "none")
      BY <1>0, <3>1, Replaced
    <3>3. A.ref \in ShortSearch(T.addr, s)
      BY <2>1, <3>1, Chosen
    <3>4. A.ref \in Ref /\ T.addr[A.ref].used /\ T.addr[A.ref].short = s
      BY <3>3 DEF ShortSearch
    <3>5. PICK M : M = N /\ M \in Tabs /\ M.addr = T.addr /\ M.index = T.index /\ M.nbt = T.nbt /\ M.used = T.used /\ M.fault = "none"
      BY <3>2 DEF Replacing
    <3>6. Copying(M)
      BY <1>0, <3>5 DEF Copying, TabSound, Indexed, Locked, Kinds, KindAt
    <3>. QED BY <3>4, <3>5, <3>6
  <2>2. CASE ShortSearch(T.addr, s) = {} /\ FreeRefs(T.addr) = {}
    <3>1. ~A.ok /\ A.tab = T.addr
      BY <1>0, <2>2, AddrAddFacts
    <3>. HIDE DEF A
    <3>2. Replacing(N, T, T.addr, "none")
      BY <1>0, <3>1, Replaced
    <3>5. PICK M : M = N /\ M \in Tabs /\ M.addr = T.addr /\ M.index = T.index /\ M.nbt = T.nbt /\ M.used = T.used /\ M.fault = "none"
      BY <3>2 DEF Replacing
    <3>6. Copying(M)
      BY <1>0, <3>5 DEF Copying, TabSound, Indexed, Locked, Kinds, KindAt
    <3>. QED BY <3>1, <3>5, <3>6
  <2>3. CASE ShortSearch(T.addr, s) = {} /\ FreeRefs(T.addr) # {}
    <3>1. PICK b, r : /\ b = A.tab /\ r = A.ref /\ ~T.addr[r].used /\ (\A q \in Ref \ {r} : b[q] = T.addr[q])
                      /\ Written(T.addr, b, r, NoDev, s)
      BY <1>0, <2>3, AddrAddFacts
    <3>. HIDE DEF A
    <3>2. b \in AddrTabs /\ r \in Ref /\ b[r].used /\ b[r].short = s
      BY <3>1 DEF Written
    <3>3. Replacing(N, T, b, "none")
      BY <1>0, <3>1, <3>2, Replaced
    <3>4. Copying(N)
      BY <1>0, <2>3, <3>1, <3>3, NamelessAdded
    <3>. QED BY <3>1, <3>2, <3>3, <3>4 DEF Replacing
  <2>. QED BY <2>1, <2>2, <2>3
<1>. HIDE DEF A, N
<1>3. CASE ~A.ok
  BY <1>1, <1>2, <1>3
<1>4. CASE A.ok /\ N.index[A.ref] # NONE
  <2>1. Ent(N, A.ref).type # "none"
    <3>1. KindAt(N, childNum, A.ref)
      BY <1>2, <1>4 DEF Copying, TabSound, Kinds
    <3>. QED BY <3>1 DEF KindAt, Ent
  <2>. QED BY <1>1, <1>2, <1>4, <2>1
<1>5. CASE A.ok /\ N.index[A.ref] = NONE /\ N.used >= Grown(i)
  BY <1>1, <1>2, <1>5
<1>6. CASE A.ok /\ N.index[A.ref] = NONE /\ ~(N.used >= Grown(i))
  <2>1. PICK r \in Ref : r = A.ref /\ N.addr[r].used /\ Known(childNum, N.addr[r].short) /\ N.index[r] = NONE
    BY <1>0, <1>2, <1>6
  <2>2. N.used < Size
    <3>1. N.used \in Int /\ Grown(i) \in Int /\ Grown(i) <= Size /\ Size \in Int
      BY <1>2, GrownInside, ChildConstants DEF Copying, Tabs
    <3>. QED BY <1>6, <3>1
  <2>3. PICK M : M = [N EXCEPT !.index[r] = N.used, !.used = @ + 1,
                               !.nbt[N.used] = [NewEnt(r) EXCEPT !.type = "router", !.rxOn = TRUE]]
    OBVIOUS
  <2>4. Copy(T, i) = M
    BY <1>1, <1>6, <2>1, <2>3
  <2>5. Copying(M)
    BY <1>2, <2>1, <2>2, <2>3, NeighborCopied
  <2>. QED BY <2>4, <2>5
<1>. QED BY <1>3, <1>4, <1>5, <1>6

LEMMA CopiedAllFacts ==
  ASSUME Typed, Scanning, Ok, TabSound(T0, childNum)
  PROVE  Copying(CopiedAll)
<1>. DEFINE X == {T \in Tabs : Copying(T)}
            Follows(f) == f = [i \in 0 .. Len(ext.seq) |-> IF i = 0 THEN T0 ELSE Copy(f[i - 1], i)]
            copied == CHOOSE f : Follows(f)
<1>1. PICK n \in Nat : n = Len(ext.seq) /\ DOMAIN ext.seq = 1 .. n
  BY DEF Typed
<1>2. T0 \in X
  BY T0Facts DEF Copying, NoNewDevice
<1>3. ASSUME NEW k \in 1 .. n, NEW T \in X PROVE Copy(T, k) \in X
  <2>1. Copying(Copy(T, k))
    BY <1>1, CopyKept
  <2>. QED BY <2>1 DEF Copying
<1>4. Follows(copied)
  <2>. DEFINE step == [s \in (1 .. n) \X X |-> Copy(s[2], s[1])]
  <2>1. step \in [(1 .. n) \X X -> X]
    <3>1. ASSUME NEW s \in (1 .. n) \X X PROVE Copy(s[2], s[1]) \in X
      <4>. HIDE DEF X
      <4>. QED BY <1>3
    <3>. HIDE DEF X
    <3>. QED BY <3>1
  <2>. HIDE DEF X
  <2>2. PICK st \in [(1 .. n) \X X -> X] : \A k \in 1 .. n, x \in X : st[<<k, x>>] = Copy(x, k)
    <3>1. \A k \in 1 .. n, x \in X : step[<<k, x>>] = Copy(x, k)
      OBVIOUS
    <3>. HIDE DEF step
    <3>. QED BY <2>1, <3>1
  <2>. HIDE DEF step
  <2>3. PICK h : Run(X, T0, n, st, h)
    <3>1. Stepper(X, n, st)
      BY <2>2 DEF Stepper
    <3>. QED BY <1>1, <1>2, <3>1, RunExists
  <2>4. h \in [0 .. n -> X]
    BY <2>3 DEF Run
  <2>5. \A k \in 0 .. n : h[k] = IF k = 0 THEN T0 ELSE Copy(h[k - 1], k)
    <3>1. ASSUME NEW k \in 0 .. n PROVE h[k] = IF k = 0 THEN T0 ELSE Copy(h[k - 1], k)
      <4>1. CASE k = 0
        BY <2>3, <4>1 DEF Run
      <4>2. CASE k # 0
        <5>1. k \in 1 .. n /\ h[k - 1] \in X
          BY <1>1, <2>4, <4>2
        <5>2. h[k] = st[<<k, h[k - 1]>>]
          BY <2>3, <4>2 DEF Run
        <5>. QED BY <2>2, <4>2, <5>1, <5>2
      <4>. QED BY <4>1, <4>2
    <3>. QED BY <3>1
  <2>6. Follows(h)
    BY <1>1, <2>4, <2>5
  <2>. HIDE DEF Follows
  <2>. QED BY <2>6
<1>5. \A k \in 0 .. n : copied[k] = IF k = 0 THEN T0 ELSE Copy(copied[k - 1], k)
  <2>1. PICK f : f = copied
    OBVIOUS
  <2>2. f = [i \in 0 .. n |-> IF i = 0 THEN T0 ELSE Copy(f[i - 1], i)]
    BY <1>1, <1>4, <2>1
  <2>. HIDE DEF copied
  <2>3. \A k \in 0 .. n : f[k] = IF k = 0 THEN T0 ELSE Copy(f[k - 1], k)
    BY <2>2, Zenon
  <2>. QED BY <2>1, <2>3
<1>6. CopiedAll = copied[n]
  BY <1>1 DEF CopiedAll
<1>. HIDE DEF copied, X
<1>. DEFINE Reached == {k \in Nat : k <= n => copied[k] \in X}
<1>8. 0 \in Reached
  BY <1>1, <1>2, <1>5
<1>9. ASSUME NEW k \in Nat, k \in Reached PROVE k + 1 \in Reached
  <2>1. SUFFICES ASSUME k + 1 <= n PROVE copied[k + 1] \in X
    OBVIOUS
  <2>2. copied[k] \in X
    BY <1>9, <2>1
  <2>3. copied[k + 1] = Copy(copied[k], k + 1) /\ k + 1 \in 1 .. n
    BY <1>5, <2>1
  <2>. QED BY <1>3, <2>2, <2>3
<1>10. Nat \subseteq Reached
  <2>. HIDE DEF Reached
  <2>. QED BY <1>8, <1>9, NatClosed
<1>11. copied[n] \in X
  BY <1>10
<1>. QED BY <1>6, <1>11 DEF X

LEMMA LeftBehindFacts ==
  ASSUME NEW T, Copying(T)
  PROVE  Copying(LeftBehind(T))
<1>0. T \in Tabs /\ TabSound(T, childNum) /\ T.fault = "none" /\ NoNewDevice(addr, T.addr)
  BY DEF Copying
<1>1. PICK l \in Ents : l = Leftover /\ ~l.used
  <2>1. Leftover \in Ents /\ ~Leftover.used
    BY DEF Leftover, EmptyEnt, Ents
  <2>. QED BY <2>1
<1>2. PICK n : n = [i \in Slot |-> IF i >= nbtSize /\ i >= T.used THEN l ELSE T.nbt[i]]
  OBVIOUS
<1>3. n \in NbtTabs /\ \A i \in Slot : n[i] = T.nbt[i] \/ (i >= T.used /\ ~n[i].used)
  <2>1. \A i \in Slot : T.nbt[i] \in Ents
    BY <1>0 DEF Tabs, NbtTabs
  <2>2. n \in [Slot -> Ents]
    BY <1>2, <2>1
  <2>3. \A i \in Slot : n[i] = T.nbt[i] \/ (i >= T.used /\ ~n[i].used)
    BY <1>1, <1>2
  <2>. QED BY <2>2, <2>3 DEF NbtTabs
<1>4. PICK N \in Tabs : N = LeftBehind(T) /\ N.addr = T.addr /\ N.index = T.index /\ N.nbt = n /\ N.used = T.used /\ N.fault = "none"
  <2>1. PICK N : N = [T EXCEPT !.nbt = n]
    OBVIOUS
  <2>2. N = LeftBehind(T)
    BY <1>1, <1>2, <2>1 DEF LeftBehind
  <2>3. N.addr = T.addr /\ N.index = T.index /\ N.nbt = n /\ N.used = T.used /\ N.fault = "none"
    BY <1>0, <2>1 DEF Tabs
  <2>4. N \in Tabs
    BY <1>0, <1>3, <2>1 DEF Tabs
  <2>. QED BY <2>2, <2>3, <2>4
<1>5. \A r \in Ref : T.index[r] # NONE => n[T.index[r]] = T.nbt[T.index[r]]
  <2>1. ASSUME NEW r \in Ref, T.index[r] # NONE PROVE n[T.index[r]] = T.nbt[T.index[r]]
    <3>1. T.index[r] \in Slot /\ T.index[r] < T.used
      BY <1>0, <2>1 DEF TabSound, Indexed, Tabs, Indexes
    <3>2. T.index[r] \in Int
      BY <3>1, Basics
    <3>3. T.used \in Int
      BY <1>0, ChildConstants DEF Tabs
    <3>. QED BY <1>3, <3>1, <3>2, <3>3
  <2>. QED BY <2>1
<1>6. Indexed(N)
  <2>1. ASSUME NEW j \in Slot, n[j].used PROVE n[j].ref \in Ref /\ T.index[n[j].ref] = j
    <3>1. n[j] = T.nbt[j]
      BY <1>3, <2>1
    <3>. QED BY <1>0, <2>1, <3>1 DEF TabSound, Indexed
  <2>. QED BY <1>0, <1>4, <1>5, <2>1 DEF TabSound, Indexed
<1>7. Unique(N.addr) /\ Locked(N, childNum) /\ Kinds(N, childNum)
  BY <1>0, <1>4, <1>5 DEF TabSound, Locked, Kinds, KindAt
<1>. QED BY <1>0, <1>4, <1>6, <1>7 DEF Copying, TabSound

LEMMA ExneighborStopStep ==
  ASSUME ChildInv, NEW joined \in BOOLEAN, ExneighborStop(joined)
  PROVE  ChildInv'
<1>1. /\ Ok /\ Typed /\ Owners /\ Limited /\ Scanning /\ TabSound(T0, childNum)
      /\ Commit(LeftBehind(IF joined THEN CopiedAll ELSE T0))
      /\ nbtSize' = Size /\ ext' = [size |-> 0, seq |-> <<>>]
      /\ UNCHANGED <<scans, childNum, rejoinTab, flying, devices>>
  BY DEF ExneighborStop, ChildInv
<1>2. PICK T : T = (IF joined THEN CopiedAll ELSE T0) /\ Copying(T)
  <2>1. Copying(CopiedAll)
    BY <1>1, CopiedAllFacts
  <2>2. Copying(T0)
    BY <1>1, T0Facts DEF Copying, NoNewDevice
  <2>. QED BY <2>1, <2>2
<1>3. PICK R \in Tabs : R = LeftBehind(T) /\ TabSound(R, childNum) /\ NoNewDevice(addr, R.addr)
  BY <1>2, LeftBehindFacts DEF Copying
<1>4. Commit(R)
  BY <1>1, <1>2, <1>3
<1>5. /\ addr' = R.addr /\ addr' \in AddrTabs /\ index' \in Indexes /\ nbt' \in NbtTabs /\ nbtUsed' \in 0 .. Size
      /\ fault' \in Faults /\ TabSound(T0', childNum)
  BY <1>3, <1>4, CommitFacts
<1>6. ext' \in [size : Int, seq : Seq(Int)] /\ ext'.size = 0 /\ ext'.seq = <<>>
  BY <1>1
<1>7. granted' = granted /\ freed' = freed /\ nbtSize' \in 0 .. Size
  BY <1>1, ChildConstants DEF devices
<1>8. Typed'
  BY <1>1, <1>5, <1>6, <1>7 DEF Typed
<1>9. Owners'
  <2>1. \A e \in Dev, x \in Int : Holds(e, x)' => Holds(e, x)
    BY <1>1, <1>3, <1>5, <1>7 DEF Holds, Told, NoNewDevice
  <2>. QED BY <1>1, <1>7, <2>1, OwnersFewer
<1>10. Limited'
  BY <1>1 DEF Limited
<1>11. Scanning'
  <2>1. nbtUsed' <= nbtSize' /\ (Size - nbtSize') = 0
    BY <1>1, <1>5, ChildConstants
  <2>2. 0 * ExtBytes = 0 /\ 0 * EntBytes = 0
    BY ChildConstants
  <2>3. Len(ext'.seq) = 0 /\ DOMAIN ext'.seq = {}
    BY <1>6
  <2>. QED BY <1>1, <1>6, <2>1, <2>2, <2>3 DEF Scanning
<1>12. TabSound(T0', childNum')
  BY <1>1, <1>5
<1>. QED BY <1>8, <1>9, <1>10, <1>11, <1>12 DEF ChildInv

-----------------------------------------------------------------------------
\* The invariant.
LEMMA ChildInit == Init => ChildInv
<1>. SUFFICES ASSUME Init PROVE ChildInv
  OBVIOUS
<1>1. /\ addr = [r \in Ref |-> Unused(0)] /\ index = [r \in Ref |-> NONE]
      /\ nbt = [i \in Slot |-> EmptyEnt] /\ nbtUsed = 0 /\ nbtSize = Size
      /\ ext = [size |-> 0, seq |-> <<>>] /\ scans = 0
      /\ childNum = [router |-> 0, ed |-> 0]
      /\ rejoinTab = <<>> /\ flying = [k \in MsgKinds |-> <<>>]
      /\ granted = [d \in Dev |-> NONE] /\ freed = {} /\ fault = "none"
  BY DEF Init
<1>2. \A r \in Ref : addr[r] \in Entries /\ ~addr[r].used
  <2>1. Unused(0) \in Entries /\ ~Unused(0).used
    BY ChildConstants DEF Unused, Entries, NONE
  <2>. QED BY <1>1, <2>1
<1>3. \A i \in Slot : nbt[i] \in Ents /\ ~nbt[i].used
  <2>1. EmptyEnt \in Ents /\ ~EmptyEnt.used
    BY DEF EmptyEnt, Ents
  <2>. QED BY <1>1, <2>1
<1>4. addr \in AddrTabs /\ index \in Indexes /\ nbt \in NbtTabs
  BY <1>1, <1>2, <1>3 DEF AddrTabs, Indexes, NbtTabs
<1>5. childNum \in Counters
  BY <1>1, ChildConstants DEF Counters
<1>6. ext \in [size : Int, seq : Seq(Int)] /\ ext.size = 0 /\ ext.seq = <<>>
  BY <1>1
<1>7. Typed
  <2>1. granted \in [Dev -> Int] /\ flying \in [MsgKinds -> Seq(Messages)] /\ fault \in Faults
    BY <1>1, Basics DEF Faults
  <2>2. rejoinTab \in Seq(Int) /\ Len(rejoinTab) <= RejoinTableSize /\ nbtUsed \in 0 .. Size /\ nbtSize \in 0 .. Size
    BY <1>1, ChildConstants
  <2>. QED BY <1>1, <1>4, <1>5, <1>6, <2>1, <2>2 DEF Typed
<1>8. Owners
  <2>1. ASSUME NEW d \in Dev, NEW s \in Int PROVE ~Holds(d, s)
    <3>1. ~Told(d, s)
      <4>1. \A k \in Answers : flying[k] = <<>>
        BY <1>1 DEF Answers, MsgKinds
      <4>. QED BY <4>1 DEF Told
    <3>2. ~Entered(addr, d, s)
      BY <1>2 DEF Entered
    <3>. QED BY <1>1, <3>1, <3>2 DEF Holds
  <2>. QED BY <2>1 DEF Owners
<1>9. Limited
  BY <1>1, ChildConstants DEF Limited
<1>10. TabSound(T0, childNum)
  <2>1. PICK T : T = T0 /\ T.addr = addr /\ T.index = index /\ T.nbt = nbt
    <3>1. T0.addr = addr /\ T0.index = index /\ T0.nbt = nbt
      BY DEF T0
    <3>. QED BY <3>1
  <2>2. \A r \in Ref : T.index[r] = NONE
    BY <1>1, <2>1
  <2>3. Indexed(T) /\ Unique(T.addr) /\ Locked(T, childNum) /\ Kinds(T, childNum)
    BY <1>2, <1>3, <2>1, <2>2 DEF Indexed, Unique, Locked, Kinds
  <2>. QED BY <2>1, <2>3 DEF TabSound
<1>11. Scanning
  <2>1. nbtUsed <= nbtSize /\ Size - nbtSize = 0 /\ 0 * ExtBytes = 0 /\ 0 * EntBytes = 0
    BY <1>1, ChildConstants
  <2>. QED BY <1>1, <1>6, <2>1 DEF Scanning
<1>. QED BY <1>7, <1>8, <1>9, <1>10, <1>11 DEF ChildInv

LEMMA ChildNext == ChildInv /\ [Next]_vars => ChildInv'
<1>. SUFFICES ASSUME ChildInv, [Next]_vars PROVE ChildInv'
  OBVIOUS
<1>1. ASSUME NEW d \in Dev, NEW cap \in Caps, AssociateIndication(d, cap) PROVE ChildInv'
  BY <1>1, AssociateIndicationStep
<1>2. ASSUME NEW d \in Dev, NEW cap \in Caps, RejoinRequest(d, cap) PROVE ChildInv'
  BY <1>2, RejoinRequestStep
<1>3. ASSUME NEW o \in Outcomes, CommStatusIndication(o) PROVE ChildInv'
  BY <1>3, CommStatusIndicationStep
<1>4. ASSUME NEW o \in Outcomes, RejoinRespSent(o) PROVE ChildInv'
  BY <1>4, RejoinRespSentStep
<1>5. CASE RejoinRefusedSent
  BY <1>5, RejoinRefusedSentStep
<1>6. ASSUME NEW r \in Ref, IndirectExpired(r) PROVE ChildInv'
  BY <1>6, IndirectExpiredStep
<1>7. ASSUME NEW d \in Dev, OrphanIndication(d) PROVE ChildInv'
  BY <1>7, OrphanIndicationStep
<1>8. ASSUME NEW d \in Dev, LeaveRequest(d) PROVE ChildInv'
  BY <1>8, LeaveRequestStep
<1>9. ASSUME NEW d \in Dev, LeaveHandler(d) PROVE ChildInv'
  BY <1>9, LeaveHandlerStep
<1>10. ASSUME NEW arrived \in BOOLEAN, LeaveCmdSent(arrived) PROVE ChildInv'
  BY <1>10, LeaveCmdSentStep
<1>11. CASE LeaveConfirm
  BY <1>11, LeaveConfirmStep
<1>12. CASE LeaveIndication
  BY <1>12, LeaveIndicationStep
<1>13. CASE ExneighborStart
  BY <1>13, ExneighborStartStep
<1>14. ASSUME NEW s \in Beaconing, BeaconHeard(s) PROVE ChildInv'
  BY <1>14, BeaconHeardStep
<1>15. ASSUME NEW joined \in BOOLEAN, ExneighborStop(joined) PROVE ChildInv'
  BY <1>15, ExneighborStopStep
<1>16. CASE UNCHANGED vars
  <2>1. UNCHANGED <<addr, index, nbt, nbtUsed, nbtSize, ext, childNum, rejoinTab, flying, scans, granted, freed, fault>>
    BY <1>16 DEF vars
  <2>2. Typed' /\ Limited' /\ (Scanning => Scanning') /\ (Ok' <=> Ok)
    BY <2>1 DEF ChildInv, Typed, Limited, Scanning, Ok
  <2>3. Owners'
    <3>1. \A e \in Dev, x \in Int : Holds(e, x)' => Holds(e, x)
      BY <2>1 DEF Holds, Told
    <3>. QED BY <2>1, <3>1, OwnersFewer DEF ChildInv
  <2>4. Ok => TabSound(T0', childNum')
    <3>1. UNCHANGED tables
      BY <2>1 DEF tables
    <3>. QED BY <2>1, <3>1, TablesKept DEF ChildInv
  <2>. QED BY <2>2, <2>3, <2>4 DEF ChildInv
<1>. QED BY <1>1, <1>2, <1>3, <1>4, <1>5, <1>6, <1>7, <1>8, <1>9, <1>10, <1>11, <1>12, <1>13, <1>14, <1>15, <1>16 DEF Next

\* The inductive invariant: types; every address a device has, is about to be told or is entered under was
\* given by the counters, to that device alone unless given free; the tables name each other and hold
\* addresses of the block or of neighbors heard; the cut table keeps within its bytes.
THEOREM ChildInvariant == Spec => []ChildInv
<1>1. Init => ChildInv
  BY ChildInit
<1>2. ChildInv /\ [Next]_vars => ChildInv'
  BY ChildNext
<1>. QED BY <1>1, <1>2, PTL DEF Spec

-----------------------------------------------------------------------------
\* What the runs check.
LEMMA TablesFollow == ChildInv => TablesSound
<1>. SUFFICES ASSUME ChildInv PROVE TablesSound
  OBVIOUS
<1>1. Typed
  BY DEF ChildInv
<1>2. TypeOK
  <2>1. \A r \in Ref : addr[r].ieee \in Dev \cup {NoDev} /\ addr[r].lock \in 0 .. LockLimit - 1
    BY <1>1 DEF Typed, AddrTabs, Entries
  <2>2. DOMAIN flying = MsgKinds /\ childNum \in [router : 0 .. MaxRouters, ed : 0 .. ByteLimit - 1]
    BY <1>1 DEF Typed, Counters
  <2>. QED BY <1>1, <2>1, <2>2 DEF Typed, TypeOK, Indexes
<1>3. IndexSound
  <2>1. SUFFICES ASSUME Ok, NEW r \in Ref, index[r] # NONE
                 PROVE  /\ index[r] < nbtUsed /\ nbtUsed <= nbtSize
                        /\ nbt[index[r]].used /\ nbt[index[r]].ref = r /\ addr[r].used
    BY DEF IndexSound
  <2>2. Indexed(T0) /\ nbtUsed <= nbtSize
    BY <2>1 DEF ChildInv, TabSound, Scanning
  <2>3. T0.addr = addr /\ T0.index = index /\ T0.nbt = nbt /\ T0.used = nbtUsed
    BY DEF T0
  <2>. QED BY <2>1, <2>2, <2>3 DEF Indexed
<1>. QED BY <1>2, <1>3 DEF TablesSound

LEMMA AddressesFollow == ChildInv => AddressesDistinct
<1>. SUFFICES ASSUME ChildInv, NEW d \in Dev, NEW e \in Dev, d # e, granted[d] # NONE, granted[d] = granted[e]
              PROVE  granted[d] \in freed
  BY DEF AddressesDistinct
<1>1. granted[d] \in Int /\ Owners
  BY DEF ChildInv, Typed
<1>2. Holds(d, granted[d]) /\ Holds(e, granted[d])
  BY DEF Holds
<1>. QED BY <1>1, <1>2 DEF Owners

\* A child of the neighbor table: its address entry, and that the address was given by this parent.
LEMMA ChildOwns ==
  ASSUME ChildInv, Ok, NEW i \in Slot, nbt[i].used, nbt[i].rel = "child"
  PROVE  /\ nbt[i].ref \in Ref /\ addr[nbt[i].ref].used /\ index[nbt[i].ref] = i
         /\ nbt[i].type = "router" => GivenR(childNum, addr[nbt[i].ref].short)
         /\ nbt[i].type = "ed" /\ addr[nbt[i].ref].short \notin freed => GivenE(childNum, addr[nbt[i].ref].short)
<1>1. Typed /\ Owners /\ TabSound(T0, childNum)
  BY DEF ChildInv
<1>2. T0.addr = addr /\ T0.index = index /\ T0.nbt = nbt
  BY DEF T0
<1>3. PICK r \in Ref : r = nbt[i].ref /\ index[r] = i
  BY <1>1, <1>2 DEF TabSound, Indexed
<1>4. index[r] # NONE
  BY <1>3, Basics
<1>5. addr[r].used /\ KindAt(T0, childNum, r)
  BY <1>1, <1>2, <1>3, <1>4 DEF TabSound, Indexed, Kinds
<1>6. addr[r].ieee \in Dev /\ addr[r].short \in Int
  BY <1>1, <1>2, <1>3, <1>5 DEF KindAt, Typed, AddrTabs, Entries
<1>7. addr[r].short # NONE => Given(childNum, freed, addr[r].short)
  <2>1. Entered(addr, addr[r].ieee, addr[r].short)
    BY <1>5 DEF Entered
  <2>. QED BY <1>1, <1>6, <2>1 DEF Holds, Owners
<1>8. ASSUME nbt[i].type = "router" PROVE GivenR(childNum, addr[r].short)
  <2>1. Known(childNum, addr[r].short)
    BY <1>2, <1>3, <1>5, <1>8 DEF KindAt
  <2>2. CASE addr[r].short \in Heard
    <3>1. addr[r].short # NONE
      BY <2>2, ChildConstants DEF NONE
    <3>. QED BY <1>1, <1>7, <2>2, <3>1, BlocksApart DEF Given, Typed
  <2>. QED BY <2>1, <2>2 DEF Known
<1>9. ASSUME nbt[i].type = "ed", addr[r].short \notin freed PROVE GivenE(childNum, addr[r].short)
  <2>1. EdBlock(addr[r].short)
    BY <1>2, <1>3, <1>5, <1>9 DEF KindAt
  <2>2. addr[r].short \in Nat /\ ~GivenR(childNum, addr[r].short)
    BY <1>1, <2>1, BlocksApart DEF Typed
  <2>3. addr[r].short # NONE
    BY <2>2 DEF NONE
  <2>. QED BY <1>7, <1>9, <2>2, <2>3 DEF Given
<1>. QED BY <1>3, <1>5, <1>8, <1>9

\* Two children have two addresses.
LEMMA ChildrenApart ==
  ASSUME ChildInv, Ok, NEW i \in Slot, nbt[i].used, nbt[i].rel = "child",
         NEW j \in Slot, nbt[j].used, nbt[j].rel = "child",
         addr[nbt[i].ref].short = addr[nbt[j].ref].short
  PROVE  i = j
<1>1. Unique(addr)
  <2>1. TabSound(T0, childNum) /\ T0.addr = addr
    BY DEF ChildInv, T0
  <2>. QED BY <2>1 DEF TabSound
<1>2. nbt[i].ref \in Ref /\ addr[nbt[i].ref].used /\ index[nbt[i].ref] = i
  BY ChildOwns
<1>3. nbt[j].ref \in Ref /\ addr[nbt[j].ref].used /\ index[nbt[j].ref] = j
  BY ChildOwns
<1>4. nbt[i].ref = nbt[j].ref
  BY <1>1, <1>2, <1>3 DEF Unique
<1>. QED BY <1>2, <1>3, <1>4

\* A set whose members have numbers of their own below n.
LEMMA Numbered ==
  ASSUME NEW S, NEW n \in Nat, NEW f \in [S -> 0 .. n - 1], \A x, y \in S : f[x] = f[y] => x = y
  PROVE  Cardinality(S) <= n
<1>1. IsFiniteSet(0 .. n - 1) /\ Cardinality(0 .. n - 1) = n
  <2>1. IsFiniteSet(0 .. n - 1) /\ Cardinality(0 .. n - 1) = IF 0 > n - 1 THEN 0 ELSE (n - 1) - 0 + 1
    BY FS_Interval
  <2>. QED BY <2>1
<1>2. f \in Injection(S, 0 .. n - 1)
  BY DEF Injection, IsInjective
<1>3. Cardinality(S) <= Cardinality(0 .. n - 1)
  BY <1>1, <1>2, FS_Injection
<1>. QED BY <1>1, <1>3

LEMMA ChildrenFollow == ChildInv => ChildrenCounted
<1>. SUFFICES ASSUME ChildInv, Ok
              PROVE  /\ Cardinality(Children("router")) <= childNum.router
                     /\ Cardinality({i \in Children("ed") : addr[nbt[i].ref].short \notin freed}) <= childNum.ed
                     /\ childNum.router <= MaxRouters
                     /\ Cskip > 1 => childNum.router + childNum.ed <= MaxChildren
  BY DEF ChildrenCounted
<1>1. childNum.router \in Nat /\ childNum.ed \in Nat /\ childNum.router <= MaxRouters
  <2>1. childNum \in Counters
    BY DEF ChildInv, Typed
  <2>. QED BY <2>1, ChildConstants DEF Counters
<1>2. Cardinality(Children("router")) <= childNum.router
  <2>. DEFINE S == Children("router")
              f == [i \in S |-> CHOOSE k \in 0 .. childNum.router - 1 : addr[nbt[i].ref].short = RAddr(k)]
  <2>1. ASSUME NEW i \in S PROVE f[i] \in 0 .. childNum.router - 1 /\ addr[nbt[i].ref].short = RAddr(f[i])
    <3>1. GivenR(childNum, addr[nbt[i].ref].short)
      BY <2>1, ChildOwns DEF Children
    <3>. QED BY <2>1, <3>1 DEF GivenR
  <2>2. f \in [S -> 0 .. childNum.router - 1]
    <3>. HIDE DEF S
    <3>1. \A i \in S : (CHOOSE k \in 0 .. childNum.router - 1 : addr[nbt[i].ref].short = RAddr(k)) \in 0 .. childNum.router - 1
      BY <2>1
    <3>. QED BY <3>1
  <2>. HIDE DEF f
  <2>3. ASSUME NEW i \in S, NEW j \in S, f[i] = f[j] PROVE i = j
    <3>1. addr[nbt[i].ref].short = addr[nbt[j].ref].short
      BY <2>1, <2>3
    <3>. QED BY <2>3, <3>1, ChildrenApart DEF Children
  <2>. HIDE DEF S
  <2>4. Cardinality(S) <= childNum.router
    BY <1>1, <2>2, <2>3, Numbered
  <2>. QED BY <2>4 DEF S
<1>3. Cardinality({i \in Children("ed") : addr[nbt[i].ref].short \notin freed}) <= childNum.ed
  <2>. DEFINE S == {i \in Children("ed") : addr[nbt[i].ref].short \notin freed}
              f == [i \in S |-> CHOOSE k \in 0 .. childNum.ed - 1 : addr[nbt[i].ref].short = EAddr(k)]
  <2>1. ASSUME NEW i \in S PROVE f[i] \in 0 .. childNum.ed - 1 /\ addr[nbt[i].ref].short = EAddr(f[i])
    <3>1. GivenE(childNum, addr[nbt[i].ref].short)
      BY <2>1, ChildOwns DEF Children
    <3>. QED BY <2>1, <3>1 DEF GivenE
  <2>2. f \in [S -> 0 .. childNum.ed - 1]
    <3>. HIDE DEF S
    <3>1. \A i \in S : (CHOOSE k \in 0 .. childNum.ed - 1 : addr[nbt[i].ref].short = EAddr(k)) \in 0 .. childNum.ed - 1
      BY <2>1
    <3>. QED BY <3>1
  <2>. HIDE DEF f
  <2>3. ASSUME NEW i \in S, NEW j \in S, f[i] = f[j] PROVE i = j
    <3>1. addr[nbt[i].ref].short = addr[nbt[j].ref].short
      BY <2>1, <2>3
    <3>. QED BY <2>3, <3>1, ChildrenApart DEF Children
  <2>. HIDE DEF S
  <2>4. Cardinality(S) <= childNum.ed
    BY <1>1, <2>2, <2>3, Numbered
  <2>. QED BY <2>4 DEF S
<1>4. Cskip > 1 => childNum.router + childNum.ed <= MaxChildren
  BY DEF ChildInv, Limited
<1>. QED BY <1>1, <1>2, <1>3, <1>4

\* The index of the neighbor table and its entries name each other, below the high-water mark and outside
\* the part cut off for a scan, whatever joins, leaves, fails or is heard (nwk_neighbor.c).
THEOREM ChildTables == Spec => []TablesSound
BY ChildInvariant, TablesFollow, PTL

\* No two devices hold one address unless a leave request gave it free: responses that are lost or late,
\* forgotten children and rejoins in another role do not make the counters hand an address out twice
\* (zb_nwk_accept_child, zb_mlme_comm_status_indication, zb_nlme_leave_request).
THEOREM ChildAddresses == Spec => []AddressesDistinct
BY ChildInvariant, AddressesFollow, PTL

\* The counters that limit joining cover every child of the neighbor table whose address was not given
\* free, and stay within the limits of the NIB (zb_nwk_accept_child, NumAfterFailure of
\* zb_mlme_comm_status_indication, zb_nlme_leave_request).
THEOREM ChildCounted == Spec => []ChildrenCounted
BY ChildInvariant, ChildrenFollow, PTL
=============================================================================
