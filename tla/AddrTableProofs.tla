-------------------------- MODULE AddrTableProofs --------------------------
(***************************************************************************)
(* What holds of the address translation table for every size of it, every *)
(* hash and every number of devices: the sorted index stays sorted, names  *)
(* entries in use and is searched correctly, the counts are exact, a       *)
(* device has one entry, and only zb_address_delete frees a locked one.    *)
(*                                                                         *)
(* The first part is about the array of the index alone: what the binary   *)
(* search, the insertion and the removal of common/zb_address.c compute.   *)
(***************************************************************************)
EXTENDS AddrTable, FiniteSetTheorems, WellFoundedInduction, TLAPS

-----------------------------------------------------------------------------
\* Natural numbers.

Below == {ss \in Nat \X Nat : ss[1] < ss[2]}

LEMMA BelowWellFounded == IsWellFoundedOn(Below, Nat)
BY NatLessThanWellFounded DEF OpToRel, Below

\* A set of natural numbers that is not empty has a least element.
LEMMA LeastElement ==
  ASSUME NEW S \in SUBSET Nat, S # {}
  PROVE  \E x \in S : \A y \in S : x <= y
<1>1. PICK x \in S : \A y \in S : ~(<<y, x>> \in Below)
  BY BelowWellFounded, WFMin
<1>2. \A y \in S : ~(y < x)
  BY <1>1 DEF Below
<1>. QED BY <1>2

\* Induction: a set with 0 and with the successor of each element.
LEMMA NatClosed ==
  ASSUME NEW T, 0 \in T, \A n \in Nat : n \in T => n + 1 \in T
  PROVE  Nat \subseteq T
<1>1. SUFFICES ASSUME Nat \ T # {} PROVE FALSE
  OBVIOUS
<1>2. PICK x \in Nat \ T : \A y \in Nat \ T : x <= y
  <2>1. Nat \ T \in SUBSET Nat
    OBVIOUS
  <2>. QED BY <1>1, <2>1, LeastElement
<1>3. x # 0 /\ x - 1 \in Nat
  BY <1>2
<1>4. x - 1 \in T
  BY <1>2, <1>3
<1>5. (x - 1) + 1 \in T
  BY <1>3, <1>4
<1>. QED BY <1>2, <1>3, <1>5

\* The body of the search, as a function of the searches it continues with.
SearchStep(before, search, w) ==
  LET i == w[1] + (w[2] - w[1]) \div 2
  IN  IF w[1] >= w[2] THEN w[1]
      ELSE IF i \in before THEN search[<<i + 1, w[2]>>] ELSE search[<<w[1], i>>]

Windows(n) == (0 .. n) \X (0 .. n)

\* Where the search of a window ends when the first k positions are before.
Boundary(k, w) ==
  IF w[1] >= w[2] \/ k < w[1] THEN w[1] ELSE IF k > w[2] THEN w[2] ELSE k

LEMMA HalfWay ==
  ASSUME NEW l \in Nat, NEW r \in Nat, l < r
  PROVE  l + (r - l) \div 2 \in l .. r - 1
OBVIOUS

Middle(l, r, i) == i = l + (r - l) \div 2
LEMMA StepsToBoundary ==
  ASSUME NEW n \in Nat, NEW k \in 0 .. n, NEW l \in 0 .. n, NEW r \in 0 .. n,
         NEW search, l < r, NEW i \in l .. r - 1, Middle(l, r, i),
         search[<<i + 1, r>>] = Boundary(k, <<i + 1, r>>),
         search[<<l, i>>] = Boundary(k, <<l, i>>)
  PROVE  SearchStep(0 .. k - 1, search, <<l, r>>) = Boundary(k, <<l, r>>)
<1>1. i = l + (r - l) \div 2
  BY DEF Middle
<1>2. /\ search[<<i + 1, r>>] = IF i + 1 >= r \/ k < i + 1 THEN i + 1 ELSE IF k > r THEN r ELSE k
      /\ search[<<l, i>>] = IF l >= i \/ k < l THEN l ELSE IF k > i THEN i ELSE k
  BY DEF Boundary
<1>3. SearchStep(0 .. k - 1, search, <<l, r>>)
        = IF i \in 0 .. k - 1 THEN search[<<i + 1, r>>] ELSE search[<<l, i>>]
  BY <1>1 DEF SearchStep
<1>4. Boundary(k, <<l, r>>) = IF k < l THEN l ELSE IF k > r THEN r ELSE k
  BY DEF Boundary
<1>. QED BY <1>1, <1>2, <1>3, <1>4

\* The search ends at the first position that is not before.
LEMMA SearchEnds ==
  ASSUME NEW n \in Nat, NEW k \in 0 .. n
  PROVE  BinarySearch(n, 0 .. k - 1) = IF n > 1 THEN k ELSE 0
<1>. DEFINE Search(h) == h = [w \in Windows(n) |-> SearchStep(0 .. k - 1, h, w)]
            search == CHOOSE h : Search(h)
            found == [w \in Windows(n) |-> Boundary(k, w)]
<1>1. Search(found)
  <2>1. ASSUME NEW l \in 0 .. n, NEW r \in 0 .. n
        PROVE  found[<<l, r>>] = SearchStep(0 .. k - 1, found, <<l, r>>)
    <3>1. found[<<l, r>>] = Boundary(k, <<l, r>>)
      BY DEF Windows
    <3>2. CASE l >= r
      <4>. HIDE DEF found
      <4>. QED BY <3>1, <3>2 DEF SearchStep, Boundary
    <3>3. CASE l < r
      <4>1. PICK i \in l .. r - 1 : Middle(l, r, i)
        BY <3>3, HalfWay DEF Middle
      <4>2. /\ found[<<i + 1, r>>] = Boundary(k, <<i + 1, r>>)
            /\ found[<<l, i>>] = Boundary(k, <<l, i>>)
        BY <4>1 DEF Windows
      <4>. HIDE DEF found
      <4>. QED BY <3>1, <3>3, <4>1, <4>2, StepsToBoundary
    <3>. QED BY <3>2, <3>3
  <2>2. \A w \in Windows(n) : found[w] = SearchStep(0 .. k - 1, found, w)
    <3>1. ASSUME NEW w \in Windows(n) PROVE w = <<w[1], w[2]>> /\ w[1] \in 0 .. n /\ w[2] \in 0 .. n
      BY DEF Windows
    <3>. HIDE DEF found
    <3>. QED BY <2>1, <3>1
  <2>3. found = [w \in Windows(n) |-> found[w]]
    OBVIOUS
  <2>. HIDE DEF found
  <2>. QED BY <2>2, <2>3
<1>2. PICK h : h = search
  OBVIOUS
<1>3. \A w \in Windows(n) : h[w] = SearchStep(0 .. k - 1, h, w)
  <2>1. Search(search)
    <3>. HIDE DEF Search, found
    <3>. QED BY <1>1
  <2>2. h = [w \in Windows(n) |-> SearchStep(0 .. k - 1, h, w)]
    BY <1>2, <2>1
  <2>. QED BY <2>2, Zenon
<1>4. BinarySearch(n, 0 .. k - 1) = IF n > 1 THEN search[<<0, n>>] ELSE 0
  BY DEF BinarySearch, SearchStep, Windows
<1>. HIDE DEF search
<1>5. \A l, r \in 0 .. n : h[<<l, r>>] = Boundary(k, <<l, r>>)
  <2>. DEFINE T == {d \in Nat : \A l, r \in 0 .. n : r <= l + d => h[<<l, r>>] = Boundary(k, <<l, r>>)}
  <2>w. \A l, r \in 0 .. n : h[<<l, r>>] = SearchStep(0 .. k - 1, h, <<l, r>>)
    BY <1>3 DEF Windows
  <2>0. ASSUME NEW l \in 0 .. n, NEW r \in 0 .. n, l >= r
        PROVE  h[<<l, r>>] = Boundary(k, <<l, r>>)
    BY <2>0, <2>w DEF SearchStep, Boundary
  <2>1. 0 \in T
    BY <2>0
  <2>2. ASSUME NEW d \in Nat, d \in T PROVE d + 1 \in T
    <3>1. SUFFICES ASSUME NEW l \in 0 .. n, NEW r \in 0 .. n, r <= l + d + 1
                   PROVE  h[<<l, r>>] = Boundary(k, <<l, r>>)
      OBVIOUS
    <3>2. CASE l >= r
      BY <2>0, <3>2
    <3>3. CASE l < r
      <4>1. PICK i \in l .. r - 1 : Middle(l, r, i)
        BY <3>3, HalfWay DEF Middle
      <4>2. /\ h[<<i + 1, r>>] = Boundary(k, <<i + 1, r>>)
            /\ h[<<l, i>>] = Boundary(k, <<l, i>>)
        BY <2>2, <3>1, <4>1
      <4>3. SearchStep(0 .. k - 1, h, <<l, r>>) = Boundary(k, <<l, r>>)
        BY <3>3, <4>1, <4>2, StepsToBoundary
      <4>. QED BY <2>w, <4>3
    <3>. QED BY <3>2, <3>3
  <2>3. Nat \subseteq T
    <3>. HIDE DEF T
    <3>. QED BY <2>1, <2>2, NatClosed
  <2>4. n \in T
    <3>. HIDE DEF T
    <3>. QED BY <2>3
  <2>5. \A l, r \in 0 .. n : r <= l + n
    OBVIOUS
  <2>6. \A l, r \in 0 .. n : r <= l + n => h[<<l, r>>] = Boundary(k, <<l, r>>)
    BY <2>4, Zenon
  <2>. QED BY <2>5, <2>6
<1>6. 0 \in 0 .. n /\ n \in 0 .. n
  OBVIOUS
<1>7. n > 1 => h[<<0, n>>] = k
  BY <1>5, <1>6 DEF Boundary
<1>8. BinarySearch(n, 0 .. k - 1) = IF n > 1 THEN h[<<0, n>>] ELSE 0
  <2>1. search[<<0, n>>] = h[<<0, n>>]
    BY <1>2
  <2>. HIDE DEF search
  <2>. QED BY <1>4, <2>1
<1>. QED BY <1>7, <1>8

-----------------------------------------------------------------------------
(***************************************************************************)
(* The index as a value: an array s of which n positions count, over       *)
(* entries m.                                                              *)
(***************************************************************************)

Arrays == [0 .. TableSize -> Refs]

\* What the entries of an index are, seen as a function of entries to addresses.
Addressed(m) == \A r \in Refs : m[r].addr \in 0 .. MaxShort

IsIndex(s, n, m) ==
  /\ s \in Arrays /\ n \in 0 .. TableSize
  /\ \A i, j \in 0 .. n - 1 : i < j => s[i] # s[j] /\ m[s[i]].addr <= m[s[j]].addr
  /\ \A i \in 0 .. n - 1 : m[s[i]].used /\ m[s[i]].addr # NoShort

Names(s, n, r) == \E i \in 0 .. n - 1 : s[i] = r

\* A set of positions with all the positions below each of its own.
LEMMA Prefix ==
  ASSUME NEW n \in Nat, NEW P \in SUBSET (0 .. n - 1),
         \A i, j \in 0 .. n - 1 : i < j /\ j \in P => i \in P
  PROVE  \E k \in 0 .. n : P = 0 .. k - 1
<1>. DEFINE Q == {i \in 0 .. n : i \notin P}
<1>1. n \in Q /\ Q \in SUBSET Nat
  OBVIOUS
<1>2. PICK k \in Q : \A i \in Q : k <= i
  <2>. HIDE DEF Q
  <2>. QED BY <1>1, LeastElement
<1>3. \A i \in 0 .. k - 1 : i \in P
  BY <1>2
<1>4. \A i \in P : i < k
  BY <1>2
<1>5. P = 0 .. k - 1
  <2>1. P \subseteq 0 .. k - 1
    BY <1>2, <1>4
  <2>2. 0 .. k - 1 \subseteq P
    BY <1>3
  <2>. QED BY <2>1, <2>2
<1>. QED BY <1>2, <1>5

\* The search over a sorted array for the first position whose address is not
\* below x, or not below x + 1.
LEMMA SearchSorted ==
  ASSUME NEW n \in Nat, NEW P \in SUBSET (0 .. n - 1),
         \A i, j \in 0 .. n - 1 : i < j /\ j \in P => i \in P
  PROVE  /\ BinarySearch(n, P) \in 0 .. n
         /\ n > 1 => \A i \in 0 .. n - 1 : i \in P <=> i < BinarySearch(n, P)
         /\ n <= 1 => BinarySearch(n, P) = 0
<1>1. PICK k \in 0 .. n : P = 0 .. k - 1
  BY Prefix
<1>2. BinarySearch(n, P) = IF n > 1 THEN k ELSE 0
  BY <1>1, SearchEnds
<1>. QED BY <1>1, <1>2

\* short_search finds an entry of the address, and only misses one that is not in
\* the index.
LEMMA ShortSearch ==
  ASSUME IsIndex(short_sorted, n_sorted_elements, addr_map), Addressed(addr_map), NEW x \in Shorts
  PROVE  /\ ShortFound(x) = {} \/ \E r \in Refs : ShortFound(x) = {r}
         /\ \A r \in ShortFound(x) : r \in Refs /\ addr_map[r].used /\ addr_map[r].addr = x
         /\ ShortFound(x) = {} <=> \A i \in 0 .. n_sorted_elements - 1 : addr_map[short_sorted[i]].addr # x
<1>t. TableSize \in Nat /\ MaxShort \in Nat
  BY TableAssumption
<1>. DEFINE n == n_sorted_elements
            at(i) == addr_map[short_sorted[i]].addr
            P == {i \in 0 .. n - 1 : x > at(i)}
            l == BinarySearch(n, P)
<1>1. /\ n \in Nat /\ n <= TableSize /\ x \in Nat
      /\ \A i \in 0 .. n - 1 : short_sorted[i] \in Refs /\ at(i) \in Nat /\ addr_map[short_sorted[i]].used
      /\ \A i, j \in 0 .. n - 1 : i < j => at(i) <= at(j)
  BY <1>t DEF IsIndex, Arrays, Addressed, Shorts
<1>2. ShortFound(x) = IF l < n /\ at(l) = x THEN {short_sorted[l]} ELSE {}
  BY DEF ShortFound
<1>. HIDE DEF at
<1>3. P \in SUBSET (0 .. n - 1) /\ \A i, j \in 0 .. n - 1 : i < j /\ j \in P => i \in P
  BY <1>1
<1>4. /\ l \in 0 .. n
      /\ n > 1 => \A i \in 0 .. n - 1 : i \in P <=> i < l
      /\ n <= 1 => l = 0
  <2>. HIDE DEF P, n
  <2>. QED BY <1>1, <1>3, SearchSorted
<1>5. PICK p \in 0 .. n : p = l
  BY <1>4
<1>6. \A i \in 0 .. n - 1 : at(i) = x => p < n /\ at(p) = x
  <2>1. SUFFICES ASSUME NEW i \in 0 .. n - 1, at(i) = x PROVE p < n /\ at(p) = x
    OBVIOUS
  <2>2. CASE n <= 1
    <3>1. n = 1 /\ i = 0 /\ p = 0
      BY <1>1, <1>4, <1>5, <2>2
    <3>. QED BY <2>1, <3>1
  <2>3. CASE n > 1
    <3>1. i \notin P
      BY <1>1, <2>1
    <3>2. p <= i
      BY <1>1, <1>4, <1>5, <2>3, <3>1
    <3>3. p \notin P /\ p \in 0 .. n - 1
      BY <1>1, <1>4, <1>5, <2>3, <3>2
    <3>4. x <= at(p) /\ at(p) <= at(i)
      BY <1>1, <3>2, <3>3
    <3>. QED BY <1>1, <2>1, <3>3, <3>4
  <2>. QED BY <1>1, <2>2, <2>3
<1>7. ShortFound(x) = IF p < n /\ at(p) = x THEN {short_sorted[p]} ELSE {}
  <2>. HIDE DEF l
  <2>. QED BY <1>2, <1>5
<1>. HIDE DEF P, l
<1>8. CASE p < n /\ at(p) = x
  <2>1. ShortFound(x) = {short_sorted[p]} /\ p \in 0 .. n - 1
    BY <1>1, <1>7, <1>8
  <2>. QED BY <1>1, <1>8, <2>1 DEF at
<1>9. CASE ~(p < n /\ at(p) = x)
  <2>1. ShortFound(x) = {} /\ \A i \in 0 .. n - 1 : at(i) # x
    BY <1>6, <1>7, <1>9
  <2>. QED BY <2>1 DEF at
<1>. QED BY <1>8, <1>9

\* The array with ref put at position l.
Spread(s, n, l, ref) ==
  [j \in 0 .. TableSize |-> IF j = l THEN ref ELSE IF j \in l + 1 .. n THEN s[j - 1] ELSE s[j]]

LEMMA MoveSpreads ==
  ASSUME NEW s \in Arrays, NEW n \in 0 .. TableSize, NEW l \in 0 .. n, NEW ref \in Refs
  PROVE  [(IF l < n THEN MemMove(s, l + 1, l, n - l) ELSE s) EXCEPT ![l] = ref] = Spread(s, n, l, ref)
<1>t. TableSize \in Nat
  BY TableAssumption
<1>1. DOMAIN s = 0 .. TableSize
  BY DEF Arrays
<1>2. CASE l < n
  <2>1. MemMove(s, l + 1, l, n - l)
          = [j \in 0 .. TableSize |-> IF j \in l + 1 .. n THEN s[j - 1] ELSE s[j]]
    <3>1. \A j \in 0 .. TableSize :
            /\ (j \in l + 1 .. (l + 1) + (n - l) - 1) <=> j \in l + 1 .. n
            /\ (j + l) - (l + 1) = j - 1
      BY <1>t
    <3>. QED BY <1>t, <1>1, <3>1 DEF MemMove
  <2>. QED BY <1>t, <1>2, <2>1 DEF Spread
<1>3. CASE ~(l < n)
  <2>1. l = n
    BY <1>t, <1>3
  <2>2. l + 1 .. n = {}
    BY <1>t, <2>1
  <2>3. [s EXCEPT ![l] = ref] = [j \in 0 .. TableSize |-> IF j = l THEN ref ELSE s[j]]
    BY <1>1 DEF Arrays
  <2>4. Spread(s, n, l, ref) = [j \in 0 .. TableSize |-> IF j = l THEN ref ELSE s[j]]
    BY <2>2 DEF Spread
  <2>. QED BY <1>3, <2>3, <2>4
<1>. QED BY <1>2, <1>3

LEMMA RefsFinite == IsFiniteSet(Refs) /\ Cardinality(Refs) = TableSize
<1>1. TableSize - 1 \in Int /\ ~(0 > TableSize - 1) /\ (TableSize - 1) - 0 + 1 = TableSize
  BY TableAssumption
<1>2. /\ IsFiniteSet(0 .. TableSize - 1)
      /\ Cardinality(0 .. TableSize - 1)
           = IF 0 > TableSize - 1 THEN 0 ELSE (TableSize - 1) - 0 + 1
  BY <1>1, FS_Interval
<1>. QED BY <1>1, <1>2 DEF Refs

\* An index without one of the entries has room for it.
LEMMA Room ==
  ASSUME NEW s, NEW n, NEW m, NEW ref \in Refs, IsIndex(s, n, m), ~Names(s, n, ref)
  PROVE  n < TableSize
<1>t. TableSize \in Nat /\ s \in Arrays /\ n \in Nat /\ n <= TableSize
  BY TableAssumption DEF IsIndex
<1>1. SUFFICES ASSUME n = TableSize PROVE FALSE
  BY <1>t
<1>. DEFINE f == [i \in 0 .. n - 1 |-> s[i]]
<1>2. f \in [0 .. n - 1 -> Refs \ {ref}]
  <2>1. \A i \in 0 .. n - 1 : i \in 0 .. TableSize /\ s[i] # ref
    BY <1>t DEF Names
  <2>2. \A i \in 0 .. n - 1 : s[i] \in Refs \ {ref}
    BY <1>t, <2>1 DEF Arrays
  <2>. QED BY <2>2
<1>3. IsFiniteSet(0 .. n - 1) /\ Cardinality(0 .. n - 1) = n
  BY <1>t, FS_Interval
<1>4. IsFiniteSet(Refs) /\ Cardinality(Refs) = n
  BY <1>1, RefsFinite
<1>5. IsFiniteSet(Refs \ {ref}) /\ Cardinality(Refs \ {ref}) = n - 1
  BY <1>4, FS_RemoveElement
<1>6. PICK i, j \in 0 .. n - 1 : i # j /\ f[i] = f[j]
  <2>1. Cardinality(Refs \ {ref}) < Cardinality(0 .. n - 1)
    BY <1>t, <1>3, <1>5
  <2>2. PICK S, T : S = 0 .. n - 1 /\ T = Refs \ {ref}
    OBVIOUS
  <2>. HIDE DEF f
  <2>3. /\ IsFiniteSet(S) /\ IsFiniteSet(T) /\ Cardinality(T) < Cardinality(S)
        /\ f \in [S -> T]
    BY <1>2, <1>3, <1>5, <2>1, <2>2
  <2>4. \E i, j \in S : i # j /\ f[i] = f[j]
    BY <2>3, FS_PigeonHole
  <2>. QED BY <2>2, <2>4
<1>7. s[i] = s[j] /\ (i < j \/ j < i)
  BY <1>t, <1>6
<1>. QED BY <1>7 DEF IsIndex

\* add_short_sorted of an entry that is not in the index.
LEMMA AddKeeps ==
  ASSUME NEW s, NEW n, NEW m, NEW ref \in Refs, NEW x \in Shorts, Addressed(m),
         IsIndex(s, n, m), ~Names(s, n, ref), m[ref].used, m[ref].addr = x
  PROVE  LET ix == AddShortSorted(s, n, m, ref, x) IN IsIndex(ix.array, ix.n, m)
<1>t. TableSize \in Nat /\ MaxShort \in Nat /\ n < TableSize
  BY Room, TableAssumption
<1>. DEFINE at(i) == m[s[i]].addr
            P == {i \in 0 .. n - 1 : x >= at(i)}
            k == BinarySearch(n, P)
<1>1. /\ n \in Nat /\ x \in Nat /\ x # NoShort /\ s \in Arrays
      /\ \A i \in 0 .. n - 1 : /\ s[i] \in Refs /\ s[i] # ref /\ at(i) \in Nat
                               /\ m[s[i]].used /\ at(i) # NoShort
      /\ \A i, j \in 0 .. n - 1 : i < j => at(i) <= at(j) /\ s[i] # s[j]
  <2>1. n \in Nat /\ n \in 0 .. TableSize /\ s \in Arrays
    BY <1>t DEF IsIndex
  <2>2. x \in Nat /\ x # NoShort
    BY <1>t DEF Shorts, NoShort
  <2>3. \A i \in 0 .. n - 1 : s[i] \in Refs
    BY <1>t, <2>1 DEF Arrays
  <2>4. \A i \in 0 .. n - 1 : at(i) \in Nat
    BY <1>t, <2>3 DEF Addressed
  <2>5. \A i \in 0 .. n - 1 : m[s[i]].used /\ at(i) # NoShort
    BY DEF IsIndex
  <2>6. \A i, j \in 0 .. n - 1 : i < j => at(i) <= at(j) /\ s[i] # s[j]
    BY DEF IsIndex
  <2>7. \A i \in 0 .. n - 1 : s[i] # ref
    BY DEF Names
  <2>. QED BY <2>1, <2>2, <2>3, <2>4, <2>5, <2>6, <2>7
<1>2. AddShortSorted(s, n, m, ref, x).n = n + 1
  BY DEF AddShortSorted
<1>. DEFINE after == IF k < n /\ x > at(k) THEN k + 1 ELSE k
<1>3. AddShortSorted(s, n, m, ref, x).array
        = [(IF after < n THEN MemMove(s, after + 1, after, n - after) ELSE s) EXCEPT ![after] = ref]
  BY DEF AddShortSorted
<1>. HIDE DEF at
<1>4. P \in SUBSET (0 .. n - 1) /\ \A i, j \in 0 .. n - 1 : i < j /\ j \in P => i \in P
  BY <1>1
<1>5. /\ k \in 0 .. n
      /\ n > 1 => \A i \in 0 .. n - 1 : i \in P <=> i < k
      /\ n <= 1 => k = 0
  <2>. HIDE DEF P
  <2>. QED BY <1>1, <1>4, SearchSorted
<1>6. PICK p \in 0 .. n : p = k
  BY <1>5
<1>7. PICK l \in 0 .. n : l = IF p < n /\ x > at(p) THEN p + 1 ELSE p
  <2>1. (IF p < n /\ x > at(p) THEN p + 1 ELSE p) \in 0 .. n
    BY <1>1
  <2>. QED BY <2>1
<1>8. after = l
  <2>. HIDE DEF k
  <2>. QED BY <1>6, <1>7
<1>9. \A i \in 0 .. n - 1 : (i < l => at(i) <= x) /\ (i >= l => x <= at(i))
  <2>1. CASE n <= 1
    <3>1. p = 0 /\ (n = 0 \/ n = 1)
      BY <1>1, <1>5, <1>6, <2>1
    <3>. QED BY <1>1, <1>7, <3>1
  <2>2. CASE n > 1
    <3>1. \A i \in 0 .. n - 1 : (i < p => at(i) <= x) /\ (i >= p => x < at(i))
      BY <1>1, <1>5, <1>6, <2>2
    <3>2. l = p
      BY <1>1, <1>7, <3>1
    <3>. QED BY <1>1, <3>1, <3>2
  <2>. QED BY <1>1, <2>1, <2>2
<1>. HIDE DEF P, k, after
<1>10. PICK a : a = Spread(s, n, l, ref)
  OBVIOUS
<1>11. AddShortSorted(s, n, m, ref, x).array = a
  BY <1>t, <1>1, <1>3, <1>8, <1>10, MoveSpreads
<1>12. /\ a \in Arrays
       /\ \A j \in 0 .. n : a[j] = IF j = l THEN ref ELSE IF j > l THEN s[j - 1] ELSE s[j]
  BY <1>t, <1>1, <1>10 DEF Spread, Arrays
<1>13. ASSUME NEW i \in 0 .. n, NEW j \in 0 .. n, i < j
       PROVE  a[i] # a[j] /\ m[a[i]].addr <= m[a[j]].addr
  <2>1. CASE i = l
    <3>1. a[i] = ref /\ a[j] = s[j - 1] /\ j - 1 \in 0 .. n - 1 /\ j - 1 >= l
      BY <1>1, <1>12, <1>13, <2>1
    <3>. QED BY <1>1, <1>9, <3>1 DEF at
  <2>2. CASE j = l
    <3>1. a[j] = ref /\ a[i] = s[i] /\ i \in 0 .. n - 1 /\ i < l
      BY <1>1, <1>12, <1>13, <2>2
    <3>. QED BY <1>1, <1>9, <3>1 DEF at
  <2>3. CASE i # l /\ j # l
    <3>1. PICK i1, j1 \in 0 .. n - 1 : a[i] = s[i1] /\ a[j] = s[j1] /\ i1 < j1
      <4>1. PICK i1 \in 0 .. n - 1 : a[i] = s[i1] /\ i1 = IF i > l THEN i - 1 ELSE i
        BY <1>1, <1>12, <1>13, <2>3
      <4>2. PICK j1 \in 0 .. n - 1 : a[j] = s[j1] /\ j1 = IF j > l THEN j - 1 ELSE j
        BY <1>1, <1>12, <1>13, <2>3
      <4>3. i1 < j1
        BY <1>13, <2>3, <4>1, <4>2
      <4>. QED BY <4>1, <4>2, <4>3
    <3>. QED BY <1>1, <3>1 DEF at
  <2>. QED BY <2>1, <2>2, <2>3
<1>14. \A i \in 0 .. n : m[a[i]].used /\ m[a[i]].addr # NoShort
  <2>1. ASSUME NEW i \in 0 .. n PROVE a[i] = ref \/ \E j \in 0 .. n - 1 : a[i] = s[j]
    BY <1>1, <1>12
  <2>. QED BY <1>1, <2>1 DEF at
<1>15. 0 .. (n + 1) - 1 = 0 .. n /\ n + 1 \in 0 .. TableSize
  BY <1>t, <1>1
<1>. QED BY <1>2, <1>11, <1>12, <1>13, <1>14, <1>15 DEF IsIndex

\* An index speaks of the entries it names only.
LEMMA IndexMoves ==
  ASSUME NEW s, NEW n, NEW m, NEW w, IsIndex(s, n, m),
         \A r \in Refs : Names(s, n, r) => w[r].used = m[r].used /\ w[r].addr = m[r].addr
  PROVE  IsIndex(s, n, w)
<1>1. \A i \in 0 .. n - 1 : s[i] \in Refs /\ Names(s, n, s[i])
  BY TableAssumption DEF IsIndex, Arrays, Names
<1>2. \A i \in 0 .. n - 1 : w[s[i]].used = m[s[i]].used /\ w[s[i]].addr = m[s[i]].addr
  BY <1>1
<1>. QED BY <1>2 DEF IsIndex

-----------------------------------------------------------------------------
(***************************************************************************)
(* del_short_sorted.  Its scan goes on over the moved elements and looks   *)
(* at the one that was moved in from behind the index, so that the removal *)
(* can be counted twice; the index that is left is still one of the        *)
(* entries in their order, without the removed one.                        *)
(***************************************************************************)

\* The body of the scan, as a function of the scans before.
ScanStep(s, n, ref, after, k) ==
  IF k = 0 THEN [array |-> s, dec |-> 0]
  ELSE LET p == after[k - 1]
           i == k - 1
       IN  IF p.array[i] # ref THEN p
           ELSE [array |-> IF i # n - 1 THEN MemMove(p.array, i, i + 1, n - i) ELSE p.array,
                 dec |-> p.dec + 1]

\* The array without position p, moved up from behind it.
Closed(s, n, p) ==
  [j \in 0 .. TableSize |-> IF p # n - 1 /\ j \in p .. n - 1 THEN s[j + 1] ELSE s[j]]

\* The scan after k positions, for an array that has ref at position p if p < n.
Scanned(s, n, ref, p, k) ==
  IF k <= p THEN [array |-> s, dec |-> 0]
  ELSE [array |-> Closed(s, n, p),
        dec |-> IF k = n /\ p # n - 1 /\ s[n] = ref THEN 2 ELSE 1]

\* The only position of ref, or n.
FoundAt(s, n, ref, p) ==
  /\ p \in 0 .. n /\ (p < n => s[p] = ref)
  /\ \A i \in 0 .. n - 1 : i # p => s[i] # ref

LEMMA MoveCloses ==
  ASSUME NEW s \in Arrays, NEW n \in 0 .. TableSize, NEW p \in 0 .. n - 1
  PROVE  Closed(s, n, p) = IF p # n - 1 THEN MemMove(s, p, p + 1, n - p) ELSE s
<1>t. TableSize \in Nat /\ n \in Nat
  BY TableAssumption
<1>1. CASE p # n - 1
  <2>1. DOMAIN s = 0 .. TableSize
    BY DEF Arrays
  <2>2. \A j \in 0 .. TableSize : /\ (j \in p .. p + (n - p) - 1) <=> j \in p .. n - 1
                                  /\ j + (p + 1) - p = j + 1
    BY <1>t
  <2>3. MemMove(s, p, p + 1, n - p)
          = [j \in 0 .. TableSize |-> IF j \in p .. n - 1 THEN s[j + 1] ELSE s[j]]
    BY <2>1, <2>2 DEF MemMove
  <2>. QED BY <1>1, <2>3 DEF Closed
<1>2. CASE p = n - 1
  BY <1>t, <1>2 DEF Closed, Arrays
<1>. QED BY <1>1, <1>2

LEMMA ScanAdvances ==
  ASSUME NEW s \in Arrays, NEW n \in 0 .. TableSize, NEW ref \in Refs, NEW p, FoundAt(s, n, ref, p),
         NEW k \in 0 .. n, NEW after,
         k # 0 => after[k - 1] = Scanned(s, n, ref, p, k - 1)
  PROVE  ScanStep(s, n, ref, after, k) = Scanned(s, n, ref, p, k)
<1>t. TableSize \in Nat /\ n \in Nat /\ n <= TableSize /\ p \in Nat /\ p <= n
  BY TableAssumption DEF FoundAt
<1>1. CASE k = 0
  BY <1>t, <1>1 DEF ScanStep, Scanned
<1>2. CASE k # 0
  <2>1. PICK i \in 0 .. n - 1 : i = k - 1
    BY <1>2
  <2>2. after[k - 1] = Scanned(s, n, ref, p, i)
    BY <1>2, <2>1
  <2>3. PICK q : q = Scanned(s, n, ref, p, i)
    OBVIOUS
  <2>4. ScanStep(s, n, ref, after, k)
          = IF q.array[i] # ref THEN q
            ELSE [array |-> IF i # n - 1 THEN MemMove(q.array, i, i + 1, n - i) ELSE q.array,
                  dec |-> q.dec + 1]
    BY <1>2, <2>1, <2>2, <2>3 DEF ScanStep
  <2>5. CASE i < p
    <3>1. q = [array |-> s, dec |-> 0] /\ Scanned(s, n, ref, p, k) = [array |-> s, dec |-> 0]
      BY <1>t, <2>1, <2>3, <2>5 DEF Scanned
    <3>2. q.array[i] # ref
      BY <2>5, <3>1 DEF FoundAt
    <3>. QED BY <2>4, <3>1, <3>2
  <2>6. CASE i = p
    <3>1. q = [array |-> s, dec |-> 0]
      BY <1>t, <2>3, <2>6 DEF Scanned
    <3>2. q.array[i] = ref
      BY <2>1, <2>6, <3>1 DEF FoundAt
    <3>3. ScanStep(s, n, ref, after, k) = [array |-> Closed(s, n, p), dec |-> 1]
      <4>1. p \in 0 .. n - 1
        BY <2>6
      <4>2. Closed(s, n, p) = IF i # n - 1 THEN MemMove(q.array, i, i + 1, n - i) ELSE q.array
        BY <2>6, <3>1, <4>1, MoveCloses
      <4>. QED BY <2>4, <3>1, <3>2, <4>2
    <3>4. Scanned(s, n, ref, p, k) = [array |-> Closed(s, n, p), dec |-> 1]
      <4>1. ~(k <= p) /\ ~(k = n /\ p # n - 1)
        BY <1>t, <2>1, <2>6
      <4>. QED BY <4>1 DEF Scanned
    <3>. QED BY <3>3, <3>4
  <2>7. CASE i > p
    <3>1. q = [array |-> Closed(s, n, p), dec |-> 1]
      <4>1. ~(i <= p) /\ i # n
        BY <1>t, <2>1, <2>7
      <4>. QED BY <2>3, <4>1 DEF Scanned
    <3>2. p # n - 1 /\ i \in p .. n - 1 /\ i \in 0 .. TableSize
      BY <1>t, <2>1, <2>7
    <3>3. q.array[i] = s[i + 1]
      BY <3>1, <3>2 DEF Closed
    <3>4. CASE i # n - 1
      <4>1. i + 1 \in 0 .. n - 1 /\ i + 1 # p /\ ~(k <= p) /\ k # n
        BY <1>t, <2>1, <2>7, <3>4
      <4>2. q.array[i] # ref
        BY <3>3, <4>1 DEF FoundAt
      <4>3. Scanned(s, n, ref, p, k) = [array |-> Closed(s, n, p), dec |-> 1]
        BY <4>1 DEF Scanned
      <4>. QED BY <2>4, <3>1, <4>2, <4>3
    <3>5. CASE i = n - 1
      <4>1. i + 1 = n /\ ~(k <= p) /\ k = n
        BY <1>t, <2>1, <2>7, <3>5
      <4>2. CASE s[n] = ref
        <5>1. ScanStep(s, n, ref, after, k) = [array |-> Closed(s, n, p), dec |-> 2]
          BY <2>4, <3>1, <3>3, <3>5, <4>1, <4>2
        <5>2. Scanned(s, n, ref, p, k) = [array |-> Closed(s, n, p), dec |-> 2]
          BY <3>2, <4>1, <4>2 DEF Scanned
        <5>. QED BY <5>1, <5>2
      <4>3. CASE s[n] # ref
        <5>1. ScanStep(s, n, ref, after, k) = [array |-> Closed(s, n, p), dec |-> 1]
          BY <2>4, <3>1, <3>3, <4>1, <4>3
        <5>2. Scanned(s, n, ref, p, k) = [array |-> Closed(s, n, p), dec |-> 1]
          BY <4>1, <4>3 DEF Scanned
        <5>. QED BY <5>1, <5>2
      <4>. QED BY <4>2, <4>3
    <3>. QED BY <3>4, <3>5
  <2>. QED BY <1>t, <2>5, <2>6, <2>7
<1>. QED BY <1>1, <1>2

\* What del_short_sorted returns.
LEMMA ScanEnds ==
  ASSUME NEW s \in Arrays, NEW n \in 0 .. TableSize, NEW ref \in Refs, NEW p, FoundAt(s, n, ref, p)
  PROVE  LET d == DelShortSorted(s, n, ref)
             e == Scanned(s, n, ref, p, n)
         IN  d.array = e.array /\ d.n = n - e.dec
<1>. DEFINE Scan(h) == h = [k \in 0 .. n |-> ScanStep(s, n, ref, h, k)]
            after == CHOOSE h : Scan(h)
            found == [k \in 0 .. n |-> Scanned(s, n, ref, p, k)]
<1>t. n \in Nat /\ n \in 0 .. n
  BY TableAssumption
<1>1. Scan(found)
  <2>1. ASSUME NEW k \in 0 .. n PROVE ScanStep(s, n, ref, found, k) = Scanned(s, n, ref, p, k)
    <3>1. k # 0 => found[k - 1] = Scanned(s, n, ref, p, k - 1)
      BY <1>t
    <3>. HIDE DEF found
    <3>. QED BY <3>1, ScanAdvances
  <2>2. PICK f : f = found
    OBVIOUS
  <2>3. f = [k \in 0 .. n |-> Scanned(s, n, ref, p, k)]
    BY <2>2
  <2>. HIDE DEF found
  <2>4. f = [k \in 0 .. n |-> ScanStep(s, n, ref, f, k)]
    BY <2>1, <2>2, <2>3
  <2>. QED BY <2>2, <2>4
<1>2. PICK h : h = after
  OBVIOUS
<1>3. \A k \in 0 .. n : h[k] = ScanStep(s, n, ref, h, k)
  <2>1. Scan(after)
    <3>. HIDE DEF Scan, found
    <3>. QED BY <1>1
  <2>2. h = [k \in 0 .. n |-> ScanStep(s, n, ref, h, k)]
    BY <1>2, <2>1
  <2>. QED BY <2>2, Zenon
<1>4. DelShortSorted(s, n, ref) = [array |-> after[n].array, n |-> n - after[n].dec]
  BY DEF DelShortSorted, ScanStep
<1>. HIDE DEF after, found
<1>5. h[n] = Scanned(s, n, ref, p, n)
  <2>. DEFINE T == {k \in Nat : k <= n => h[k] = Scanned(s, n, ref, p, k)}
  <2>1. 0 \in T
    BY <1>t, <1>3, ScanAdvances
  <2>2. ASSUME NEW k \in Nat, k \in T PROVE k + 1 \in T
    <3>1. SUFFICES ASSUME k + 1 <= n PROVE h[k + 1] = Scanned(s, n, ref, p, k + 1)
      OBVIOUS
    <3>2. k + 1 \in 0 .. n /\ (k + 1) - 1 = k /\ h[k] = Scanned(s, n, ref, p, k)
      BY <1>t, <2>2, <3>1
    <3>. QED BY <1>3, <3>2, ScanAdvances
  <2>3. n \in T
    <3>. HIDE DEF T
    <3>. QED BY <1>t, <2>1, <2>2, NatClosed
  <2>. QED BY <1>t, <2>3
<1>. QED BY <1>2, <1>4, <1>5

\* del_short_sorted leaves an index without the entry, whose other entries were
\* in it.
LEMMA DelKeeps ==
  ASSUME NEW s, NEW n, NEW m, NEW ref \in Refs, IsIndex(s, n, m)
  PROVE  LET d == DelShortSorted(s, n, ref)
         IN  /\ IsIndex(d.array, d.n, m)
             /\ ~Names(d.array, d.n, ref)
             /\ \A r \in Refs : Names(d.array, d.n, r) => Names(s, n, r)
<1>t. TableSize \in Nat /\ s \in Arrays /\ n \in 0 .. TableSize /\ n \in Nat /\ n <= TableSize
  BY TableAssumption DEF IsIndex
<1>1. PICK p : FoundAt(s, n, ref, p)
  <2>1. CASE Names(s, n, ref)
    <3>1. PICK p \in 0 .. n - 1 : s[p] = ref
      BY <2>1 DEF Names
    <3>2. \A i \in 0 .. n - 1 : i # p => s[i] # ref
      <4>1. \A i \in 0 .. n - 1 : i # p => i < p \/ p < i
        BY <1>t
      <4>. QED BY <3>1, <4>1 DEF IsIndex
    <3>. QED BY <1>t, <3>1, <3>2 DEF FoundAt
  <2>2. CASE ~Names(s, n, ref)
    <3>1. FoundAt(s, n, ref, n)
      BY <1>t, <2>2 DEF FoundAt, Names
    <3>. QED BY <3>1
  <2>. QED BY <2>1, <2>2
<1>p. p \in Nat /\ p <= n
  BY <1>t, <1>1 DEF FoundAt
<1>2. PICK e : e = Scanned(s, n, ref, p, n)
  OBVIOUS
<1>3. DelShortSorted(s, n, ref).array = e.array /\ DelShortSorted(s, n, ref).n = n - e.dec
  BY <1>t, <1>1, <1>2, ScanEnds
<1>4. PICK a, k : a = e.array /\ k = n - e.dec
  OBVIOUS
<1>5. /\ a \in Arrays /\ k \in 0 .. n
      /\ \A i \in 0 .. k - 1 : i # p => a[i] = IF i < p THEN s[i] ELSE s[i + 1]
      /\ p < n => k < n
      /\ \A i \in 0 .. k - 1 : i = p => i + 1 < n /\ a[i] = s[i + 1]
  <2>1. CASE p = n
    <3>1. e = [array |-> s, dec |-> 0]
      BY <1>2, <1>p, <2>1 DEF Scanned
    <3>2. a = s /\ k = n
      BY <1>t, <1>4, <3>1
    <3>. QED BY <1>t, <2>1, <3>2
  <2>2. CASE p < n
    <3>1. e.array = Closed(s, n, p) /\ (e.dec = 1 \/ (e.dec = 2 /\ p # n - 1))
      <4>1. ~(n <= p)
        BY <1>t, <1>p, <2>2
      <4>2. e = [array |-> Closed(s, n, p), dec |-> IF n = n /\ p # n - 1 /\ s[n] = ref THEN 2 ELSE 1]
        BY <1>2, <4>1 DEF Scanned
      <4>. QED BY <4>2
    <3>2. a = Closed(s, n, p) /\ (k = n - 1 \/ (k = n - 2 /\ p # n - 1))
      BY <1>4, <3>1
    <3>3. k \in 0 .. n - 1
      BY <1>t, <1>p, <2>2, <3>2
    <3>4. a \in Arrays
      BY <1>t, <3>2 DEF Closed, Arrays
    <3>5. ASSUME NEW i \in 0 .. k - 1 PROVE a[i] = IF i < p THEN s[i] ELSE s[i + 1]
      <4>1. i \in 0 .. TableSize /\ i <= n - 1 /\ i < n - 1
        BY <1>t, <3>3
      <4>2. a[i] = IF p # n - 1 /\ i \in p .. n - 1 THEN s[i + 1] ELSE s[i]
        BY <3>2, <4>1 DEF Closed
      <4>3. (p # n - 1 /\ i \in p .. n - 1) <=> ~(i < p)
        BY <1>t, <1>p, <2>2, <4>1
      <4>. QED BY <4>2, <4>3
    <3>. QED BY <1>t, <1>p, <3>3, <3>4, <3>5
  <2>. QED BY <1>t, <1>p, <2>1, <2>2
<1>6. ASSUME NEW i \in 0 .. k - 1
      PROVE  \E j \in 0 .. n - 1 : j = (IF i < p THEN i ELSE i + 1) /\ a[i] = s[j] /\ j # p
  <2>1. i < n /\ (p < n \/ i < p)
    BY <1>t, <1>p, <1>5
  <2>2. p < n => i + 1 < n
    BY <1>t, <1>5
  <2>3. CASE i < p
    BY <1>t, <1>5, <2>1, <2>3
  <2>4. CASE i >= p
    BY <1>t, <1>p, <1>5, <2>1, <2>2, <2>4
  <2>. QED BY <1>p, <2>3, <2>4
<1>7. ASSUME NEW i \in 0 .. k - 1, NEW j \in 0 .. k - 1, i < j
      PROVE  a[i] # a[j] /\ m[a[i]].addr <= m[a[j]].addr
  <2>1. PICK i1 \in 0 .. n - 1 : i1 = (IF i < p THEN i ELSE i + 1) /\ a[i] = s[i1]
    BY <1>6
  <2>2. PICK j1 \in 0 .. n - 1 : j1 = (IF j < p THEN j ELSE j + 1) /\ a[j] = s[j1]
    BY <1>6
  <2>3. i1 < j1
    BY <1>p, <1>7, <2>1, <2>2
  <2>. QED BY <2>1, <2>2, <2>3 DEF IsIndex
<1>8. /\ \A i \in 0 .. k - 1 : m[a[i]].used /\ m[a[i]].addr # NoShort /\ a[i] # ref
      /\ \A i \in 0 .. k - 1 : \E j \in 0 .. n - 1 : a[i] = s[j]
  BY <1>1, <1>6 DEF IsIndex, FoundAt
<1>9. IsIndex(a, k, m)
  BY <1>t, <1>5, <1>7, <1>8 DEF IsIndex
<1>10. ~Names(a, k, ref) /\ \A r \in Refs : Names(a, k, r) => Names(s, n, r)
  BY <1>8 DEF Names
<1>. QED BY <1>3, <1>4, <1>9, <1>10

-----------------------------------------------------------------------------
(***************************************************************************)
(* The searches over the slots and the manufacturers.                      *)
(***************************************************************************)

LEMMA FirstIn ==
  ASSUME NEW h \in Refs, NEW S \in SUBSET Refs, S # {}
  PROVE  First(h, S) \in S
<1>. DEFINE away(r) == (r + TableSize - h) % TableSize
            D == {away(r) : r \in S}
<1>1. \A r \in Refs : away(r) \in Nat
  <2>1. TableSize \in Nat \ {0}
    BY TableAssumption
  <2>2. ASSUME NEW r \in Refs PROVE away(r) \in Nat
    <3>1. r + TableSize - h \in Int
      BY <2>1 DEF Refs
    <3>. QED BY <2>1, <3>1
  <2>. QED BY <2>2
<1>. HIDE DEF away
<1>2. D \in SUBSET Nat /\ D # {}
  BY <1>1
<1>3. PICK x \in D : \A y \in D : x <= y
  <2>. HIDE DEF D
  <2>. QED BY <1>2, LeastElement
<1>4. PICK r \in S : \A q \in S : away(r) <= away(q)
  BY <1>3
<1>5. First(h, S) = CHOOSE k \in S : \A q \in S : away(k) <= away(q)
  BY DEF First, away
<1>. QED BY <1>4, <1>5

\* ieee_search finds an entry with the address if there is one.
LEMMA IeeeSearch ==
  ASSUME NEW c, Hash(c[2]) \in Refs
  PROVE  /\ \A r \in IeeeFound(c) : r \in Used /\ addr_map[r].ieee_addr = c
         /\ IeeeFound(c) = {} => \A r \in Used : addr_map[r].ieee_addr # c
         /\ \A r \in IeeeFound(c) : IeeeFound(c) = {r}
<1>. DEFINE S == {r \in Refs : addr_map[r].used /\ addr_map[r].ieee_addr = c}
<1>1. IeeeFound(c) = IF S = {} THEN {} ELSE {First(Hash(c[2]), S)}
  BY DEF IeeeFound
<1>2. S # {} => First(Hash(c[2]), S) \in S
  BY FirstIn
<1>3. \A r \in S : r \in Used /\ addr_map[r].ieee_addr = c
  BY DEF Used
<1>4. S = {} => \A r \in Used : addr_map[r].ieee_addr # c
  BY DEF Used
<1>. HIDE DEF S
<1>. QED BY <1>1, <1>2, <1>3, <1>4

Ids == {d[2] : d \in Devices} \cup {ZeroId}

\* A manufacturer has one position.
ManufsOnce ==
  /\ dev_manufacturer \in [ManufRefs -> Manufs \cup {NoManuf}]
  /\ \A i, j \in ManufRefs :
       dev_manufacturer[i] = dev_manufacturer[j] /\ dev_manufacturer[i] # NoManuf => i = j

\* A step leaves the manufacturers where they are.
ManufsKept ==
  /\ ManufsOnce'
  /\ \A i \in ManufRefs : dev_manufacturer[i] # NoManuf => dev_manufacturer'[i] = dev_manufacturer[i]

LEMMA ManufPosition ==
  ASSUME NEW d \in Devices, Compressible(d)
  PROVE  /\ ManufRef(d) \in ManufRefs
         /\ \/ dev_manufacturer[ManufRef(d)] = d[1]
            \/ dev_manufacturer[ManufRef(d)] = NoManuf /\ ManufUsed(d) = {}
<1>1. CASE ManufUsed(d) # {}
  <2>1. ManufRef(d) \in ManufUsed(d)
    BY <1>1 DEF ManufRef
  <2>. QED BY <2>1 DEF ManufUsed
<1>2. CASE ManufUsed(d) = {}
  <2>. DEFINE D == {ManufSize - i : i \in ManufFree}
  <2>1. ManufFree # {} /\ ManufSize \in Nat /\ ManufFree \in SUBSET ManufRefs
    BY <1>2, TableAssumption DEF Compressible, ManufFree
  <2>2. D \in SUBSET Nat /\ D # {}
    BY <2>1 DEF ManufRefs
  <2>3. PICK x \in D : \A y \in D : x <= y
    <3>. HIDE DEF D
    <3>. QED BY <2>2, LeastElement
  <2>4. PICK i \in ManufFree : \A j \in ManufFree : ManufSize - i <= ManufSize - j
    BY <2>3
  <2>5. \A j \in ManufFree : j <= i
    BY <2>1, <2>4 DEF ManufRefs
  <2>6. ManufRef(d) = CHOOSE k \in ManufFree : \A j \in ManufFree : j <= k
    BY <1>2 DEF ManufRef
  <2>7. ManufRef(d) \in ManufFree
    BY <2>5, <2>6
  <2>. QED BY <1>2, <2>7 DEF ManufFree
<1>. QED BY <1>1, <1>2

\* zb_ieee_addr_compress: an address that can be found again.
LEMMA CompressKeeps ==
  ASSUME NEW d \in Devices, ManufsOnce, Compress(d)
  PROVE  /\ ManufsKept
         /\ Compressed(d) \in ManufRefs \X Ids
         /\ Compressed(d)[2] = d[2] /\ Compressed(d) # ZeroIeee
         /\ dev_manufacturer'[Compressed(d)[1]] = d[1]
         /\ Hash(d[2]) \in Refs
<1>1. /\ d[1] \in Manufs /\ d[1] # NoManuf /\ d[2] # ZeroId /\ Hash(d[2]) \in Refs /\ d[2] \in Ids
  BY TableAssumption DEF Manufs, Ids
<1>2. PICK i : i = ManufRef(d)
  OBVIOUS
<1>3. /\ i \in ManufRefs
      /\ \/ dev_manufacturer[i] = d[1]
         \/ dev_manufacturer[i] = NoManuf /\ ManufUsed(d) = {}
  BY <1>2, ManufPosition DEF Compress
<1>4. dev_manufacturer' = [dev_manufacturer EXCEPT ![i] = d[1]]
  BY <1>2 DEF Compress
<1>5. Compressed(d) = <<i, d[2]>>
  BY <1>2 DEF Compressed
<1>6. \A j \in ManufRefs : dev_manufacturer[j] = d[1] => j = i
  BY <1>1, <1>3 DEF ManufsOnce, ManufUsed
<1>7. \A j \in ManufRefs : dev_manufacturer'[j] = IF j = i THEN d[1] ELSE dev_manufacturer[j]
  BY <1>4 DEF ManufsOnce
<1>8. dev_manufacturer' \in [ManufRefs -> Manufs \cup {NoManuf}]
  BY <1>1, <1>4 DEF ManufsOnce
<1>9. ManufsKept
  <2>1. ASSUME NEW j \in ManufRefs, NEW k \in ManufRefs,
               dev_manufacturer'[j] = dev_manufacturer'[k], dev_manufacturer'[j] # NoManuf
        PROVE  j = k
    <3>1. CASE j = i \/ k = i
      BY <1>6, <1>7, <2>1, <3>1
    <3>2. CASE j # i /\ k # i
      BY <1>7, <2>1, <3>2 DEF ManufsOnce
    <3>. QED BY <3>1, <3>2
  <2>2. ManufsOnce'
    BY <1>8, <2>1 DEF ManufsOnce
  <2>3. \A j \in ManufRefs : dev_manufacturer[j] # NoManuf => dev_manufacturer'[j] = dev_manufacturer[j]
    BY <1>3, <1>7
  <2>. QED BY <2>2, <2>3 DEF ManufsKept
<1>10. Compressed(d) # ZeroIeee
  BY <1>1, <1>5 DEF ZeroIeee
<1>. QED BY <1>1, <1>3, <1>5, <1>7, <1>9, <1>10

-----------------------------------------------------------------------------
(***************************************************************************)
(* The inductive invariant.  The index is sorted by the addresses the      *)
(* entries have now and names entries in use; an entry found by a 64-bit   *)
(* address was given to the device of that address, the manufacturer it    *)
(* refers to has not moved, and no two entries have the same.              *)
(***************************************************************************)

Typed ==
  /\ addr_map \in [Refs -> Entries]
  /\ dev \in [Refs -> Devices \cup {ZeroId}]

Given(r) ==
  LET c == addr_map[r].ieee_addr IN
  c # ZeroIeee => /\ dev[r] \in Devices
                  /\ dev_manufacturer[c[1]] = dev[r][1]
                  /\ c[2] = dev[r][2]

GivenOnce ==
  /\ \A r \in Used : Given(r)
  /\ \A r, q \in Used : r # q /\ addr_map[r].ieee_addr # ZeroIeee
                          => addr_map[r].ieee_addr # addr_map[q].ieee_addr

AddrInv ==
  /\ Typed
  /\ ManufsOnce
  /\ IsIndex(short_sorted, n_sorted_elements, addr_map)
  /\ ElementsCounted
  /\ GivenOnce

EntryTypes == ManufRefs \X Ids

LEMMA EntryFields ==
  ASSUME Typed, NEW r \in Refs
  PROVE  /\ addr_map[r].used \in BOOLEAN /\ addr_map[r].ieee_addr \in EntryTypes
         /\ addr_map[r].addr \in 0 .. MaxShort /\ addr_map[r].lock_cnt \in 0 .. LockMod - 1
BY DEF Typed, Entries, EntryTypes, Ids

\* Given in the next state, for an entry that stays as it is.
LEMMA GivenKept ==
  ASSUME AddrInv, ManufsKept, NEW r \in Used,
         addr_map'[r].ieee_addr = addr_map[r].ieee_addr, dev'[r] = dev[r]
  PROVE  Given(r)'
<1>1. SUFFICES ASSUME addr_map[r].ieee_addr # ZeroIeee
               PROVE  /\ dev[r] \in Devices
                      /\ dev_manufacturer'[addr_map[r].ieee_addr[1]] = dev[r][1]
                      /\ addr_map[r].ieee_addr[2] = dev[r][2]
  BY DEF Given
<1>2. /\ dev[r] \in Devices /\ dev_manufacturer[addr_map[r].ieee_addr[1]] = dev[r][1]
      /\ addr_map[r].ieee_addr[2] = dev[r][2]
  BY <1>1 DEF AddrInv, GivenOnce, Given
<1>3. dev[r][1] # NoManuf
  BY <1>2, TableAssumption DEF Manufs
<1>4. addr_map[r].ieee_addr[1] \in ManufRefs
  BY EntryFields DEF EntryTypes, AddrInv, Used
<1>. QED BY <1>2, <1>3, <1>4 DEF ManufsKept

\* A step that only locks or unlocks.
LEMMA LockStep ==
  ASSUME AddrInv, ManufsKept, addr_map' \in [Refs -> Entries],
         \A r \in Refs : /\ addr_map'[r].used = addr_map[r].used
                         /\ addr_map'[r].ieee_addr = addr_map[r].ieee_addr
                         /\ addr_map'[r].addr = addr_map[r].addr,
         UNCHANGED <<indexVars, n_elements, dev>>
  PROVE  AddrInv'
<1>1. Used' = Used
  BY DEF Used
<1>2. Typed'
  BY DEF AddrInv, Typed
<1>3. IsIndex(short_sorted, n_sorted_elements, addr_map)'
  BY IndexMoves DEF AddrInv, indexVars
<1>4. ElementsCounted'
  BY <1>1 DEF AddrInv, ElementsCounted
<1>5. \A r \in Used : Given(r)'
  BY GivenKept DEF Used
<1>6. GivenOnce'
  BY <1>1, <1>5 DEF GivenOnce, AddrInv, Used
<1>. QED BY <1>2, <1>3, <1>4, <1>6 DEF AddrInv, ManufsKept

LEMMA LockOnlyStep ==
  ASSUME AddrInv, ManufsKept, NEW r \in Refs, NEW lock \in BOOLEAN, LockOnly(r, lock)
  PROVE  AddrInv'
<1>1. addr_map \in [Refs -> Entries] /\ addr_map[r].lock_cnt \in 0 .. LockMod - 1 /\ LockMod \in Nat
  BY EntryFields, TableAssumption DEF AddrInv, Typed
<1>2. Locked(lock, addr_map[r].lock_cnt) \in 0 .. LockMod - 1
  BY <1>1 DEF LockOnly, CanLock, Locked
<1>3. addr_map' = [addr_map EXCEPT ![r].lock_cnt = Locked(lock, @)]
  BY DEF LockOnly
<1>4. addr_map' \in [Refs -> Entries]
  BY <1>1, <1>2, <1>3 DEF Entries
<1>5. \A q \in Refs : /\ addr_map'[q].used = addr_map[q].used
                      /\ addr_map'[q].ieee_addr = addr_map[q].ieee_addr
                      /\ addr_map'[q].addr = addr_map[q].addr
  BY <1>1, <1>3 DEF Entries
<1>. QED BY <1>4, <1>5, LockStep DEF LockOnly

LEMMA UnlockStep ==
  ASSUME AddrInv, NEW r \in Refs, Unlock(r)
  PROVE  AddrInv'
<1>1. addr_map \in [Refs -> Entries] /\ addr_map[r].lock_cnt \in 0 .. LockMod - 1 /\ LockMod \in Nat
  BY EntryFields, TableAssumption DEF AddrInv, Typed
<1>2. addr_map[r].lock_cnt - 1 \in 0 .. LockMod - 1
  BY <1>1 DEF Unlock
<1>3. addr_map' = [addr_map EXCEPT ![r].lock_cnt = @ - 1]
  BY DEF Unlock
<1>4. addr_map' \in [Refs -> Entries]
  BY <1>1, <1>2, <1>3 DEF Entries
<1>5. \A q \in Refs : /\ addr_map'[q].used = addr_map[q].used
                      /\ addr_map'[q].ieee_addr = addr_map[q].ieee_addr
                      /\ addr_map'[q].addr = addr_map[q].addr
  BY <1>1, <1>3 DEF Entries
<1>6. ManufsKept
  BY DEF AddrInv, ManufsKept, ManufsOnce, Unlock
<1>. QED BY <1>4, <1>5, <1>6, LockStep DEF Unlock

LEMMA UsedFinite ==
  /\ IsFiniteSet(Used) /\ Cardinality(Used) \in Nat
  /\ \A r \in Refs : /\ IsFiniteSet(Used \cup {r}) /\ IsFiniteSet(Used \ {r})
                     /\ r \notin Used => Cardinality(Used \cup {r}) = Cardinality(Used) + 1
                     /\ r \in Used => Cardinality(Used \ {r}) = Cardinality(Used) - 1
<1>1. IsFiniteSet(Used) /\ Cardinality(Used) \in Nat
  <2>1. Used \in SUBSET Refs
    BY DEF Used
  <2>2. IsFiniteSet(Used)
    BY <2>1, RefsFinite, FS_Subset
  <2>. QED BY <2>2, FS_CardinalityType
<1>2. \A r : /\ IsFiniteSet(Used \cup {r})
             /\ Cardinality(Used \cup {r}) = IF r \in Used THEN Cardinality(Used) ELSE Cardinality(Used) + 1
  BY <1>1, FS_AddElement
<1>3. \A r : /\ IsFiniteSet(Used \ {r})
             /\ Cardinality(Used \ {r}) = IF r \in Used THEN Cardinality(Used) - 1 ELSE Cardinality(Used)
  BY <1>1, FS_RemoveElement
<1>. QED BY <1>1, <1>2, <1>3

LEMMA AddressedEntries == Typed => Addressed(addr_map)
BY EntryFields DEF Addressed

\* A free slot is not in the index.
LEMMA FreeNotNamed ==
  ASSUME AddrInv, NEW r \in Free
  PROVE  ~Names(short_sorted, n_sorted_elements, r)
BY DEF AddrInv, IsIndex, Names, Free

\* addr_add of an address no entry has, into a free slot.
LEMMA AddStep ==
  ASSUME AddrInv, ManufsKept, NEW r \in Free, NEW c \in EntryTypes, NEW x \in 0 .. MaxShort,
         NEW d \in Devices \cup {ZeroId}, NEW lock \in BOOLEAN, AddrAdd(r, c, x, d, lock),
         c # ZeroIeee => /\ d \in Devices /\ dev_manufacturer'[c[1]] = d[1] /\ c[2] = d[2]
                         /\ \A q \in Used : addr_map[q].ieee_addr # c
  PROVE  AddrInv'
<1>r. r \in Refs /\ ~addr_map[r].used /\ r \notin Used
  BY DEF Free, Used
<1>1. addr_map \in [Refs -> Entries] /\ addr_map[r].lock_cnt \in 0 .. LockMod - 1 /\ LockMod \in Nat
  BY <1>r, EntryFields, TableAssumption DEF AddrInv, Typed
<1>2. PICK cnt \in 0 .. LockMod - 1 : cnt = Locked(lock, addr_map[r].lock_cnt)
  BY <1>1 DEF AddrAdd, CanLock, Locked
<1>3. PICK m : m = [addr_map EXCEPT ![r].used = TRUE, ![r].ieee_addr = c, ![r].addr = x,
                                    ![r].lock_cnt = Locked(lock, @)]
  OBVIOUS
<1>4. /\ m \in [Refs -> Entries]
      /\ m[r].used /\ m[r].ieee_addr = c /\ m[r].addr = x
      /\ \A q \in Refs \ {r} : m[q] = addr_map[q]
  <2>1. addr_map[r] \in Entries /\ cnt = Locked(lock, addr_map[r].lock_cnt)
    BY <1>r, <1>1, <1>2
  <2>2. m = [addr_map EXCEPT ![r] = [addr_map[r] EXCEPT !.used = TRUE, !.ieee_addr = c, !.addr = x,
                                                        !.lock_cnt = cnt]]
    BY <1>r, <1>1, <1>3, <2>1 DEF Entries
  <2>3. PICK e \in Entries : e = addr_map[r]
    BY <2>1
  <2>4. PICK f : f = [e EXCEPT !.used = TRUE, !.ieee_addr = c, !.addr = x, !.lock_cnt = cnt]
    OBVIOUS
  <2>5. f \in Entries /\ f.used /\ f.ieee_addr = c /\ f.addr = x
    BY <2>4 DEF Entries, EntryTypes, Ids
  <2>6. m = [addr_map EXCEPT ![r] = f]
    BY <2>2, <2>3, <2>4
  <2>. QED BY <1>r, <1>1, <2>5, <2>6
<1>5. /\ addr_map' = m
      /\ IF x # NoShort
           THEN /\ short_sorted' = AddShortSorted(short_sorted, n_sorted_elements, m, r, x).array
                /\ n_sorted_elements' = AddShortSorted(short_sorted, n_sorted_elements, m, r, x).n
           ELSE short_sorted' = short_sorted /\ n_sorted_elements' = n_sorted_elements
      /\ n_elements' = n_elements + 1
      /\ dev' = [dev EXCEPT ![r] = d]
  BY <1>3 DEF AddrAdd, SetIndex, indexVars
<1>6. Typed'
  BY <1>4, <1>5 DEF AddrInv, Typed
<1>7. Used' = Used \cup {r}
  BY <1>r, <1>4, <1>5 DEF Used
<1>8. ElementsCounted'
  BY <1>r, <1>5, <1>7, UsedFinite DEF AddrInv, ElementsCounted
<1>9. /\ IsIndex(short_sorted, n_sorted_elements, m)
      /\ ~Names(short_sorted, n_sorted_elements, r)
  <2>1. ~Names(short_sorted, n_sorted_elements, r)
    BY FreeNotNamed
  <2>2. \A q \in Refs : Names(short_sorted, n_sorted_elements, q)
                        => m[q].used = addr_map[q].used /\ m[q].addr = addr_map[q].addr
    BY <1>4, <2>1
  <2>3. IsIndex(short_sorted, n_sorted_elements, addr_map)
    BY DEF AddrInv
  <2>. QED BY <2>1, <2>2, <2>3, IndexMoves
<1>10. IsIndex(short_sorted, n_sorted_elements, addr_map)'
  <2>1. CASE x = NoShort
    BY <1>5, <1>9, <2>1
  <2>2. CASE x # NoShort
    <3>1. x \in Shorts /\ Addressed(m)
      <4>1. \A q \in Refs : m[q].addr \in 0 .. MaxShort
        BY <1>4 DEF Entries
      <4>. QED BY <2>2, <4>1, TableAssumption DEF NoShort, Shorts, Addressed
    <3>2. LET ix == AddShortSorted(short_sorted, n_sorted_elements, m, r, x)
          IN  IsIndex(ix.array, ix.n, m)
      BY <1>r, <1>4, <1>9, <3>1, AddKeeps
    <3>. QED BY <1>5, <2>2, <3>2
  <2>. QED BY <2>1, <2>2
<1>11. GivenOnce'
  <2>1. \A q \in Used : q # r /\ addr_map'[q] = addr_map[q] /\ dev'[q] = dev[q]
    BY <1>r, <1>4, <1>5 DEF Used, AddrInv, Typed
  <2>2. dev'[r] = d /\ addr_map'[r].ieee_addr = c
    BY <1>r, <1>4, <1>5 DEF AddrInv, Typed
  <2>3. \A q \in Used : Given(q)'
    BY <2>1, GivenKept
  <2>4. Given(r)'
    BY <2>2 DEF Given
  <2>5. \A p, q \in Used : p # q /\ addr_map[p].ieee_addr # ZeroIeee
                            => addr_map[p].ieee_addr # addr_map[q].ieee_addr
    BY DEF AddrInv, GivenOnce
  <2>6. ASSUME NEW p \in Used', NEW q \in Used', p # q, addr_map'[p].ieee_addr # ZeroIeee
        PROVE  addr_map'[p].ieee_addr # addr_map'[q].ieee_addr
    BY <1>7, <2>1, <2>2, <2>5, <2>6
  <2>. QED BY <1>7, <2>3, <2>4, <2>6 DEF GivenOnce
<1>. QED BY <1>6, <1>8, <1>10, <1>11 DEF AddrInv, ManufsKept

\* The entries after those in gone were deleted.
Without(gone) == [r \in Refs |-> IF r \in gone THEN FreeSlot(addr_map[r].lock_cnt) ELSE addr_map[r]]

LEMMA WithoutTyped ==
  ASSUME AddrInv, NEW gone \in SUBSET Refs
  PROVE  /\ Without(gone) \in [Refs -> Entries]
         /\ \A r \in Refs \ gone : Without(gone)[r] = addr_map[r]
         /\ \A r \in gone : ~Without(gone)[r].used
<1>1. \A r \in Refs : FreeSlot(addr_map[r].lock_cnt) \in Entries
  <2>1. ZeroIeee \in EntryTypes /\ 0 \in 0 .. MaxShort
    BY TableAssumption DEF ZeroIeee, EntryTypes, ManufRefs, Ids
  <2>. QED BY <2>1, EntryFields DEF FreeSlot, Entries, EntryTypes, Ids, AddrInv
<1>2. \A r \in Refs : addr_map[r] \in Entries
  BY DEF AddrInv, Typed
<1>. QED BY <1>1, <1>2 DEF Without, FreeSlot

\* The index without an entry that was deleted.
LEMMA GoneKeeps ==
  ASSUME AddrInv, NEW v \in Refs
  PROVE  LET ix == DelShortSorted(short_sorted, n_sorted_elements, v)
         IN  IsIndex(ix.array, ix.n, Without({v}))
<1>. DEFINE ix == DelShortSorted(short_sorted, n_sorted_elements, v)
<1>1. IsIndex(ix.array, ix.n, addr_map) /\ ~Names(ix.array, ix.n, v)
  BY DelKeeps DEF AddrInv
<1>2. \A r \in Refs \ {v} : Without({v})[r] = addr_map[r]
  BY WithoutTyped
<1>3. \A r \in Refs : Names(ix.array, ix.n, r)
        => /\ Without({v})[r].used = addr_map[r].used
           /\ Without({v})[r].addr = addr_map[r].addr
  BY <1>1, <1>2
<1>. HIDE DEF ix
<1>4. IsIndex(ix.array, ix.n, Without({v}))
  BY <1>1, <1>3, IndexMoves
<1>. QED BY <1>4 DEF ix

LEMMA DeleteStep ==
  ASSUME AddrInv, NEW r \in Refs, Delete(r)
  PROVE  AddrInv'
<1>1. /\ r \in Used
      /\ addr_map' = [addr_map EXCEPT ![r] = FreeSlot(@.lock_cnt)]
      /\ short_sorted' = DelShortSorted(short_sorted, n_sorted_elements, r).array
      /\ n_sorted_elements' = DelShortSorted(short_sorted, n_sorted_elements, r).n
      /\ n_elements' = n_elements - 1
      /\ dev' = [dev EXCEPT ![r] = ZeroId]
      /\ UNCHANGED dev_manufacturer
  BY DEF Delete, SetIndex, Used
<1>2. addr_map' = Without({r})
  BY <1>1 DEF Without, AddrInv, Typed
<1>3. /\ addr_map' \in [Refs -> Entries]
      /\ \A q \in Refs \ {r} : addr_map'[q] = addr_map[q]
      /\ ~addr_map'[r].used
  BY <1>2, WithoutTyped
<1>4. Typed'
  BY <1>1, <1>3 DEF AddrInv, Typed
<1>5. IsIndex(short_sorted, n_sorted_elements, addr_map)'
  BY <1>1, <1>2, GoneKeeps
<1>6. Used' = Used \ {r}
  BY <1>3 DEF Used
<1>7. ElementsCounted'
  BY <1>1, <1>6, UsedFinite DEF AddrInv, ElementsCounted, Used
<1>8. ManufsKept
  BY <1>1 DEF AddrInv, ManufsKept, ManufsOnce
<1>9. GivenOnce'
  <2>1. \A q \in Used \ {r} : addr_map'[q] = addr_map[q] /\ dev'[q] = dev[q]
    BY <1>1, <1>3 DEF Used, AddrInv, Typed
  <2>2. \A q \in Used \ {r} : Given(q)'
    BY <1>8, <2>1, GivenKept
  <2>. QED BY <1>6, <2>1, <2>2 DEF AddrInv, GivenOnce
<1>. QED BY <1>4, <1>5, <1>7, <1>8, <1>9 DEF AddrInv, ManufsKept

\* zb_address_update of the entry ref, after the entries gone were deleted: the
\* index.
LEMMA UpdateIndex ==
  ASSUME AddrInv, NEW ref \in Used, NEW gone, gone = {} \/ \E v \in Refs : v # ref /\ gone = {v},
         NEW c, NEW x \in Shorts, NEW d, NEW lock, UpdateEntry(ref, gone, c, x, d, lock),
         NEW m1 \in [Refs -> Entries], m1[ref].used, m1[ref].addr = x, addr_map' = m1,
         \A r \in Refs \ {ref} : m1[r] = Without(gone)[r]
  PROVE  IsIndex(short_sorted, n_sorted_elements, addr_map)'
<1>. DEFINE m0 == Without(gone)
            ix0 == IF gone = {} THEN [array |-> short_sorted, n |-> n_sorted_elements]
                   ELSE DelShortSorted(short_sorted, n_sorted_elements, CHOOSE r \in gone : TRUE)
            ix1 == IF m0[ref].addr # NoShort THEN DelShortSorted(ix0.array, ix0.n, ref) ELSE ix0
<1>r. ref \in Refs /\ ref \notin gone /\ gone \in SUBSET Refs /\ addr_map[ref].used
  BY DEF Used
<1>1. IsIndex(ix0.array, ix0.n, m0)
  <2>1. CASE gone = {}
    <3>1. \A r \in Refs : m0[r] = addr_map[r]
      BY <2>1, WithoutTyped
    <3>2. ix0.array = short_sorted /\ ix0.n = n_sorted_elements
      BY <2>1
    <3>3. IsIndex(ix0.array, ix0.n, addr_map)
      BY <3>2 DEF AddrInv
    <3>. HIDE DEF m0, ix0
    <3>. QED BY <3>1, <3>3, IndexMoves
  <2>2. ASSUME NEW v \in Refs, gone = {v} PROVE IsIndex(ix0.array, ix0.n, m0)
    <3>1. ix0 = DelShortSorted(short_sorted, n_sorted_elements, v) /\ m0 = Without({v})
      <4>1. (CHOOSE r \in gone : TRUE) = v /\ gone # {}
        BY <2>2
      <4>. QED BY <2>2, <4>1
    <3>. HIDE DEF m0, ix0
    <3>. QED BY <3>1, GoneKeeps
  <2>. QED BY <2>1, <2>2
<1>2. m0[ref] = addr_map[ref] /\ m0[ref].used
  BY <1>r, WithoutTyped
<1>3. /\ short_sorted' = IF m0[ref].addr = x THEN ix0.array
                         ELSE AddShortSorted(ix1.array, ix1.n, addr_map', ref, x).array
      /\ n_sorted_elements' = IF m0[ref].addr = x THEN ix0.n
                              ELSE AddShortSorted(ix1.array, ix1.n, addr_map', ref, x).n
  <2>. DEFINE w == [m0 EXCEPT ![ref].ieee_addr = c, ![ref].addr = x, ![ref].lock_cnt = Locked(lock, @)]
  <2>1. /\ addr_map' = w
        /\ SetIndex(IF m0[ref].addr = x THEN ix0 ELSE AddShortSorted(ix1.array, ix1.n, w, ref, x))
    BY DEF UpdateEntry, Without
  <2>. HIDE DEF m0, ix0, ix1, w
  <2>. QED BY <2>1, SMTT(30) DEF SetIndex
<1>. HIDE DEF m0, ix0
<1>4. CASE m0[ref].addr = x
  <2>1. \A r \in Refs : m1[r].used = m0[r].used /\ m1[r].addr = m0[r].addr
    <3>1. m1[ref].used = TRUE /\ m0[ref].used = TRUE
      <4>1. m1[ref].used \in BOOLEAN /\ addr_map[ref].used \in BOOLEAN
        BY <1>r, EntryFields DEF Entries, AddrInv
      <4>. QED BY <1>2, <4>1
    <3>2. m1[ref].used = m0[ref].used /\ m1[ref].addr = m0[ref].addr
      BY <1>4, <3>1
    <3>3. \A r \in Refs \ {ref} : m1[r] = m0[r]
      BY DEF m0
    <3>. QED BY <3>2, <3>3
  <2>2. IsIndex(ix0.array, ix0.n, m1)
    BY <1>1, <2>1, IndexMoves
  <2>. QED BY <1>3, <1>4, <2>2
<1>5. CASE m0[ref].addr # x
  <2>1. IsIndex(ix1.array, ix1.n, m0) /\ ~Names(ix1.array, ix1.n, ref)
    <3>1. CASE m0[ref].addr # NoShort
      <4>1. ix1 = DelShortSorted(ix0.array, ix0.n, ref)
        BY <3>1
      <4>. HIDE DEF ix1
      <4>. QED BY <1>r, <1>1, <4>1, DelKeeps
    <3>2. CASE m0[ref].addr = NoShort
      <4>1. ix1 = ix0
        BY <3>2
      <4>. HIDE DEF ix1
      <4>. QED BY <1>1, <3>2, <4>1 DEF IsIndex, Names
    <3>. QED BY <3>1, <3>2
  <2>. HIDE DEF ix1
  <2>2. IsIndex(ix1.array, ix1.n, m1)
    <3>1. \A r \in Refs : Names(ix1.array, ix1.n, r) => m1[r].used = m0[r].used /\ m1[r].addr = m0[r].addr
      BY <2>1 DEF m0
    <3>. QED BY <2>1, <3>1, IndexMoves
  <2>3. Addressed(m1)
    BY DEF Addressed, Entries
  <2>4. LET ix == AddShortSorted(ix1.array, ix1.n, m1, ref, x) IN IsIndex(ix.array, ix.n, m1)
    BY <1>r, <2>1, <2>2, <2>3, AddKeeps
  <2>. QED BY <1>3, <1>5, <2>4
<1>. QED BY <1>4, <1>5

\* The whole update: the entry that stays has both addresses, and the entries
\* that could share one of them are gone.
LEMMA UpdateEntryStep ==
  ASSUME AddrInv, ManufsKept, NEW ref \in Used, NEW gone,
         gone = {} \/ \E v \in Used : v # ref /\ gone = {v},
         NEW c \in EntryTypes, NEW x \in Shorts, NEW d \in Devices, NEW lock \in BOOLEAN,
         UpdateEntry(ref, gone, c, x, d, lock),
         c # ZeroIeee, dev_manufacturer'[c[1]] = d[1], c[2] = d[2],
         \A q \in Used \ {ref} : q \notin gone => addr_map[q].ieee_addr # c
  PROVE  /\ AddrInv'
         /\ \A r \in Used : r \notin gone => addr_map'[r].used
<1>r. ref \in Refs /\ ref \notin gone /\ gone \in SUBSET Refs /\ addr_map[ref].used
  BY DEF Used
<1>1. addr_map[ref] \in Entries /\ addr_map[ref].lock_cnt \in 0 .. LockMod - 1 /\ LockMod \in Nat
  BY <1>r, EntryFields, TableAssumption, SMTT(30) DEF AddrInv, Typed
<1>2. PICK cnt \in 0 .. LockMod - 1 : cnt = Locked(lock, addr_map[ref].lock_cnt)
  BY <1>1 DEF UpdateEntry, CanLock, Locked
<1>3. PICK m0 : m0 = Without(gone)
  OBVIOUS
<1>4. /\ m0 \in [Refs -> Entries] /\ m0[ref] = addr_map[ref]
      /\ \A r \in Refs \ gone : m0[r] = addr_map[r]
      /\ \A r \in gone : ~m0[r].used
  BY <1>r, <1>3, WithoutTyped, SMTT(30)
<1>5. addr_map' = [m0 EXCEPT ![ref].ieee_addr = c, ![ref].addr = x, ![ref].lock_cnt = Locked(lock, @)]
  BY <1>3 DEF UpdateEntry, Without
<1>6. PICK m1 : m1 = addr_map'
  OBVIOUS
<1>7. /\ m1 \in [Refs -> Entries]
      /\ m1[ref].used /\ m1[ref].ieee_addr = c /\ m1[ref].addr = x
      /\ \A r \in Refs \ {ref} : m1[r] = m0[r]
  <2>1. m1 = [m0 EXCEPT ![ref] = [m0[ref] EXCEPT !.ieee_addr = c, !.addr = x, !.lock_cnt = cnt]]
    BY <1>r, <1>2, <1>4, <1>5, <1>6 DEF Entries
  <2>2. PICK e \in Entries : e = m0[ref] /\ e.used
    BY <1>r, <1>1, <1>4
  <2>3. PICK f : f = [e EXCEPT !.ieee_addr = c, !.addr = x, !.lock_cnt = cnt]
    OBVIOUS
  <2>4. x \in 0 .. MaxShort
    BY TableAssumption DEF Shorts
  <2>5. f \in Entries /\ f.used /\ f.ieee_addr = c /\ f.addr = x
    BY <2>2, <2>3, <2>4 DEF Entries, EntryTypes, Ids
  <2>6. m1 = [m0 EXCEPT ![ref] = f]
    BY <2>1, <2>2, <2>3
  <2>. QED BY <1>r, <1>4, <2>5, <2>6
<1>8. IsIndex(short_sorted, n_sorted_elements, addr_map)'
  <2>1. \A r \in Refs \ {ref} : m1[r] = Without(gone)[r]
    BY <1>3, <1>7
  <2>2. gone = {} \/ \E v \in Refs : v # ref /\ gone = {v}
    BY Zenon DEF Used
  <2>. QED BY <1>6, <1>7, <2>1, <2>2, UpdateIndex
<1>9. /\ n_elements' = n_elements - Cardinality(gone)
      /\ dev' = [r \in Refs |-> IF r = ref THEN d ELSE IF r \in gone THEN ZeroId ELSE dev[r]]
  BY DEF UpdateEntry
<1>10. Typed'
  BY <1>6, <1>7, <1>9 DEF AddrInv, Typed
<1>11. Used' = Used \ gone
  <2>1. \A r \in Refs : addr_map'[r].used <=> r \in Used \ gone
    <3>1. ASSUME NEW r \in Refs, r # ref PROVE addr_map'[r].used <=> r \in Used \ gone
      BY <1>4, <1>6, <1>7, <3>1 DEF Used
    <3>2. addr_map'[ref].used /\ ref \in Used \ gone
      BY <1>r, <1>6, <1>7
    <3>. QED BY <3>1, <3>2
  <2>. QED BY <2>1 DEF Used
<1>12. ElementsCounted'
  <2>1. CASE gone = {}
    <3>1. Cardinality(gone) = 0 /\ Used' = Used
      BY <1>11, <2>1, FS_EmptySet
    <3>. QED BY <1>9, <3>1, UsedFinite DEF AddrInv, ElementsCounted
  <2>2. ASSUME NEW v \in Used, gone = {v} PROVE ElementsCounted'
    <3>1. Cardinality(gone) = 1 /\ Used' = Used \ {v}
      BY <1>11, <2>2, FS_Singleton
    <3>. QED BY <1>9, <3>1, UsedFinite DEF AddrInv, ElementsCounted, Used
  <2>. QED BY <2>1, <2>2
<1>13. GivenOnce'
  <2>1. \A q \in Used' \ {ref} : /\ q \in Used /\ addr_map'[q] = addr_map[q] /\ dev'[q] = dev[q]
                                 /\ addr_map[q].ieee_addr # c
    BY <1>4, <1>6, <1>7, <1>9, <1>11 DEF Used
  <2>2. addr_map'[ref].ieee_addr = c /\ dev'[ref] = d
    BY <1>r, <1>6, <1>7, <1>9
  <2>3. \A q \in Used' \ {ref} : Given(q)'
    BY <2>1, GivenKept
  <2>4. Given(ref)'
    BY <2>2 DEF Given
  <2>5. \A p, q \in Used : p # q /\ addr_map[p].ieee_addr # ZeroIeee
                            => addr_map[p].ieee_addr # addr_map[q].ieee_addr
    BY DEF AddrInv, GivenOnce
  <2>6. ASSUME NEW p \in Used', NEW q \in Used', p # q, addr_map'[p].ieee_addr # ZeroIeee
        PROVE  addr_map'[p].ieee_addr # addr_map'[q].ieee_addr
    BY <2>1, <2>2, <2>5, <2>6
  <2>. QED BY <2>3, <2>4, <2>6 DEF GivenOnce
<1>14. \A r \in Used : r \notin gone => addr_map'[r].used
  BY <1>11 DEF Used
<1>. QED BY <1>8, <1>10, <1>12, <1>13, <1>14 DEF AddrInv, ManufsKept

LEMMA ZeroIeeeType == ZeroIeee \in EntryTypes /\ NoShort \in 0 .. MaxShort /\ 0 \in Refs
BY TableAssumption DEF ZeroIeee, EntryTypes, ManufRefs, Ids, NoShort, Refs

\* A step that leaves the entries alone.
LEMMA SameStep ==
  ASSUME AddrInv, ManufsKept, UNCHANGED <<addr_map, indexVars, n_elements, dev>>
  PROVE  AddrInv'
BY LockStep DEF AddrInv, Typed

\* What an operation of the table does: the invariant holds after it, and it
\* frees a locked entry only if it is zb_address_delete.
Keeps == AddrInv' /\ \A r \in Used : addr_map[r].lock_cnt > 0 => addr_map'[r].used

LEMMA AddFrees ==
  ASSUME Typed, NEW r, NEW c, NEW x, NEW d, NEW lock, AddrAdd(r, c, x, d, lock)
  PROVE  \A q \in Used : addr_map'[q].used
<1>1. addr_map' = [addr_map EXCEPT ![r].used = TRUE, ![r].ieee_addr = c, ![r].addr = x,
                                   ![r].lock_cnt = Locked(lock, @)]
  BY DEF AddrAdd
<1>. QED BY <1>1 DEF Used, Typed, Entries

LEMMA LockFrees ==
  ASSUME Typed, NEW r, NEW lock, LockOnly(r, lock)
  PROVE  \A q \in Used : addr_map'[q].used
BY DEF LockOnly, Used, Typed, Entries

LEMMA ByIeeeStep ==
  ASSUME AddrInv, NEW d \in Devices, NEW create \in BOOLEAN, NEW lock \in BOOLEAN,
         ByIeee(d, create, lock)
  PROVE  Keeps
<1>1. Compress(d) /\ ManufsOnce /\ Typed
  BY DEF ByIeee, AddrInv
<1>2. PICK c : c = Compressed(d)
  OBVIOUS
<1>3. /\ ManufsKept /\ c \in EntryTypes /\ c[2] = d[2] /\ c # ZeroIeee
      /\ dev_manufacturer'[c[1]] = d[1] /\ Hash(d[2]) \in Refs
  BY <1>1, <1>2, CompressKeeps DEF EntryTypes
<1>4. /\ \A r \in IeeeFound(c) : r \in Used
      /\ IeeeFound(c) = {} => \A r \in Used : addr_map[r].ieee_addr # c
  BY <1>3, IeeeSearch
<1>5. \/ \E r \in IeeeFound(c) : LockOnly(r, lock)
      \/ /\ IeeeFound(c) = {}
         /\ Free # {} /\ AddrAdd(First(Hash(d[2]), Free), c, NoShort, d, lock)
      \/ UNCHANGED <<addr_map, indexVars, n_elements, dev>>
  BY <1>2 DEF ByIeee
<1>6. ASSUME NEW r \in IeeeFound(c), LockOnly(r, lock) PROVE Keeps
  <2>1. r \in Refs
    BY <1>4 DEF Used
  <2>. QED BY <1>1, <1>3, <1>6, <2>1, LockOnlyStep, LockFrees DEF Keeps
<1>7. CASE IeeeFound(c) = {} /\ Free # {} /\ AddrAdd(First(Hash(d[2]), Free), c, NoShort, d, lock)
  <2>1. First(Hash(d[2]), Free) \in Free
    BY <1>3, <1>7, FirstIn DEF Free
  <2>2. AddrInv'
    BY <1>3, <1>4, <1>7, <2>1, AddStep, ZeroIeeeType
  <2>. QED BY <1>1, <1>7, <2>2, AddFrees DEF Keeps
<1>8. CASE UNCHANGED <<addr_map, indexVars, n_elements, dev>>
  BY <1>3, <1>8, SameStep DEF Keeps, Used
<1>. QED BY <1>5, <1>6, <1>7, <1>8

LEMMA ByShortStep ==
  ASSUME AddrInv, NEW x \in Shorts, NEW create \in BOOLEAN, NEW lock \in BOOLEAN,
         ByShort(x, create, lock)
  PROVE  Keeps
<1>1. Typed /\ ManufsKept
  BY DEF ByShort, AddrInv, ManufsKept, ManufsOnce
<1>2. \A r \in ShortFound(x) : r \in Refs
  BY <1>1, ShortSearch, AddressedEntries DEF AddrInv
<1>3. \/ \E r \in ShortFound(x) : LockOnly(r, lock)
      \/ Free # {} /\ AddrAdd(First(0, Free), ZeroIeee, x, ZeroId, lock)
  BY DEF ByShort
<1>4. ASSUME NEW r \in ShortFound(x), LockOnly(r, lock) PROVE Keeps
  BY <1>1, <1>2, <1>4, LockOnlyStep, LockFrees DEF Keeps
<1>5. CASE Free # {} /\ AddrAdd(First(0, Free), ZeroIeee, x, ZeroId, lock)
  <2>1. First(0, Free) \in Free
    BY <1>5, FirstIn, ZeroIeeeType DEF Free
  <2>2. x \in 0 .. MaxShort
    BY TableAssumption DEF Shorts
  <2>3. AddrInv'
    BY <1>1, <1>5, <2>1, <2>2, AddStep, ZeroIeeeType
  <2>. QED BY <1>1, <1>5, <2>3, AddFrees DEF Keeps
<1>. QED BY <1>3, <1>4, <1>5

LEMMA UpdateStep ==
  ASSUME AddrInv, NEW d \in Devices, NEW x \in Shorts, NEW lock \in BOOLEAN, Update(d, x, lock)
  PROVE  Keeps
<1>1. Compress(d) /\ ManufsOnce /\ Typed
  BY DEF Update, AddrInv
<1>2. PICK c : c = Compressed(d)
  OBVIOUS
<1>3. /\ ManufsKept /\ c \in EntryTypes /\ c[2] = d[2] /\ c # ZeroIeee
      /\ dev_manufacturer'[c[1]] = d[1] /\ Hash(d[2]) \in Refs
  BY <1>1, <1>2, CompressKeeps DEF EntryTypes
<1>4. PICK S, L : S = ShortFound(x) /\ L = IeeeFound(c)
  OBVIOUS
<1>5. /\ \A r \in L : r \in Used /\ addr_map[r].ieee_addr = c
      /\ L = {} => \A r \in Used : addr_map[r].ieee_addr # c
  BY <1>3, <1>4, IeeeSearch
<1>6. \A r \in S : r \in Used
  BY <1>1, <1>4, ShortSearch, AddressedEntries DEF AddrInv, Used
<1>7. \A p, q \in Used : p # q /\ addr_map[p].ieee_addr = c => addr_map[q].ieee_addr # c
  BY <1>3 DEF AddrInv, GivenOnce
<1>8. \A l \in L : \A q \in Used : q # l => addr_map[q].ieee_addr # c
  BY <1>5, <1>7
<1>9. \/ \E s \in S, l \in L :
           /\ s # l
           /\ addr_map[s].lock_cnt = 0 \/ addr_map[l].lock_cnt = 0
           /\ LET v == UpdateVictim(s, l)
              IN  UpdateEntry(IF v = s THEN l ELSE s, {v}, c, x, d, lock)
      \/ /\ S = L \/ S = {} \/ L = {}
         /\ \E r \in S \cup L : UpdateEntry(r, {}, c, x, d, lock)
      \/ /\ L = {} /\ Free # {}
         /\ AddrAdd(First(Hash(d[2]), Free), c, x, d, lock)
      \/ UNCHANGED <<addr_map, indexVars, n_elements, dev>>
  BY <1>2, <1>4 DEF Update
<1>10. ASSUME NEW s \in S, NEW l \in L, s # l,
              addr_map[s].lock_cnt = 0 \/ addr_map[l].lock_cnt = 0,
              LET v == UpdateVictim(s, l)
              IN  UpdateEntry(IF v = s THEN l ELSE s, {v}, c, x, d, lock)
       PROVE  Keeps
  <2>1. PICK v, ref \in {s, l} : /\ v = UpdateVictim(s, l) /\ ref = IF v = s THEN l ELSE s
                                 /\ v # ref /\ addr_map[v].lock_cnt = 0
    <3>1. CASE addr_map[s].lock_cnt = 0
      <4>1. UpdateVictim(s, l) = s
        BY <3>1 DEF UpdateVictim
      <4>. QED BY <1>10, <3>1, <4>1
    <3>2. CASE addr_map[s].lock_cnt # 0
      <4>1. UpdateVictim(s, l) = l /\ addr_map[l].lock_cnt = 0 /\ l # s
        BY <1>10, <3>2 DEF UpdateVictim
      <4>2. s = IF l = s THEN l ELSE s
        BY <4>1
      <4>. QED BY <4>1, <4>2
    <3>. QED BY <3>1, <3>2
  <2>2. v \in Used /\ ref \in Used
    BY <1>5, <1>6
  <2>3. UpdateEntry(ref, {v}, c, x, d, lock)
    BY <1>10, <2>1
  <2>4. PICK gone : gone = {v}
    OBVIOUS
  <2>5. /\ UpdateEntry(ref, gone, c, x, d, lock)
        /\ gone = {} \/ \E w \in Used : w # ref /\ gone = {w}
        /\ \A q \in Used \ {ref} : q \notin gone => addr_map[q].ieee_addr # c
    BY <1>8, <2>1, <2>2, <2>3, <2>4
  <2>6. AddrInv' /\ \A r \in Used : r \notin gone => addr_map'[r].used
    BY <1>3, <2>2, <2>5, UpdateEntryStep
  <2>. QED BY <2>1, <2>4, <2>6 DEF Keeps
<1>11. ASSUME S = L \/ S = {} \/ L = {}, NEW r \in S \cup L, UpdateEntry(r, {}, c, x, d, lock)
       PROVE  Keeps
  <2>1. r \in Used
    BY <1>5, <1>6
  <2>2. \A q \in Used \ {r} : addr_map[q].ieee_addr # c
    BY <1>5, <1>8, <1>11
  <2>3. PICK gone : gone = {}
    OBVIOUS
  <2>4. /\ UpdateEntry(r, gone, c, x, d, lock)
        /\ gone = {} \/ \E w \in Used : w # r /\ gone = {w}
        /\ \A q \in Used \ {r} : q \notin gone => addr_map[q].ieee_addr # c
    BY <1>11, <2>2, <2>3
  <2>5. AddrInv' /\ \A q \in Used : q \notin gone => addr_map'[q].used
    BY <1>3, <2>1, <2>4, UpdateEntryStep
  <2>. QED BY <2>3, <2>5 DEF Keeps
<1>12. CASE L = {} /\ Free # {} /\ AddrAdd(First(Hash(d[2]), Free), c, x, d, lock)
  <2>1. First(Hash(d[2]), Free) \in Free
    BY <1>3, <1>12, FirstIn DEF Free
  <2>2. x \in 0 .. MaxShort
    BY TableAssumption DEF Shorts
  <2>3. AddrInv'
    BY <1>3, <1>5, <1>12, <2>1, <2>2, AddStep
  <2>. QED BY <1>1, <1>12, <2>3, AddFrees DEF Keeps
<1>13. CASE UNCHANGED <<addr_map, indexVars, n_elements, dev>>
  BY <1>3, <1>13, SameStep DEF Keeps, Used
<1>. QED BY <1>9, <1>10, <1>11, <1>12, <1>13

LEMMA AddrInit == Init => AddrInv
<1>. SUFFICES ASSUME Init PROVE AddrInv
  OBVIOUS
<1>t. /\ TableSize \in Nat \ {0} /\ 0 \in Refs /\ LockMod \in Nat \ {0}
      /\ NoManuf \in Manufs \cup {NoManuf}
  BY TableAssumption DEF Refs
<1>1. FreeSlot(0) \in Entries /\ ~FreeSlot(0).used /\ FreeSlot(0).ieee_addr = ZeroIeee
  <2>1. ZeroIeee \in EntryTypes /\ 0 \in 0 .. MaxShort
    BY ZeroIeeeType, TableAssumption
  <2>. QED BY <1>t, <2>1 DEF FreeSlot, Entries, EntryTypes, Ids
<1>2. Typed
  BY <1>1 DEF Init, Typed
<1>3. ManufsOnce
  BY DEF Init, ManufsOnce
<1>4. Used = {}
  BY <1>1 DEF Init, Used
<1>5. IsIndex(short_sorted, n_sorted_elements, addr_map)
  BY <1>t DEF Init, IsIndex, Arrays
<1>6. ElementsCounted
  BY <1>4, FS_EmptySet DEF Init, ElementsCounted
<1>7. GivenOnce
  BY <1>4 DEF GivenOnce
<1>. QED BY <1>2, <1>3, <1>5, <1>6, <1>7 DEF AddrInv

\* One step: the invariant is kept, and a locked entry is freed only by
\* zb_address_delete of that entry.
LEMMA AddrNext ==
  ASSUME AddrInv, [Next]_vars
  PROVE  /\ AddrInv'
         /\ \A r \in Used : addr_map[r].lock_cnt > 0 /\ ~addr_map'[r].used => Delete(r)
<1>1. ASSUME NEW d \in Devices, NEW create \in BOOLEAN, NEW lock \in BOOLEAN, ByIeee(d, create, lock)
      PROVE  Keeps
  BY <1>1, ByIeeeStep
<1>2. ASSUME NEW x \in Shorts, NEW create \in BOOLEAN, NEW lock \in BOOLEAN, ByShort(x, create, lock)
      PROVE  Keeps
  BY <1>2, ByShortStep
<1>3. ASSUME NEW d \in Devices, NEW x \in Shorts, NEW lock \in BOOLEAN, Update(d, x, lock)
      PROVE  Keeps
  BY <1>3, UpdateStep
<1>4. ASSUME NEW r \in Refs, Lock(r) PROVE Keeps
  <2>1. ManufsKept /\ LockOnly(r, TRUE) /\ Typed
    BY <1>4 DEF Lock, AddrInv, ManufsKept, ManufsOnce
  <2>. QED BY <2>1, LockOnlyStep, LockFrees DEF Keeps
<1>5. ASSUME NEW r \in Refs, Unlock(r) PROVE Keeps
  <2>1. \A q \in Used : addr_map'[q].used
    BY <1>5 DEF Unlock, Used, AddrInv, Typed, Entries
  <2>. QED BY <1>5, <2>1, UnlockStep DEF Keeps
<1>6. ASSUME NEW r \in Refs, Delete(r)
      PROVE  AddrInv' /\ \A q \in Used : q # r => addr_map'[q].used
  <2>1. addr_map' = [addr_map EXCEPT ![r] = FreeSlot(@.lock_cnt)]
    BY <1>6 DEF Delete
  <2>2. \A q \in Used : q # r => addr_map'[q].used
    BY <2>1 DEF Used, AddrInv, Typed
  <2>. QED BY <1>6, <2>2, DeleteStep
<1>7. CASE UNCHANGED vars
  <2>1. ManufsKept /\ UNCHANGED <<addr_map, indexVars, n_elements, dev>>
    BY <1>7 DEF AddrInv, ManufsKept, ManufsOnce, vars, indexVars
  <2>2. AddrInv'
    BY <2>1, SameStep
  <2>. QED BY <2>1, <2>2 DEF Used
<1>8. \/ Keeps
      \/ \E r \in Refs : Delete(r)
      \/ UNCHANGED vars
  BY <1>1, <1>2, <1>3, <1>4, <1>5 DEF Next
<1>. QED BY <1>6, <1>7, <1>8 DEF Keeps

LEMMA AddrInvariant == Spec => []AddrInv
<1>1. AddrInv /\ [Next]_vars => AddrInv'
  BY AddrNext
<1>. QED BY AddrInit, <1>1, PTL DEF Spec

-----------------------------------------------------------------------------
(***************************************************************************)
(* The theorems.                                                           *)
(***************************************************************************)

LEMMA AddrInvTableSound == AddrInv => TableSound
<1>. SUFFICES ASSUME AddrInv PROVE TableSound
  OBVIOUS
<1>t. TableSize \in Nat /\ n_sorted_elements \in 0 .. TableSize
  BY TableAssumption DEF AddrInv, IsIndex
<1>1. n_elements \in 0 .. TableSize
  <2>1. Used \in SUBSET Refs
    BY DEF Used
  <2>2. Cardinality(Used) <= TableSize /\ Cardinality(Used) \in Nat
    BY <2>1, RefsFinite, UsedFinite, FS_Subset
  <2>. QED BY <1>t, <2>2 DEF AddrInv, ElementsCounted
<1>2. TypeOK
  BY <1>1 DEF AddrInv, Typed, IsIndex, ManufsOnce, Arrays, TypeOK
<1>3. \A x \in Shorts :
        ShortFound(x) = {} <=> \A i \in 0 .. n_sorted_elements - 1 : addr_map[short_sorted[i]].addr # x
  BY AddressedEntries, ShortSearch DEF AddrInv
<1>4. \A x \in Shorts : ShortFound(x) = {} <=> \A r \in Indexed : addr_map[r].addr # x
  BY <1>3 DEF Indexed
<1>5. IndexSound
  BY <1>4 DEF IndexSound, Indexed, AddrInv, IsIndex
<1>. QED BY <1>2, <1>5 DEF TableSound, AddrInv

LEMMA AddrInvOneEntry == AddrInv => OneEntryPerDevice
<1>. SUFFICES ASSUME AddrInv, NEW r \in Used, addr_map[r].ieee_addr # ZeroIeee
              PROVE  LET c == addr_map[r].ieee_addr IN
                     /\ IeeeFound(c) = {r}
                     /\ \A q \in Used \ {r} :
                          /\ addr_map[q].ieee_addr # c
                          /\ addr_map[q].ieee_addr # ZeroIeee => dev[q] # dev[r]
                     /\ Decompressed(c) = dev[r]
  BY DEF OneEntryPerDevice
<1>1. PICK c : c = addr_map[r].ieee_addr
  OBVIOUS
<1>2. /\ dev[r] \in Devices /\ dev_manufacturer[c[1]] = dev[r][1] /\ c[2] = dev[r][2]
      /\ c \in EntryTypes
  BY <1>1, EntryFields DEF AddrInv, GivenOnce, Given, Used
<1>3. dev[r] = <<dev[r][1], dev[r][2]>> /\ Hash(c[2]) \in Refs /\ dev[r][1] # NoManuf
  BY <1>2, TableAssumption DEF Manufs
<1>4. Decompressed(c) = dev[r]
  BY <1>2, <1>3 DEF Decompressed
<1>5. \A q \in Used \ {r} : addr_map[q].ieee_addr # c
  BY <1>1 DEF AddrInv, GivenOnce
<1>6. IeeeFound(c) = {r}
  <2>1. IeeeFound(c) # {}
    BY <1>1, <1>3, IeeeSearch
  <2>2. \A q \in IeeeFound(c) : q = r /\ IeeeFound(c) = {q}
    BY <1>3, <1>5, IeeeSearch
  <2>. QED BY <2>1, <2>2
<1>7. ASSUME NEW q \in Used \ {r}, addr_map[q].ieee_addr # ZeroIeee PROVE dev[q] # dev[r]
  <2>1. PICK e : e = addr_map[q].ieee_addr
    OBVIOUS
  <2>2. e \in EntryTypes /\ dev_manufacturer[e[1]] = dev[q][1] /\ e[2] = dev[q][2]
    BY <1>7, <2>1, EntryFields DEF AddrInv, GivenOnce, Given, Used
  <2>3. SUFFICES ASSUME dev[q] = dev[r] PROVE FALSE
    OBVIOUS
  <2>4. e[1] \in ManufRefs /\ c[1] \in ManufRefs /\ e = <<e[1], e[2]>> /\ c = <<c[1], c[2]>>
    BY <1>2, <2>2 DEF EntryTypes
  <2>5. e[1] = c[1]
    BY <1>2, <1>3, <2>2, <2>3, <2>4 DEF AddrInv, ManufsOnce
  <2>6. e = c
    BY <1>2, <2>2, <2>3, <2>4, <2>5
  <2>. QED BY <1>5, <2>1, <2>6
<1>. QED BY <1>1, <1>4, <1>5, <1>6, <1>7

\* Whatever is added, updated, locked and deleted: the counts are exact, the
\* sorted index names entries in use, each once, in the order of the addresses
\* they have now, and short_search finds what is in it (zb_address.c:560-760).
THEOREM AddrTableSound == Spec => []TableSound
BY AddrInvariant, AddrInvTableSound, PTL

\* A 64-bit address is found by its hash whatever slots were freed on the way to
\* its own, no device has two entries, and an entry decompresses to the device it
\* was given (zb_address.c:261-307, 537-555).
THEOREM AddrOneEntry == Spec => []OneEntryPerDevice
BY AddrInvariant, AddrInvOneEntry, PTL

\* Conflicts of addresses are resolved at the cost of entries nobody has locked
\* (zb_address.c:405-415): only zb_address_delete frees a locked one.
THEOREM AddrLocked == Spec => LockedStays
<1>1. AddrInv /\ [Next]_vars
        => [\A r \in Used : addr_map[r].lock_cnt > 0 /\ ~addr_map'[r].used => Delete(r)]_vars
  BY AddrNext
<1>. QED BY AddrInvariant, <1>1, PTL DEF Spec, LockedStays
=============================================================================
