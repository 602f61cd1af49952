----------------------------- MODULE AddrTable -----------------------------
(***************************************************************************)
(* The address translation table (common/zb_address.c): entries that pair  *)
(* a compressed 64-bit address with a 16-bit one, found by the 64-bit      *)
(* address in an open hash and by the 16-bit address through the sorted    *)
(* index short_sorted.  The stack keeps references to entries and locks    *)
(* them.  The clock bits are left out: they are only written, the reuse of *)
(* entries they are for is compiled out in addr_add.                       *)
(***************************************************************************)
EXTENDS Naturals, FiniteSets

CONSTANTS Devices,      \* 64-bit addresses: <<manufacturer, device id>>
          MaxShort,     \* 16-bit addresses are below MaxShort, which stands for ~0
          TableSize,    \* ZB_IEEE_ADDR_TABLE_SIZE
          ManufSize,    \* ZB_DEV_MANUFACTORER_TABLE_SIZE
          LockMod,      \* 2^4, the range of lock_cnt
          Hash(_),      \* hash of a device id
          ZeroId,       \* the device id of a zeroed entry
          NoManuf       \* a manufacturer entry that is not used

Refs == 0 .. TableSize - 1
Shorts == 0 .. MaxShort - 1
NoShort == MaxShort
ManufRefs == 0 .. ManufSize - 1
Manufs == {d[1] : d \in Devices}

ASSUME TableAssumption ==
  /\ TableSize \in Nat \ {0} /\ ManufSize \in Nat \ {0}
  /\ MaxShort \in Nat \ {0} /\ LockMod \in Nat \ {0}
  /\ NoManuf \notin Manufs
  /\ \A d \in Devices : d = <<d[1], d[2]>> /\ d[2] # ZeroId /\ Hash(d[2]) \in Refs

VARIABLES addr_map,          \* ref -> [used, ieee_addr, addr, lock_cnt]
          short_sorted,      \* the index array; position TableSize is the zero
                             \* byte that follows it in memory
          n_sorted_elements,
          n_elements,
          dev_manufacturer,  \* manufacturers met so far
          dev                \* history: ref -> the device the entry was given

indexVars == <<short_sorted, n_sorted_elements>>
vars == <<addr_map, indexVars, n_elements, dev_manufacturer, dev>>

ZeroIeee == <<0, ZeroId>>

\* A free slot.  The addresses left in it are never read, so they are modelled as
\* cleared; its lock counter stays.
FreeSlot(cnt) == [used |-> FALSE, ieee_addr |-> ZeroIeee, addr |-> 0, lock_cnt |-> cnt]

\* Zeroed globals.
Init ==
  /\ addr_map = [r \in Refs |-> FreeSlot(0)]
  /\ short_sorted = [i \in 0 .. TableSize |-> 0]
  /\ n_sorted_elements = 0
  /\ n_elements = 0
  /\ dev_manufacturer = [i \in ManufRefs |-> NoManuf]
  /\ dev = [r \in Refs |-> ZeroId]

-----------------------------------------------------------------------------
\* The index, as an array s of which the first n positions count, over entries m.

\* ZB_MEMMOVE(&s[to], &s[from], len)
MemMove(s, to, from, len) ==
  [j \in DOMAIN s |-> IF j \in to .. to + len - 1 THEN s[j + from - to] ELSE s[j]]

\* The binary search both functions share: the first of n positions that is not
\* one of those before.  A single element is not searched.
BinarySearch(n, before) ==
  LET search[w \in (0 .. n) \X (0 .. n)] ==
        LET l == w[1]
            r == w[2]
            i == l + (r - l) \div 2
        IN  IF l >= r THEN l
            ELSE IF i \in before THEN search[<<i + 1, r>>] ELSE search[<<l, i>>]
  IN  IF n > 1 THEN search[<<0, n>>] ELSE 0

\* short_search
ShortFound(x) ==
  LET n == n_sorted_elements
      l == BinarySearch(n, {i \in 0 .. n - 1 : x > addr_map[short_sorted[i]].addr})
  IN  IF l < n /\ addr_map[short_sorted[l]].addr = x THEN {short_sorted[l]} ELSE {}

\* add_short_sorted
AddShortSorted(s, n, m, ref, x) ==
  LET k == BinarySearch(n, {i \in 0 .. n - 1 : x >= m[s[i]].addr})
      l == IF k < n /\ x > m[s[k]].addr THEN k + 1 ELSE k
      moved == IF l < n THEN MemMove(s, l + 1, l, n - l) ELSE s
  IN  [array |-> [moved EXCEPT ![l] = ref], n |-> n + 1]

\* Mutation: one element too few is moved.
DelShortSortedShort(s, n, ref) ==
  LET after[k \in 0 .. n] ==
        IF k = 0 THEN [array |-> s, dec |-> 0]
        ELSE LET p == after[k - 1]
                 i == k - 1
             IN  IF p.array[i] # ref THEN p
                 ELSE [array |-> IF i + 2 < n THEN MemMove(p.array, i, i + 1, n - i - 2) ELSE p.array,
                       dec |-> p.dec + 1]
  IN  [array |-> after[n].array, n |-> n - after[n].dec]

\* del_short_sorted.  The scan goes on over the moved elements, and the move
\* brings in the element after the last one.
DelShortSorted(s, n, ref) ==
  LET after[k \in 0 .. n] ==
        IF k = 0 THEN [array |-> s, dec |-> 0]
        ELSE LET p == after[k - 1]
                 i == k - 1
             IN  IF p.array[i] # ref THEN p
                 ELSE [array |-> IF i # n - 1 THEN MemMove(p.array, i, i + 1, n - i) ELSE p.array,
                       dec |-> p.dec + 1]
  IN  [array |-> after[n].array, n |-> n - after[n].dec]

SetIndex(ix) == short_sorted' = ix.array /\ n_sorted_elements' = ix.n

-----------------------------------------------------------------------------
\* zb_ieee_addr_compress: the manufacturer's position, the last free one for a
\* new manufacturer.  With no position left the code asserts.
ManufUsed(d) == {i \in ManufRefs : dev_manufacturer[i] = d[1]}
ManufFree == {i \in ManufRefs : dev_manufacturer[i] = NoManuf}

Compressible(d) == ManufUsed(d) \cup ManufFree # {}

ManufRef(d) ==
  IF ManufUsed(d) # {} THEN CHOOSE i \in ManufUsed(d) : TRUE
                       ELSE CHOOSE i \in ManufFree : \A j \in ManufFree : j <= i

Compressed(d) == <<ManufRef(d), d[2]>>

Compress(d) ==
  /\ Compressible(d)
  /\ dev_manufacturer' = [dev_manufacturer EXCEPT ![ManufRef(d)] = d[1]]

\* zb_ieee_addr_decompress
Decompressed(c) == <<dev_manufacturer[c[1]], c[2]>>

\* The slots in the order a search from slot h visits them.
First(h, S) == CHOOSE r \in S : \A q \in S :
                 (r + TableSize - h) % TableSize <= (q + TableSize - h) % TableSize

\* Mutation: the search stops at a free slot.
IeeeFoundStops(c) ==
  LET h == Hash(c[2])
      S == {r \in Refs : ~addr_map[r].used \/ addr_map[r].ieee_addr = c}
  IN  IF S = {} \/ ~addr_map[First(h, S)].used THEN {} ELSE {First(h, S)}

\* ieee_search
IeeeFound(c) ==
  LET S == {r \in Refs : addr_map[r].used /\ addr_map[r].ieee_addr = c}
  IN  IF S = {} THEN {} ELSE {First(Hash(c[2]), S)}

Free == {r \in Refs : ~addr_map[r].used}

\* zb_address_lock asserts that the counter has not wrapped.
CanLock(lock, cnt) == lock => cnt + 1 < LockMod
Locked(lock, cnt) == IF lock THEN cnt + 1 ELSE cnt

\* addr_add into slot r, and the lock that follows it.  The slot's lock counter
\* is what it was.
AddrAdd(r, c, x, d, lock) ==
  LET m == [addr_map EXCEPT ![r].used = TRUE, ![r].ieee_addr = c, ![r].addr = x,
                            ![r].lock_cnt = Locked(lock, @)]
  IN  /\ CanLock(lock, addr_map[r].lock_cnt)
      /\ addr_map' = m
      /\ IF x # NoShort
           THEN SetIndex(AddShortSorted(short_sorted, n_sorted_elements, m, r, x))
           ELSE UNCHANGED indexVars
      /\ n_elements' = n_elements + 1
      /\ dev' = [dev EXCEPT ![r] = d]

LockOnly(r, lock) ==
  /\ CanLock(lock, addr_map[r].lock_cnt)
  /\ addr_map' = [addr_map EXCEPT ![r].lock_cnt = Locked(lock, @)]
  /\ UNCHANGED <<indexVars, n_elements, dev>>

-----------------------------------------------------------------------------
\* zb_address_by_ieee
ByIeee(d, create, lock) ==
  /\ Compress(d)
  /\ LET c == Compressed(d) IN
     \/ \E r \in IeeeFound(c) : LockOnly(r, lock)
     \/ /\ IeeeFound(c) = {}
        /\ IF create /\ Free # {}
             THEN AddrAdd(First(Hash(d[2]), Free), c, NoShort, d, lock)
             ELSE UNCHANGED <<addr_map, indexVars, n_elements, dev>>

\* zb_address_by_short
ByShort(x, create, lock) ==
  /\ UNCHANGED dev_manufacturer
  /\ \/ \E r \in ShortFound(x) : LockOnly(r, lock)
     \/ /\ ShortFound(x) = {} /\ create /\ Free # {}
        /\ AddrAdd(First(0, Free), ZeroIeee, x, ZeroId, lock)

\* Mutation: the entry of the short address goes, locked or not.
UpdateVictimShort(s, l) == s

\* When the two addresses belong to different entries, the one that goes: the
\* one of the short address, or if that is locked the one of the long address.
UpdateVictim(s, l) == IF addr_map[s].lock_cnt = 0 THEN s ELSE l

\* zb_address_update on the entry that stays, ref, after the entries gone were
\* deleted.
UpdateEntry(ref, gone, c, x, d, lock) ==
  LET m0 == [r \in Refs |-> IF r \in gone THEN FreeSlot(addr_map[r].lock_cnt) ELSE addr_map[r]]
      ix0 == IF gone = {} THEN [array |-> short_sorted, n |-> n_sorted_elements]
             ELSE DelShortSorted(short_sorted, n_sorted_elements, CHOOSE r \in gone : TRUE)
      ix1 == IF m0[ref].addr # NoShort THEN DelShortSorted(ix0.array, ix0.n, ref) ELSE ix0
      m1 == [m0 EXCEPT ![ref].ieee_addr = c, ![ref].addr = x,
                       ![ref].lock_cnt = Locked(lock, @)]
  IN  /\ CanLock(lock, addr_map[ref].lock_cnt)
      /\ addr_map' = m1
      /\ SetIndex(IF m0[ref].addr = x THEN ix0 ELSE AddShortSorted(ix1.array, ix1.n, m1, ref, x))
      /\ n_elements' = n_elements - Cardinality(gone)
      /\ dev' = [r \in Refs |-> IF r = ref THEN d ELSE IF r \in gone THEN ZeroId ELSE dev[r]]

\* zb_address_update.  Two locked entries in conflict: the code asserts.
Update(d, x, lock) ==
  /\ Compress(d)
  /\ LET c == Compressed(d)
         S == ShortFound(x)
         L == IeeeFound(c)
     IN  \/ \E s \in S, l \in L :
              /\ s # l
              /\ addr_map[s].lock_cnt = 0 \/ addr_map[l].lock_cnt = 0
              /\ LET v == UpdateVictim(s, l)
                 IN  UpdateEntry(IF v = s THEN l ELSE s, {v}, c, x, d, lock)
         \/ /\ S # {} \/ L # {}
            /\ S = L \/ S = {} \/ L = {}
            /\ \E r \in S \cup L : UpdateEntry(r, {}, c, x, d, lock)
         \/ /\ S = {} /\ L = {}
            /\ IF Free # {}
                 THEN AddrAdd(First(Hash(d[2]), Free), c, x, d, lock)
                 ELSE UNCHANGED <<addr_map, indexVars, n_elements, dev>>

\* zb_address_lock and zb_address_unlock by a user of a reference
Lock(r) ==
  /\ addr_map[r].used
  /\ LockOnly(r, TRUE)
  /\ UNCHANGED dev_manufacturer

Unlock(r) ==
  /\ addr_map[r].lock_cnt > 0
  /\ addr_map' = [addr_map EXCEPT ![r].lock_cnt = @ - 1]
  /\ UNCHANGED <<indexVars, n_elements, dev_manufacturer, dev>>

\* zb_address_delete, called for a device that left; nobody looks at the lock.
Delete(r) ==
  /\ addr_map[r].used
  /\ addr_map' = [addr_map EXCEPT ![r] = FreeSlot(@.lock_cnt)]
  /\ SetIndex(DelShortSorted(short_sorted, n_sorted_elements, r))
  /\ n_elements' = n_elements - 1
  /\ dev' = [dev EXCEPT ![r] = ZeroId]
  /\ UNCHANGED dev_manufacturer

Next ==
  \/ \E d \in Devices, create, lock \in BOOLEAN : ByIeee(d, create, lock)
  \/ \E x \in Shorts, create, lock \in BOOLEAN : ByShort(x, create, lock)
  \/ \E d \in Devices, x \in Shorts, lock \in BOOLEAN : Update(d, x, lock)
  \/ \E r \in Refs : Lock(r) \/ Unlock(r) \/ Delete(r)

Spec == Init /\ [][Next]_vars

-----------------------------------------------------------------------------
Entries == [used : BOOLEAN, ieee_addr : ManufRefs \X ({d[2] : d \in Devices} \cup {ZeroId}),
            addr : 0 .. MaxShort, lock_cnt : 0 .. LockMod - 1]

TypeOK ==
  /\ addr_map \in [Refs -> Entries]
  /\ short_sorted \in [0 .. TableSize -> Refs]
  /\ n_sorted_elements \in 0 .. TableSize
  /\ n_elements \in 0 .. TableSize
  /\ dev_manufacturer \in [ManufRefs -> Manufs \cup {NoManuf}]

Used == {r \in Refs : addr_map[r].used}
Indexed == {short_sorted[i] : i \in 0 .. n_sorted_elements - 1}

\* zb_address.c:698-760: whatever was deleted, moved and reused, the index never
\* refers to a free slot or twice to an entry, it is sorted by the addresses the
\* entries have now, and the binary search finds exactly what it holds.
IndexSound ==
  /\ \A i, j \in 0 .. n_sorted_elements - 1 :
       i < j => /\ short_sorted[i] # short_sorted[j]
                /\ addr_map[short_sorted[i]].addr <= addr_map[short_sorted[j]].addr
  /\ \A r \in Indexed : addr_map[r].used /\ addr_map[r].addr # NoShort
  /\ \A x \in Shorts : ShortFound(x) = {} <=> \A r \in Indexed : addr_map[r].addr # x

\* n_elements bounds the scans of clock_tick and of zb_aps_check_timer_cb: it is
\* the number of used entries.
ElementsCounted == n_elements = Cardinality(Used)

\* What every search of the address translation table relies on
\* (zb_address.c:537-760), after any sequence of additions, updates, locks and
\* deletions: the counts, the sorted index and the entries agree.
TableSound == TypeOK /\ ElementsCounted /\ IndexSound

\* A device has one entry at most, found by its 64-bit address wherever its hash
\* starts, and the entry decompresses to the address it was given.
OneEntryPerDevice ==
  \A r \in Used :
    LET c == addr_map[r].ieee_addr IN
    c # ZeroIeee => /\ IeeeFound(c) = {r}
                    /\ \A q \in Used \ {r} :
                         /\ addr_map[q].ieee_addr # c
                         /\ addr_map[q].ieee_addr # ZeroIeee => dev[q] # dev[r]
                    /\ Decompressed(c) = dev[r]

\* The comment at zb_address.c:405-409: conflicts are resolved at the cost of
\* entries nobody has locked.  Only zb_address_delete frees a locked entry.
LockedStays ==
  [][\A r \in Used :
       addr_map[r].lock_cnt > 0 /\ ~addr_map'[r].used => Delete(r)]_vars

=============================================================================
