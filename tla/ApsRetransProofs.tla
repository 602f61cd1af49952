-------------------------- MODULE ApsRetransProofs --------------------------
(***************************************************************************)
(* For every table size, set of buffers and number of retries: a buffer    *)
(* has one holder, a frame is handed down no more often than it may be,    *)
(* and a confirm with status OK is only given of a frame the peer has.     *)
(***************************************************************************)
EXTENDS ApsRetrans, FiniteSetTheorems, WellFoundedInduction, TLAPS

-----------------------------------------------------------------------------
\* Natural numbers.

Below == {ss \in Nat \X Nat : ss[1] < ss[2]}

LEMMA BelowWellFounded == IsWellFoundedOn(Below, Nat)
BY NatLessThanWellFounded DEF OpToRel, Below

\* A set of natural numbers that is not empty has a least element.
LEMMA LeastElement ==
  ASSUME NEW S \in SUBSET Nat, S # {}
  PROVE  \E x \in S : \A y \in S : x <= y
<1>1. PICK x \in S : \A y \in S : ~(<<y, x>> \in Below)
  BY BelowWellFounded, WFMin
<1>2. \A y \in S : ~(y < x)
  BY <1>1 DEF Below
<1>. QED BY <1>2

SizeInv == NEntries \in Nat \ {0} /\ Entries = 0 .. NEntries - 1

\* An entry names a buffer exactly while it is in use.
UseInv == \A i \in Entries : hash[i].state = "FREE" <=> hash[i].buf = NoBuf

TypeInv == TypeOK /\ SizeInv /\ UseInv

-----------------------------------------------------------------------------
\* The search loops return the first entry they look for, or the end.
LEMMA FirstFound ==
  ASSUME SizeInv, NEW I \in SUBSET Entries
  PROVE  \/ I = {} /\ Min(I \cup {NEntries}) = NEntries
         \/ Min(I \cup {NEntries}) \in I /\ \A j \in I : Min(I \cup {NEntries}) <= j
<1>. DEFINE S == I \cup {NEntries}
<1>1. S \in SUBSET Nat /\ S # {}
  BY DEF SizeInv
<1>2. \E x \in S : \A y \in S : x <= y
  BY <1>1, LeastElement
<1>3. Min(S) \in S /\ \A y \in S : Min(S) <= y
  BY <1>2 DEF Min
<1>4. \A m \in S : (\A y \in S : m <= y) => \/ I = {} /\ m = NEntries
                                            \/ m \in I /\ \A j \in I : m <= j
  BY DEF SizeInv
<1>. QED BY <1>3, <1>4

LEMMA FreeSlotFound ==
  ASSUME SizeInv
  PROVE  \/ FreeSlot = NEntries /\ \A i \in Entries : hash[i].state # "FREE"
         \/ /\ FreeSlot \in Entries /\ hash[FreeSlot].state = "FREE"
            /\ \A j \in Entries : hash[j].state = "FREE" => FreeSlot <= j
<1>. DEFINE I == {i \in Entries : hash[i].state = "FREE"}
<1>1. FreeSlot = Min(I \cup {NEntries})
  BY DEF FreeSlot, FirstEntry
<1>2. I \in SUBSET Entries
  OBVIOUS
<1>. QED BY <1>1, <1>2, FirstFound

LEMMA EntryOfFound ==
  ASSUME SizeInv, NEW b
  PROVE  \/ EntryOf(b) = NEntries /\ \A i \in Entries : hash[i].buf # b
         \/ /\ EntryOf(b) \in Entries /\ hash[EntryOf(b)].buf = b
            /\ \A j \in Entries : hash[j].buf = b => EntryOf(b) <= j
<1>. DEFINE I == {i \in Entries : hash[i].buf = b}
<1>1. EntryOf(b) = Min(I \cup {NEntries})
  BY DEF EntryOf, FirstEntry
<1>2. I \in SUBSET Entries
  OBVIOUS
<1>. QED BY <1>1, <1>2, FirstFound

LEMMA AckedEntryFound ==
  ASSUME SizeInv, NEW a
  PROVE  \/ AckedEntry(a) = NEntries
         \/ /\ AckedEntry(a) \in Entries
            /\ hash[AckedEntry(a)].state # "FREE" /\ hash[AckedEntry(a)].ctr = a.ctr
<1>. DEFINE I == {i \in Entries : hash[i].state # "FREE" /\ hash[i].ctr = a.ctr}
<1>1. AckedEntry(a) = Min(I \cup {NEntries})
  BY DEF AckedEntry, FirstEntry
<1>2. I \in SUBSET Entries
  OBVIOUS
<1>. QED BY <1>1, <1>2, FirstFound

-----------------------------------------------------------------------------
LEMMA InitTypes == Init => TypeInv
<1>. SUFFICES ASSUME Init PROVE TypeInv
  OBVIOUS
<1>1. PICK n \in Sizes : hash = [i \in 0 .. n - 1 |-> FreeEntry]
  BY DEF Init
<1>2. n \in Nat \ {0} /\ Entries = 0 .. n - 1
  BY <1>1, SizeAssumption DEF Entries
<1>3. NEntries = n
  BY <1>2, FS_Interval DEF NEntries
<1>4. SizeInv /\ UseInv
  BY <1>1, <1>2, <1>3 DEF SizeInv, UseInv, FreeEntry
<1>5. TypeOK
  <2>. USE SizeAssumption DEF Init, TypeOK
  <2>1. hash \in [Entries -> [state : {"FREE", "NOT_CONFIRMED", "ACKED", "CONFIRMED"},
                           buf : Bufs \cup {NoBuf}, ctr : Counters, retries : Upto(MaxRetries)]]
    BY <1>1, <1>2 DEF FreeEntry, Counters, Upto
  <2>2. buf \in [Bufs -> [frame : Frames, status : Statuses]]
    BY DEF Frames, Kinds, Counters, Statuses
  <2>. QED BY <2>1, <2>2 DEF Upto
<1>. QED BY <1>4, <1>5 DEF TypeInv

EntryRecords == [state : {"FREE", "NOT_CONFIRMED", "ACKED", "CONFIRMED"},
                 buf : Bufs \cup {NoBuf}, ctr : Counters, retries : Upto(MaxRetries)]

\* What composing a frame in buffer b does.
LEMMA ComposeEffect ==
  ASSUME TypeInv, NEW b \in Bufs, NEW kind \in Kinds, NEW status \in Statuses,
         Compose(b, kind, status)
  PROVE  /\ aps_counter \in Counters /\ aps_counter' = aps_counter + 1
         /\ aps_counter' \in Upto(MaxRequests)
         /\ free[b] > 0 /\ free' \in [Bufs -> Nat] /\ free'[b] = free[b] - 1
         /\ \A c \in Bufs \ {b} : free'[c] = free[c] /\ buf'[c] = buf[c]
         /\ buf' \in [Bufs -> [frame : Frames, status : Statuses]]
         /\ buf'[b].frame.type = kind /\ buf'[b].frame.ctr = aps_counter
         /\ buf'[b].status = status
<1>. USE DEF TypeInv, TypeOK, Compose
<1>1. aps_counter \in Counters /\ aps_counter + 1 \in Upto(MaxRequests)
  BY SizeAssumption DEF Counters, Upto
<1>2. [type |-> kind, ctr |-> aps_counter] \in Frames
  BY <1>1 DEF Frames
<1>3. buf' \in [Bufs -> [frame : Frames, status : Statuses]]
  BY <1>2
<1>4. buf'[b] = [frame |-> [type |-> kind, ctr |-> aps_counter], status |-> status]
  OBVIOUS
<1>. QED BY <1>1, <1>3, <1>4

\* What filling the free entry i for buffer b does.
LEMMA FillEffect ==
  ASSUME TypeInv, NEW b \in Bufs, NEW i \in Entries, aps_counter \in Counters,
         hash' = Filled(i, b)
  PROVE  /\ hash' \in [Entries -> EntryRecords] /\ Entries' = Entries
         /\ hash'[i] = [state |-> "NOT_CONFIRMED", buf |-> b, ctr |-> aps_counter,
                        retries |-> MaxRetries]
         /\ \A j \in Entries \ {i} : hash'[j] = hash[j]
<1>1. [state |-> "NOT_CONFIRMED", buf |-> b, ctr |-> aps_counter, retries |-> MaxRetries]
        \in EntryRecords
  BY SizeAssumption DEF EntryRecords, Upto
<1>2. hash \in [Entries -> EntryRecords]
  BY DEF TypeInv, TypeOK, EntryRecords
<1>. QED BY <1>1, <1>2 DEF Filled, Entries

LEMMA PassEffect ==
  ASSUME TypeInv, NEW b \in Bufs, NEW c \in Counters, PassToNwk(b, c)
  PROVE  /\ nwk' \in [Bufs -> Nat] /\ nwk'[b] = nwk[b] + 1
         /\ \A d \in Bufs \ {b} : nwk'[d] = nwk[d]
         /\ handed' \in [Counters -> Nat] /\ handed'[c] = handed[c] + 1
         /\ \A d \in Counters \ {c} : handed'[d] = handed[d]
BY DEF TypeInv, TypeOK, PassToNwk

\* What the end of entry i does: its buffer goes up, or is freed after a command.
LEMMA DoneEffect ==
  ASSUME TypeInv, NEW i \in Entries, hash[i].state # "FREE", NEW kind,
         NEW status \in Statuses, NEW pending \in [Entries -> Nat],
         DoneWithThisAck(i, kind, status, pending)
  PROVE  LET b == hash[i].buf IN
         /\ b \in Bufs
         /\ hash' \in [Entries -> EntryRecords] /\ Entries' = Entries
         /\ hash'[i].state = "FREE" /\ hash'[i].buf = NoBuf
         /\ \A j \in Entries \ {i} : hash'[j] = hash[j]
         /\ alarms' \in [Entries -> Nat] /\ alarms'[i] = Lowered(pending[i])
         /\ \A j \in Entries \ {i} : alarms'[j] = pending[j]
         /\ free' \in [Bufs -> Nat] /\ up' \in [Bufs -> Nat]
         /\ free'[b] + up'[b] = free[b] + up[b] + 1
         /\ free'[b] >= free[b] /\ up'[b] >= up[b]
         /\ \A c \in Bufs \ {b} : free'[c] = free[c] /\ up'[c] = up[c] /\ buf'[c] = buf[c]
         /\ buf' \in [Bufs -> [frame : Frames, status : Statuses]]
         /\ buf'[b].frame = buf[b].frame /\ buf'[b].status = status
<1>. DEFINE b == hash[i].buf
<1>1. hash \in [Entries -> EntryRecords]
  BY DEF TypeInv, TypeOK, EntryRecords
<1>2. b \in Bufs
  BY <1>1 DEF TypeInv, UseInv, EntryRecords
<1>3. /\ hash' \in [Entries -> EntryRecords] /\ Entries' = Entries
      /\ hash'[i].state = "FREE" /\ hash'[i].buf = NoBuf
      /\ \A j \in Entries \ {i} : hash'[j] = hash[j]
  BY <1>1 DEF DoneWithThisAck, EntryRecords, Entries
<1>4. /\ alarms' \in [Entries -> Nat] /\ alarms'[i] = Lowered(pending[i])
      /\ \A j \in Entries \ {i} : alarms'[j] = pending[j]
  BY DEF DoneWithThisAck, Lowered
<1>5. free \in [Bufs -> Nat] /\ up \in [Bufs -> Nat]
  BY DEF TypeInv, TypeOK
<1>6. /\ free' \in [Bufs -> Nat] /\ up' \in [Bufs -> Nat]
      /\ free'[b] + up'[b] = free[b] + up[b] + 1
      /\ free'[b] >= free[b] /\ up'[b] >= up[b]
      /\ \A c \in Bufs \ {b} : free'[c] = free[c] /\ up'[c] = up[c]
  <2>1. CASE kind = "cmd"
    BY <1>2, <1>5, <2>1 DEF DoneWithThisAck
  <2>2. CASE kind # "cmd"
    BY <1>2, <1>5, <2>2 DEF DoneWithThisAck
  <2>. QED BY <2>1, <2>2
<1>7. /\ buf' \in [Bufs -> [frame : Frames, status : Statuses]]
      /\ \A c \in Bufs \ {b} : buf'[c] = buf[c]
      /\ buf'[b].frame = buf[b].frame /\ buf'[b].status = status
  <2>1. PICK r \in [frame : Frames, status : Statuses] : r = buf[b]
    BY <1>2 DEF TypeInv, TypeOK
  <2>2. PICK u \in [frame : Frames, status : Statuses] :
          u = [r EXCEPT !.status = status] /\ u.frame = r.frame /\ u.status = status
    <3>1. \A e \in [frame : Frames, status : Statuses] : \A s \in Statuses :
            /\ [e EXCEPT !.status = s] \in [frame : Frames, status : Statuses]
            /\ [e EXCEPT !.status = s].frame = e.frame
            /\ [e EXCEPT !.status = s].status = s
      OBVIOUS
    <3>2. /\ [r EXCEPT !.status = status] \in [frame : Frames, status : Statuses]
          /\ [r EXCEPT !.status = status].frame = r.frame
          /\ [r EXCEPT !.status = status].status = status
      BY <2>1, <3>1, Zenon
    <3>. QED BY <3>2, Zenon
  <2>3. buf' = [buf EXCEPT ![b] = u]
    BY <1>2, <2>1, <2>2 DEF DoneWithThisAck
  <2>4. buf \in [Bufs -> [frame : Frames, status : Statuses]]
    BY DEF TypeInv, TypeOK
  <2>. QED BY <1>2, <2>1, <2>2, <2>3, <2>4, Zenon
<1>. QED BY <1>2, <1>3, <1>4, <1>6, <1>7

-----------------------------------------------------------------------------
\* The table keeps its entries, and so its size and its room.
LEMMA SameEntries ==
  ASSUME Entries' = Entries
  PROVE  NEntries' = NEntries /\ (SizeInv => SizeInv') /\ (Roomy <=> Roomy')
<1>1. NEntries' = NEntries
  BY DEF NEntries
<1>. QED BY <1>1 DEF SizeInv, Roomy

LEMMA RequestTypes ==
  ASSUME TypeInv, NEW b \in Bufs, Request(b)
  PROVE  TypeInv' /\ Entries' = Entries
<1>0. \A k \in {"data", "noack", "cmd"} : k \in Kinds
  BY DEF Kinds
<1>1. buf[b].status \in Statuses /\ "TABLE_FULL" \in Statuses /\ b # NoBuf
  BY NoBufAssumption DEF Statuses, TypeInv, TypeOK
<1>t. /\ TypeInv /\ SizeInv /\ UseInv
      /\ hash \in [Entries -> EntryRecords] /\ alarms \in [Entries -> Nat]
      /\ up \in [Bufs -> Nat] /\ nwk \in [Bufs -> Nat] /\ handed \in [Counters -> Nat]
      /\ air \subseteq (Frames \cup Acks) /\ passed \subseteq Counters
  BY DEF TypeInv, TypeOK, EntryRecords
<1>q. ASSUME Entries' = Entries, UseInv', hash' \in [Entries -> EntryRecords],
             alarms' \in [Entries -> Nat], aps_counter' \in Upto(MaxRequests),
             buf' \in [Bufs -> [frame : Frames, status : Statuses]],
             free' \in [Bufs -> Nat], nwk' \in [Bufs -> Nat], up' \in [Bufs -> Nat],
             handed' \in [Counters -> Nat], UNCHANGED <<air, passed>>
      PROVE  TypeInv' /\ Entries' = Entries
  BY <1>q, <1>t, SameEntries DEF TypeInv, TypeOK, EntryRecords
<1>. DEFINE Fills == FreeSlot < NEntries /\ hash' = Filled(FreeSlot, b)
<1>2. ASSUME Fills, aps_counter \in Counters
      PROVE  /\ FreeSlot \in Entries
             /\ hash' \in [Entries -> EntryRecords] /\ Entries' = Entries /\ UseInv'
  <2>1. FreeSlot \in Entries
    BY <1>t, <1>2, FreeSlotFound DEF SizeInv
  <2>2. /\ hash' \in [Entries -> EntryRecords] /\ Entries' = Entries
        /\ hash'[FreeSlot] = [state |-> "NOT_CONFIRMED", buf |-> b, ctr |-> aps_counter,
                              retries |-> MaxRetries]
        /\ \A j \in Entries \ {FreeSlot} : hash'[j] = hash[j]
    BY <1>t, <1>2, <2>1, FillEffect
  <2>3. UseInv'
    BY <1>t, <1>1, <2>1, <2>2 DEF UseInv
  <2>. QED BY <2>1, <2>2, <2>3
<1>3. ASSUME aps_counter \in Counters, PassToNwk(b, aps_counter)
      PROVE  nwk' \in [Bufs -> Nat] /\ handed' \in [Counters -> Nat]
  BY <1>t, <1>3, PassEffect
<1>4. CASE DataRequestNoAck(b)
  <2>1. Compose(b, "noack", buf[b].status) /\ PassToNwk(b, aps_counter) /\ Entries' = Entries
    BY <1>4 DEF DataRequestNoAck, tableVars, Entries
  <2>2. UNCHANGED <<hash, alarms, up, air, passed>> /\ UseInv'
    BY <1>t, <1>4, <2>1 DEF DataRequestNoAck, tableVars, UseInv
  <2>. QED BY <1>0, <1>1, <1>3, <1>q, <1>t, <2>1, <2>2, ComposeEffect
<1>5. CASE DataRequest(b)
  <2>1. /\ Compose(b, "data", buf[b].status) /\ PassToNwk(b, aps_counter)
        /\ UNCHANGED <<up, air, passed>>
    BY <1>5 DEF DataRequest
  <2>2. aps_counter \in Counters
    BY <1>0, <1>1, <1>t, <2>1, ComposeEffect
  <2>3. /\ hash' \in [Entries -> EntryRecords] /\ Entries' = Entries /\ UseInv'
        /\ alarms' \in [Entries -> Nat]
    <3>1. CASE FreeSlot < NEntries
      <4>1. Fills /\ alarms' = [alarms EXCEPT ![FreeSlot] = @ + 1]
        BY <1>5, <3>1 DEF DataRequest
      <4>2. alarms' \in [Entries -> Nat]
        BY <1>2, <1>t, <2>2, <4>1
      <4>. QED BY <1>2, <2>2, <4>1, <4>2
    <3>2. CASE ~(FreeSlot < NEntries)
      <4>1. hash' = hash /\ alarms' = [alarms EXCEPT ![0] = @ + 1]
        BY <1>5, <3>2 DEF DataRequest
      <4>2. UseInv' /\ Entries' = Entries
        BY <1>t, <4>1 DEF UseInv, Entries
      <4>3. alarms' \in [Entries -> Nat]
        BY <1>t, <4>1 DEF SizeInv
      <4>. QED BY <1>t, <4>1, <4>2, <4>3
    <3>. QED BY <3>1, <3>2
  <2>. QED BY <1>0, <1>1, <1>3, <1>q, <1>t, <2>1, <2>2, <2>3, ComposeEffect
<1>6. CASE DataRequestTableFull(b)
  <2>1. /\ Compose(b, "data", "TABLE_FULL") /\ up' = [up EXCEPT ![b] = @ + 1]
        /\ UNCHANGED <<alarms, nwk, handed, air, passed>>
    BY <1>6 DEF DataRequestTableFull
  <2>2. aps_counter \in Counters
    BY <1>0, <1>1, <1>t, <2>1, ComposeEffect
  <2>3. hash' \in [Entries -> EntryRecords] /\ Entries' = Entries /\ UseInv'
    <3>1. Fills
      BY <1>t, <1>6 DEF DataRequestTableFull, SizeInv
    <3>. QED BY <1>2, <2>2, <3>1
  <2>4. up' \in [Bufs -> Nat]
    BY <1>t, <2>1
  <2>. QED BY <1>0, <1>1, <1>q, <1>t, <2>1, <2>2, <2>3, <2>4, ComposeEffect
<1>7. CASE SendCommand(b)
  <2>1. /\ Compose(b, "cmd", buf[b].status) /\ PassToNwk(b, aps_counter)
        /\ UNCHANGED <<up, air, passed>>
    BY <1>7 DEF SendCommand
  <2>2. aps_counter \in Counters
    BY <1>0, <1>1, <1>t, <2>1, ComposeEffect
  <2>3. /\ hash' \in [Entries -> EntryRecords] /\ Entries' = Entries /\ UseInv'
        /\ alarms' \in [Entries -> Nat]
    <3>1. CASE Fills /\ alarms' = [alarms EXCEPT ![FreeSlot] = @ + 1]
      <4>1. alarms' \in [Entries -> Nat]
        BY <1>2, <1>t, <2>2, <3>1
      <4>. QED BY <1>2, <2>2, <3>1, <4>1
    <3>2. CASE UNCHANGED tableVars
      BY <1>t, <3>2 DEF Entries, UseInv, tableVars
    <3>. QED BY <1>7, <3>1, <3>2 DEF SendCommand
  <2>. QED BY <1>0, <1>1, <1>3, <1>q, <1>t, <2>1, <2>2, <2>3, ComposeEffect
<1>. QED BY <1>4, <1>5, <1>6, <1>7 DEF Request

LEMMA ConfirmTypes ==
  ASSUME TypeInv, NEW b \in Bufs, NldeConfirm(b) \/ NldeConfirmNoAck(b) \/ DataConfirm(b)
  PROVE  TypeInv' /\ Entries' = Entries
<1>t. /\ TypeInv /\ SizeInv /\ UseInv /\ b # NoBuf
      /\ hash \in [Entries -> EntryRecords] /\ alarms \in [Entries -> Nat]
      /\ free \in [Bufs -> Nat] /\ nwk \in [Bufs -> Nat] /\ up \in [Bufs -> Nat]
      /\ buf \in [Bufs -> [frame : Frames, status : Statuses]]
  BY NoBufAssumption DEF TypeInv, TypeOK, EntryRecords
<1>q. ASSUME Entries' = Entries, UseInv', hash' \in [Entries -> EntryRecords],
             alarms' \in [Entries -> Nat], free' \in [Bufs -> Nat],
             nwk' \in [Bufs -> Nat], up' \in [Bufs -> Nat],
             buf' \in [Bufs -> [frame : Frames, status : Statuses]],
             UNCHANGED <<aps_counter, handed, air, passed>>
      PROVE  TypeInv' /\ Entries' = Entries
  BY <1>q, <1>t, SameEntries DEF TypeInv, TypeOK, EntryRecords
<1>s. ASSUME UNCHANGED hash PROVE Entries' = Entries /\ UseInv'
  BY <1>s, <1>t DEF Entries, UseInv
<1>1. CASE NldeConfirmNoAck(b)
  <2>1. nwk' \in [Bufs -> Nat] /\ up' \in [Bufs -> Nat]
    BY <1>t, <1>1 DEF NldeConfirmNoAck
  <2>2. UNCHANGED <<hash, alarms, aps_counter, buf, free, handed, air, passed>>
    BY <1>1 DEF NldeConfirmNoAck, tableVars
  <2>. QED BY <1>t, <1>q, <1>s, <2>1, <2>2
<1>2. CASE DataConfirm(b)
  <2>1. up' \in [Bufs -> Nat] /\ free' \in [Bufs -> Nat]
    BY <1>t, <1>2 DEF DataConfirm
  <2>2. UNCHANGED <<hash, alarms, aps_counter, buf, nwk, handed, air, passed>>
    BY <1>2 DEF DataConfirm, tableVars
  <2>. QED BY <1>t, <1>q, <1>s, <2>1, <2>2
<1>3. CASE NldeConfirm(b)
  <2>. DEFINE i == EntryOf(b)
  <2>1. nwk' \in [Bufs -> Nat] /\ UNCHANGED <<aps_counter, handed, air, passed>>
    BY <1>t, <1>3 DEF NldeConfirm
  <2>2. i < NEntries => i \in Entries /\ hash[i].buf = b /\ hash[i].state # "FREE"
    BY <1>t, EntryOfFound DEF SizeInv, UseInv
  <2>3. CASE /\ i < NEntries /\ hash[i].state = "ACKED"
             /\ DoneWithThisAck(i, buf[b].frame.type, "OK", alarms)
    <3>1. "OK" \in Statuses
      BY DEF Statuses
    <3>2. /\ hash' \in [Entries -> EntryRecords] /\ Entries' = Entries
          /\ hash'[i].state = "FREE" /\ hash'[i].buf = NoBuf
          /\ \A j \in Entries \ {i} : hash'[j] = hash[j]
          /\ alarms' \in [Entries -> Nat] /\ free' \in [Bufs -> Nat] /\ up' \in [Bufs -> Nat]
          /\ buf' \in [Bufs -> [frame : Frames, status : Statuses]]
      BY <1>t, <2>2, <2>3, <3>1, DoneEffect
    <3>3. UseInv'
      BY <1>t, <3>2 DEF UseInv
    <3>. QED BY <1>q, <2>1, <3>2, <3>3
  <2>4. CASE /\ i < NEntries /\ hash[i].state = "NOT_CONFIRMED"
             /\ hash' = [hash EXCEPT ![i].state = "CONFIRMED"]
             /\ UNCHANGED <<alarms, buf, free, up>>
    <3>1. hash' \in [Entries -> EntryRecords] /\ Entries' = Entries
      BY <1>t, <2>2, <2>4 DEF EntryRecords, Entries
    <3>2. UseInv'
      BY <1>t, <2>2, <2>4, <3>1 DEF UseInv
    <3>. QED BY <1>t, <1>q, <2>1, <2>4, <3>1, <3>2
  <2>5. CASE /\ i = NEntries /\ free' = [free EXCEPT ![b] = @ + 1]
             /\ UNCHANGED <<tableVars, buf, up>>
    <3>1. free' \in [Bufs -> Nat]
      BY <1>t, <2>5
    <3>. QED BY <1>t, <1>q, <1>s, <2>1, <2>5, <3>1 DEF tableVars
  <2>. QED BY <1>3, <2>3, <2>4, <2>5 DEF NldeConfirm
<1>. QED BY <1>1, <1>2, <1>3

LEMMA AckTypes ==
  ASSUME TypeInv, NEW a \in air \cap Acks, AckFrameHandle(a)
  PROVE  TypeInv' /\ Entries' = Entries
<1>. DEFINE i == AckedEntry(a)
<1>t. /\ TypeInv /\ SizeInv /\ UseInv
      /\ hash \in [Entries -> EntryRecords] /\ alarms \in [Entries -> Nat]
  BY DEF TypeInv, TypeOK, EntryRecords
<1>1. air' = air \ {a} /\ UNCHANGED <<aps_counter, nwk, handed, passed>>
  BY DEF AckFrameHandle
<1>q. ASSUME Entries' = Entries, UseInv', hash' \in [Entries -> EntryRecords],
             alarms' \in [Entries -> Nat], free' \in [Bufs -> Nat], up' \in [Bufs -> Nat],
             buf' \in [Bufs -> [frame : Frames, status : Statuses]]
      PROVE  TypeInv' /\ Entries' = Entries
  BY <1>q, <1>t, <1>1, SameEntries DEF TypeInv, TypeOK, EntryRecords
<1>2. i < NEntries => i \in Entries /\ hash[i].state # "FREE"
  BY <1>t, AckedEntryFound DEF SizeInv
<1>3. CASE UNCHANGED <<tableVars, buf, free, up>>
  <2>1. UNCHANGED hash /\ Entries' = Entries /\ UseInv'
    BY <1>t, <1>3 DEF tableVars, Entries, UseInv
  <2>. QED BY <1>q, <1>3, <2>1 DEF TypeInv, TypeOK, EntryRecords, tableVars
<1>4. CASE /\ i < NEntries /\ hash[i].state = "NOT_CONFIRMED"
           /\ hash' = [hash EXCEPT ![i].state = "ACKED"]
           /\ UNCHANGED <<alarms, buf, free, up>>
  <2>1. hash' \in [Entries -> EntryRecords] /\ Entries' = Entries
    BY <1>t, <1>2, <1>4 DEF EntryRecords, Entries
  <2>2. UseInv'
    BY <1>t, <1>2, <1>4, <2>1 DEF UseInv
  <2>. QED BY <1>q, <1>4, <2>1, <2>2 DEF TypeInv, TypeOK
<1>5. CASE i < NEntries /\ DoneWithThisAck(i, a.of, "OK", alarms)
  <2>1. "OK" \in Statuses
    BY DEF Statuses
  <2>2. /\ hash' \in [Entries -> EntryRecords] /\ Entries' = Entries
        /\ hash'[i].state = "FREE" /\ hash'[i].buf = NoBuf
        /\ \A j \in Entries \ {i} : hash'[j] = hash[j]
        /\ alarms' \in [Entries -> Nat] /\ free' \in [Bufs -> Nat] /\ up' \in [Bufs -> Nat]
        /\ buf' \in [Bufs -> [frame : Frames, status : Statuses]]
    BY <1>t, <1>2, <1>5, <2>1, DoneEffect
  <2>3. UseInv'
    BY <1>t, <2>2 DEF UseInv
  <2>. QED BY <1>q, <2>2, <2>3
<1>. QED BY <1>3, <1>4, <1>5 DEF AckFrameHandle

LEMMA TimerTypes ==
  ASSUME TypeInv, NEW i \in Entries, AckTimerCb(i)
  PROVE  TypeInv' /\ Entries' = Entries
<1>. DEFINE b == hash[i].buf
            rest == [alarms EXCEPT ![i] = @ - 1]
<1>t. /\ TypeInv /\ SizeInv /\ UseInv
      /\ hash \in [Entries -> EntryRecords] /\ alarms \in [Entries -> Nat]
      /\ hash[i].ctr \in Counters /\ TimerRetries(i) \in Upto(MaxRetries)
  <2>1. hash \in [Entries -> EntryRecords] /\ hash[i].retries \in 0 .. MaxRetries
    BY DEF TypeInv, TypeOK, EntryRecords, Upto
  <2>. QED BY <2>1, SizeAssumption DEF TypeInv, TypeOK, TimerRetries, Lowered, Upto, EntryRecords
<1>1. UNCHANGED <<aps_counter, air, passed>> /\ alarms[i] > 0
  BY DEF AckTimerCb
<1>q. ASSUME Entries' = Entries, UseInv', hash' \in [Entries -> EntryRecords],
             alarms' \in [Entries -> Nat], free' \in [Bufs -> Nat], up' \in [Bufs -> Nat],
             buf' \in [Bufs -> [frame : Frames, status : Statuses]],
             nwk' \in [Bufs -> Nat], handed' \in [Counters -> Nat]
      PROVE  TypeInv' /\ Entries' = Entries
  BY <1>q, <1>t, <1>1, SameEntries DEF TypeInv, TypeOK, EntryRecords
<1>2. hash[i].state = "CONFIRMED" => b \in Bufs
  BY <1>t DEF UseInv, EntryRecords
<1>3. CASE /\ hash[i].state = "CONFIRMED" /\ UNCHANGED <<nwk, handed>>
           /\ DoneWithThisAck(i, buf[b].frame.type, "NO_ACK", rest)
  <2>1. "NO_ACK" \in Statuses /\ rest \in [Entries -> Nat]
    BY <1>t, <1>1 DEF Statuses
  <2>2. /\ hash' \in [Entries -> EntryRecords] /\ Entries' = Entries
        /\ hash'[i].state = "FREE" /\ hash'[i].buf = NoBuf
        /\ \A j \in Entries \ {i} : hash'[j] = hash[j]
        /\ alarms' \in [Entries -> Nat] /\ free' \in [Bufs -> Nat] /\ up' \in [Bufs -> Nat]
        /\ buf' \in [Bufs -> [frame : Frames, status : Statuses]]
    BY <1>t, <1>3, <2>1, DoneEffect
  <2>3. UseInv'
    BY <1>t, <2>2 DEF UseInv
  <2>. QED BY <1>q, <1>3, <2>2, <2>3 DEF TypeInv, TypeOK
<1>4. CASE /\ hash[i].state = "CONFIRMED" /\ PassToNwk(b, hash[i].ctr)
           /\ hash' = [hash EXCEPT ![i].state = "NOT_CONFIRMED", ![i].retries = TimerRetries(i)]
           /\ UNCHANGED <<alarms, buf, free, up>>
  <2>1. hash' \in [Entries -> EntryRecords] /\ Entries' = Entries
    BY <1>t, <1>4 DEF EntryRecords, Entries
  <2>2. UseInv'
    BY <1>t, <1>4, <2>1 DEF UseInv
  <2>3. nwk' \in [Bufs -> Nat] /\ handed' \in [Counters -> Nat]
    BY <1>t, <1>2, <1>4, PassEffect
  <2>. QED BY <1>q, <1>4, <2>1, <2>2, <2>3 DEF TypeInv, TypeOK
<1>5. CASE /\ hash' = [hash EXCEPT ![i].retries = TimerRetries(i)]
           /\ UNCHANGED <<alarms, nwk, handed, buf, free, up>>
  <2>1. hash' \in [Entries -> EntryRecords] /\ Entries' = Entries
    BY <1>t, <1>5 DEF EntryRecords, Entries
  <2>2. UseInv'
    BY <1>t, <1>5, <2>1 DEF UseInv
  <2>. QED BY <1>q, <1>5, <2>1, <2>2 DEF TypeInv, TypeOK
<1>. QED BY <1>3, <1>4, <1>5 DEF AckTimerCb

LEMMA AirTypes ==
  ASSUME TypeInv, \/ \E b \in Bufs : Transmit(b)
                  \/ \E f \in air \cap Frames : PeerIndication(f)
                  \/ UNCHANGED vars
  PROVE  TypeInv' /\ Entries' = Entries
<1>1. /\ Entries' = Entries /\ UseInv'
      /\ UNCHANGED sendVars
  BY DEF TypeInv, UseInv, Entries, Transmit, PeerIndication, vars, sendVars, tableVars
<1>2. air' \subseteq Frames \cup Acks /\ passed' \subseteq Counters
  <2>1. ASSUME NEW b \in Bufs, Transmit(b) PROVE <1>2!1 /\ <1>2!2
    BY <2>1 DEF TypeInv, TypeOK, Transmit
  <2>2. ASSUME NEW f \in air \cap Frames, PeerIndication(f) PROVE <1>2!1 /\ <1>2!2
    <3>1. f \in Frames /\ f.ctr \in Counters /\ Ack(f) \in Acks
      BY DEF Frames, Acks, Ack
    <3>. QED BY <2>2, <3>1 DEF TypeInv, TypeOK, PeerIndication
  <2>. QED BY <2>1, <2>2 DEF TypeInv, TypeOK, vars
<1>. QED BY <1>1, <1>2, SameEntries DEF TypeInv, TypeOK, sendVars, tableVars

LEMMA NextTypes == TypeInv /\ [Next]_vars => TypeInv' /\ Entries' = Entries
BY RequestTypes, ConfirmTypes, AckTypes, TimerTypes, AirTypes DEF Next

-----------------------------------------------------------------------------
\* The inductive invariant.  An entry in use is proper, its frame is in its
\* buffer and NWK or the entry holds that buffer, or it is the last entry of a
\* full table: then its frame was never sent, and no buffer that can be sent
\* carries its counter.
Kept(b) == \E i \in Entries : hash[i].buf = b /\ hash[i].state = "CONFIRMED"
Busy(b) == nwk[b] > 0 \/ Kept(b)

Proper(i) ==
  LET b == hash[i].buf IN
  /\ buf[b].frame.ctr = hash[i].ctr /\ buf[b].frame.type # "noack"
  /\ hash[i].state = "CONFIRMED" \/ nwk[b] = 1

Unsent(i) ==
  /\ i = NEntries - 1 /\ hash[i].state # "ACKED" /\ ~Roomy
  /\ \A f \in air : f.ctr # hash[i].ctr
  /\ \A b \in Bufs : Busy(b) => buf[b].frame.ctr # hash[i].ctr

InUse == {i \in Entries : hash[i].state # "FREE"}

\* Counters tell entries and frames apart.
CounterInv ==
  /\ \A i \in InUse : hash[i].ctr < aps_counter
  /\ \A i, j \in InUse : i # j => hash[i].ctr # hash[j].ctr
  /\ \A f \in air : f.ctr < aps_counter
  /\ \A b \in Bufs : Busy(b) => buf[b].frame.ctr < aps_counter

EntryInv == \A i \in InUse : Proper(i) \/ Unsent(i)

HolderInv ==
  /\ \A b \in Bufs : /\ Kept(b) => free[b] = 0 /\ nwk[b] = 0 /\ up[b] = 0
                     /\ ~Kept(b) => free[b] + nwk[b] + up[b] = 1
  /\ \A i, j \in Entries :
       hash[i].state = "CONFIRMED" /\ hash[j].state = "CONFIRMED" /\ hash[i].buf = hash[j].buf
         => i = j

AckedInv ==
  /\ \A a \in air \cap Acks : a.ctr \in passed
  /\ \A i \in InUse : hash[i].state = "ACKED" => hash[i].ctr \in passed

SendsInv ==
  /\ \A c \in Counters : c >= aps_counter => handed[c] = 0
  /\ \A i \in InUse : handed[hash[i].ctr] + hash[i].retries <= MaxRetries + 1
  /\ SendsBounded

FrameInv == /\ CounterInv /\ EntryInv /\ HolderInv /\ AckedInv /\ SendsInv
            /\ OkMeansDelivered

\* A buffer somebody else holds has no proper entry and is not kept.
LEMMA NotHeld ==
  ASSUME TypeInv, FrameInv, NEW b \in Bufs, free[b] > 0 \/ up[b] > 0
  PROVE  /\ nwk[b] = 0 /\ ~Kept(b) /\ free[b] + up[b] = 1
         /\ \A i \in InUse : hash[i].buf = b => ~Proper(i) /\ Unsent(i)
<1>1. free[b] \in Nat /\ nwk[b] \in Nat /\ up[b] \in Nat
  BY DEF TypeInv, TypeOK
<1>2. /\ Kept(b) => free[b] = 0 /\ nwk[b] = 0 /\ up[b] = 0
      /\ ~Kept(b) => free[b] + nwk[b] + up[b] = 1
  BY DEF FrameInv, HolderInv
<1>3. nwk[b] = 0 /\ ~Kept(b) /\ free[b] + up[b] = 1
  BY <1>1, <1>2
<1>4. \A i \in InUse : hash[i].buf = b => ~Proper(i)
  BY <1>3 DEF Proper, Kept, InUse
<1>. QED BY <1>3, <1>4 DEF FrameInv, EntryInv

\* A new frame in the free buffer b, sent or returned at once, with an entry of
\* its own or without.
LEMMA NewFrame ==
  ASSUME TypeInv, FrameInv, TypeInv', Entries' = Entries,
         NEW b \in Bufs, NEW kind \in Kinds, NEW status \in Statuses,
         Compose(b, kind, status), UNCHANGED <<air, passed>>,
         NEW sent \in BOOLEAN, NEW fills \in BOOLEAN, NEW s,
         sent => PassToNwk(b, aps_counter) /\ UNCHANGED up,
         ~sent => /\ up' = [up EXCEPT ![b] = @ + 1] /\ UNCHANGED <<nwk, handed>>
                  /\ status = "TABLE_FULL" /\ fills /\ s = NEntries - 1 /\ ~Roomy,
         ~fills => UNCHANGED hash,
         fills => /\ s \in Entries /\ hash[s].state = "FREE" /\ hash' = Filled(s, b)
                  /\ kind # "noack"
  PROVE  FrameInv'
<1>. DEFINE c0 == aps_counter
<1>1. /\ c0 \in Counters /\ aps_counter' = c0 + 1 /\ c0 \in Nat
      /\ free[b] > 0 /\ free'[b] = free[b] - 1
      /\ \A c \in Bufs \ {b} : free'[c] = free[c] /\ buf'[c] = buf[c]
      /\ buf'[b].frame.type = kind /\ buf'[b].frame.ctr = c0 /\ buf'[b].status = status
  BY ComposeEffect DEF Counters
<1>2. /\ nwk[b] = 0 /\ up[b] = 0 /\ free[b] = 1 /\ ~Kept(b)
      /\ \A i \in InUse : hash[i].buf = b => Unsent(i)
  <2>1. free[b] \in Nat /\ up[b] \in Nat
    BY DEF TypeInv, TypeOK
  <2>. QED BY <1>1, <2>1, NotHeld
<1>3. fills => /\ s \in Entries /\ hash[s].state = "FREE"
               /\ hash'[s] = [state |-> "NOT_CONFIRMED", buf |-> b, ctr |-> c0,
                              retries |-> MaxRetries]
               /\ \A j \in Entries \ {s} : hash'[j] = hash[j]
  BY <1>1, FillEffect
<1>4. /\ sent => nwk'[b] = 1 /\ handed'[c0] = handed[c0] + 1
      /\ sent => \A d \in Bufs \ {b} : nwk'[d] = nwk[d]
      /\ sent => \A d \in Counters \ {c0} : handed'[d] = handed[d]
      /\ ~sent => nwk' = nwk /\ handed' = handed
  <2>1. CASE sent
    <3>1. PassToNwk(b, c0)
      BY <2>1
    <3>. QED BY <1>1, <1>2, <2>1, <3>1, PassEffect
  <2>2. CASE ~sent
    BY <2>2
  <2>. QED BY <2>1, <2>2
<1>5. /\ \A c \in Bufs \ {b} : up'[c] = up[c]
      /\ up'[b] = IF sent THEN 0 ELSE 1
  BY <1>2 DEF TypeInv, TypeOK
<1>6. \A i \in InUse' : \/ i \in InUse /\ hash'[i] = hash[i]
                        \/ /\ fills /\ i = s /\ hash'[i].buf = b /\ hash'[i].ctr = c0
                           /\ hash'[i].state = "NOT_CONFIRMED" /\ hash'[i].retries = MaxRetries
  BY <1>3 DEF InUse
<1>7. \A c \in Bufs : Kept(c)' <=> Kept(c)
  <2>1. CASE fills
    BY <1>3, <2>1 DEF Kept
  <2>2. CASE ~fills
    BY <2>2 DEF Kept
  <2>. QED BY <2>1, <2>2
<1>8. \A c \in Bufs : Busy(c)' => (c = b /\ sent) \/ (c # b /\ Busy(c))
  BY <1>2, <1>4, <1>7 DEF Busy
<1>9. CounterInv'
  <2>1. \A i \in InUse : hash[i].ctr < c0 /\ hash[i].ctr \in Nat
    BY DEF FrameInv, CounterInv, TypeInv, TypeOK, InUse, Counters
  <2>2. \A i \in InUse' : hash'[i].ctr < aps_counter'
    BY <1>1, <1>6, <2>1
  <2>3. \A i, j \in InUse' : i # j => hash'[i].ctr # hash'[j].ctr
    <3>1. \A i, j \in InUse : i # j => hash[i].ctr # hash[j].ctr
      BY DEF FrameInv, CounterInv
    <3>2. \A i \in InUse' : \/ i \in InUse /\ hash'[i].ctr = hash[i].ctr
                            \/ i = s /\ hash'[i].ctr = c0
      BY <1>6
    <3>. QED BY <1>1, <2>1, <3>1, <3>2
  <2>4. \A f \in air' : f.ctr < aps_counter'
    <3>1. \A f \in air : f.ctr \in Nat /\ f.ctr < c0
      <4>1. \A f \in Frames \cup Acks : f.ctr \in Counters
        BY DEF Frames, Acks
      <4>. QED BY <4>1 DEF FrameInv, CounterInv, TypeInv, TypeOK, Counters
    <3>. QED BY <1>1, <3>1
  <2>5. \A c \in Bufs : Busy(c)' => buf'[c].frame.ctr < aps_counter'
    <3>1. \A c \in Bufs : buf[c].frame.ctr \in Nat
      BY DEF TypeInv, TypeOK, Frames, Counters
    <3>. QED BY <1>1, <1>8, <3>1 DEF FrameInv, CounterInv
  <2>. QED BY <2>2, <2>3, <2>4, <2>5 DEF CounterInv
<1>10. EntryInv'
  <2>0. NEntries' = NEntries /\ (Roomy <=> Roomy')
    BY SameEntries
  <2>1. ASSUME NEW i \in InUse, hash'[i] = hash[i], Unsent(i) PROVE Unsent(i)'
    <3>1. hash[i].ctr # c0
      BY <1>1 DEF FrameInv, CounterInv
    <3>. QED BY <1>1, <1>8, <2>0, <2>1, <3>1 DEF Unsent
  <2>2. ASSUME NEW i \in InUse, hash'[i] = hash[i], hash[i].buf # b, Proper(i) PROVE Proper(i)'
    <3>1. hash[i].buf \in Bufs \ {b}
      BY <2>2 DEF InUse, TypeInv, UseInv, TypeOK
    <3>. QED BY <1>1, <1>4, <2>2, <3>1 DEF Proper
  <2>3. ASSUME fills, sent PROVE Proper(s)'
    BY <1>1, <1>3, <1>4, <2>3 DEF Proper
  <2>4. ASSUME ~sent PROVE Unsent(s)'
    <3>1. \A f \in air' : f.ctr # c0
      BY <1>1 DEF FrameInv, CounterInv
    <3>2. \A c \in Bufs : Busy(c)' => buf'[c].frame.ctr # c0
      BY <1>1, <1>8, <2>4 DEF FrameInv, CounterInv
    <3>. QED BY <1>3, <2>0, <2>4, <3>1, <3>2 DEF Unsent
  <2>. QED BY <1>2, <1>6, <2>1, <2>2, <2>3, <2>4 DEF EntryInv, FrameInv
<1>11. HolderInv'
  <2>1. ASSUME NEW c \in Bufs
        PROVE  /\ Kept(c)' => free'[c] = 0 /\ nwk'[c] = 0 /\ up'[c] = 0
               /\ ~Kept(c)' => free'[c] + nwk'[c] + up'[c] = 1
    <3>1. CASE c = b
      BY <1>1, <1>2, <1>4, <1>5, <1>7, <3>1
    <3>2. CASE c # b
      BY <1>1, <1>4, <1>5, <1>7, <3>2 DEF FrameInv, HolderInv
    <3>. QED BY <3>1, <3>2
  <2>2. \A i \in Entries : hash'[i].state = "CONFIRMED" => hash'[i] = hash[i]
    BY <1>3
  <2>. QED BY <2>1, <2>2 DEF HolderInv, FrameInv
<1>12. AckedInv'
  BY <1>6 DEF AckedInv, FrameInv
<1>13. SendsInv'
  <2>1. \A i \in InUse : hash[i].ctr \in Counters \ {c0}
    BY <1>1 DEF FrameInv, CounterInv, TypeInv, TypeOK, InUse
  <2>2. handed[c0] = 0 /\ handed'[c0] \in {0, 1}
    BY <1>1, <1>4 DEF FrameInv, SendsInv
  <2>3. \A c \in Counters \ {c0} : handed'[c] = handed[c]
    BY <1>4
  <2>4. \A c \in Counters : c >= aps_counter' => handed'[c] = 0
    BY <1>1, <2>3 DEF FrameInv, SendsInv, Counters
  <2>5. \A i \in InUse' : handed'[hash'[i].ctr] + hash'[i].retries <= MaxRetries + 1
    BY <1>6, <2>1, <2>2, <2>3, SizeAssumption DEF FrameInv, SendsInv
  <2>6. \A c \in Counters : handed'[c] <= MaxRetries
    BY <2>2, <2>3, SizeAssumption DEF FrameInv, SendsInv, SendsBounded
  <2>. QED BY <2>4, <2>5, <2>6 DEF SendsInv, SendsBounded
<1>14. OkMeansDelivered'
  BY <1>1, <1>5 DEF FrameInv, OkMeansDelivered
<1>. QED BY <1>9, <1>10, <1>11, <1>12, <1>13, <1>14 DEF FrameInv

\* Of a table with more entries than buffers every entry in use has a buffer of
\* its own, and a free buffer leaves two entries free.
LEMMA RoomySlots ==
  ASSUME TypeInv, FrameInv, Roomy
  PROVE  /\ \A i \in InUse : Proper(i) /\ hash[i].buf \in Bufs
         /\ \A i, j \in InUse : hash[i].buf = hash[j].buf => i = j
         /\ \A b \in Bufs : free[b] > 0 => FreeSlot < NEntries - 1
<1>1. \A i \in InUse : Proper(i) /\ hash[i].buf \in Bufs
  <2>1. \A i \in InUse : Proper(i)
    BY DEF FrameInv, EntryInv, Unsent
  <2>2. \A i \in InUse : hash[i].buf \in Bufs
    BY DEF InUse, TypeInv, UseInv, TypeOK
  <2>. QED BY <2>1, <2>2
<1>2. \A i, j \in InUse : hash[i].buf = hash[j].buf => i = j
  BY <1>1 DEF Proper, FrameInv, CounterInv
<1>3. ASSUME NEW b \in Bufs, free[b] > 0, ~(FreeSlot < NEntries - 1) PROVE FALSE
  <2>. DEFINE S == 0 .. NEntries - 2
              T == Bufs \ {b}
              f == [i \in S |-> hash[i].buf]
  <2>1. NEntries \in Nat \ {0} /\ Entries = 0 .. NEntries - 1 /\ S \subseteq Entries
    BY DEF TypeInv, SizeInv
  <2>2. S \subseteq InUse
    BY <1>3, <2>1, FreeSlotFound DEF InUse, TypeInv
  <2>3. \A i \in InUse : hash[i].buf # b
    BY <1>1, <1>3, NotHeld
  <2>4. f \in [S -> T]
    BY <1>1, <2>2, <2>3
  <2>5. IsFiniteSet(T) /\ Cardinality(T) = Cardinality(Bufs) - 1
    BY NoBufAssumption, FS_RemoveElement
  <2>6. IsFiniteSet(S) /\ Cardinality(S) = NEntries - 1
    <3>1. 0 \in Int /\ NEntries - 2 \in Int
      BY <2>1
    <3>2. IsFiniteSet(S) /\ Cardinality(S) = IF 0 > NEntries - 2 THEN 0 ELSE NEntries - 2 - 0 + 1
      BY <3>1, FS_Interval, Zenon
    <3>3. (IF 0 > NEntries - 2 THEN 0 ELSE NEntries - 2 - 0 + 1) = NEntries - 1
      BY <2>1
    <3>. HIDE DEF S
    <3>. QED BY <3>2, <3>3
  <2>7. Cardinality(Bufs) \in Nat
    BY NoBufAssumption, FS_CardinalityType
  <2>8. Cardinality(T) < Cardinality(S)
    BY <2>1, <2>5, <2>6, <2>7 DEF Roomy
  <2>9. PICK x, y \in S : x # y /\ f[x] = f[y]
    <3>. HIDE DEF S, T, f
    <3>. QED BY <2>4, <2>5, <2>6, <2>8, FS_PigeonHole
  <2>. QED BY <1>2, <2>2, <2>9
<1>. QED BY <1>1, <1>2, <1>3

LEMMA RequestFrames ==
  ASSUME TypeInv, FrameInv, NEW b \in Bufs, Request(b)
  PROVE  FrameInv'
<1>1. TypeInv' /\ Entries' = Entries
  BY RequestTypes
<1>2. /\ buf[b].status \in Statuses /\ "TABLE_FULL" \in Statuses
      /\ "data" \in Kinds /\ "noack" \in Kinds /\ "cmd" \in Kinds
  BY DEF TypeInv, TypeOK, Statuses, Kinds
<1>3. /\ NEntries \in Nat \ {0} /\ NEntries - 1 \in Entries
      /\ FreeSlot < NEntries => FreeSlot \in Entries /\ hash[FreeSlot].state = "FREE"
  BY FreeSlotFound DEF TypeInv, SizeInv
<1>4. TRUE \in BOOLEAN /\ FALSE \in BOOLEAN
  OBVIOUS
<1>5. CASE DataRequestNoAck(b)
  <2>1. /\ Compose(b, "noack", buf[b].status) /\ PassToNwk(b, aps_counter)
        /\ UNCHANGED <<hash, up, air, passed>>
    BY <1>5 DEF DataRequestNoAck, tableVars
  <2>. QED BY <1>1, <1>2, <1>4, <2>1, NewFrame
<1>6. CASE DataRequest(b)
  <2>1. /\ Compose(b, "data", buf[b].status) /\ PassToNwk(b, aps_counter)
        /\ UNCHANGED <<up, air, passed>>
        /\ IF FreeSlot < NEntries THEN hash' = Filled(FreeSlot, b) ELSE hash' = hash
    BY <1>6 DEF DataRequest
  <2>2. CASE FreeSlot < NEntries
    BY <1>1, <1>2, <1>3, <1>4, <2>1, <2>2, NewFrame
  <2>3. CASE ~(FreeSlot < NEntries)
    BY <1>1, <1>2, <1>4, <2>1, <2>3, NewFrame
  <2>. QED BY <2>2, <2>3
<1>7. CASE DataRequestTableFull(b)
  <2>1. /\ Compose(b, "data", "TABLE_FULL") /\ up' = [up EXCEPT ![b] = @ + 1]
        /\ UNCHANGED <<nwk, handed, air, passed>>
        /\ FreeSlot = NEntries - 1 /\ hash' = Filled(FreeSlot, b)
    BY <1>7 DEF DataRequestTableFull
  <2>2. ~Roomy /\ FreeSlot \in Entries /\ hash[FreeSlot].state = "FREE" /\ "data" # "noack"
    <3>1. free[b] > 0
      BY <2>1 DEF Compose
    <3>. QED BY <1>3, <2>1, <3>1, RoomySlots
  <2>. DEFINE st == "TABLE_FULL"
  <2>3. st \in Statuses /\ Compose(b, "data", st) /\ st = "TABLE_FULL"
    BY <1>2, <2>1
  <2>. HIDE DEF st
  <2>. QED BY <1>1, <1>2, <1>4, <2>1, <2>2, <2>3, NewFrame
<1>8. CASE SendCommand(b)
  <2>1. /\ Compose(b, "cmd", buf[b].status) /\ PassToNwk(b, aps_counter)
        /\ UNCHANGED <<up, air, passed>>
    BY <1>8 DEF SendCommand
  <2>2. CASE FreeSlot < NEntries /\ hash' = Filled(FreeSlot, b)
    BY <1>1, <1>2, <1>3, <1>4, <2>1, <2>2, NewFrame
  <2>3. CASE UNCHANGED hash
    BY <1>1, <1>2, <1>4, <2>1, <2>3, NewFrame
  <2>. QED BY <1>8, <2>2, <2>3 DEF SendCommand, tableVars
<1>. QED BY <1>5, <1>6, <1>7, <1>8 DEF Request

\* A finished entry i: NWK has returned its buffer, or the entry kept it.
LEMMA FinishedFrames ==
  ASSUME TypeInv, FrameInv, TypeInv', Entries' = Entries,
         NEW i \in InUse, NEW kind, NEW status \in Statuses, NEW pending \in [Entries -> Nat],
         DoneWithThisAck(i, kind, status, pending),
         \/ hash[i].state = "CONFIRMED" /\ UNCHANGED nwk
         \/ hash[i].state = "ACKED" /\ nwk' = [nwk EXCEPT ![hash[i].buf] = @ - 1],
         status = "OK" => Proper(i) /\ hash[i].ctr \in passed,
         air' \subseteq air, UNCHANGED <<aps_counter, handed, passed>>
  PROVE  FrameInv'
<1>0. PICK b \in Bufs : b = hash[i].buf
  BY DoneEffect DEF InUse
<1>1. /\ i \in Entries
      /\ hash'[i].state = "FREE" /\ hash'[i].buf = NoBuf
      /\ \A j \in Entries \ {i} : hash'[j] = hash[j]
      /\ free'[b] + up'[b] = free[b] + up[b] + 1
      /\ free'[b] >= free[b] /\ up'[b] >= up[b]
      /\ \A c \in Bufs \ {b} : free'[c] = free[c] /\ up'[c] = up[c] /\ buf'[c] = buf[c]
      /\ buf'[b].frame = buf[b].frame /\ buf'[b].status = status
  BY <1>0, DoneEffect DEF InUse
<1>2. \A c \in Bufs : /\ free[c] \in Nat /\ nwk[c] \in Nat /\ up[c] \in Nat
                      /\ free'[c] \in Nat /\ nwk'[c] \in Nat /\ up'[c] \in Nat
                      /\ Kept(c) => free[c] = 0 /\ nwk[c] = 0 /\ up[c] = 0
                      /\ ~Kept(c) => free[c] + nwk[c] + up[c] = 1
  BY DEF TypeInv, TypeOK, FrameInv, HolderInv
<1>3. InUse' = InUse \ {i} /\ \A j \in InUse' : hash'[j] = hash[j]
  BY <1>1 DEF InUse
<1>4. \A c \in Bufs \ {b} : nwk'[c] = nwk[c] /\ (Kept(c)' <=> Kept(c))
  <2>1. \A c \in Bufs \ {b} : nwk'[c] = nwk[c]
    BY <1>0 DEF TypeInv, TypeOK
  <2>2. \A c \in Bufs \ {b} : Kept(c)' <=> Kept(c)
    BY <1>0, <1>1, NoBufAssumption DEF Kept
  <2>. QED BY <2>1, <2>2
<1>5. /\ ~Busy(b)' /\ free[b] = 0 /\ up[b] = 0
      /\ \A j \in InUse \ {i} : hash[j].buf = b => ~Proper(j)
  <2>0. /\ free[b] \in Nat /\ nwk[b] \in Nat /\ up[b] \in Nat
        /\ Kept(b) => free[b] = 0 /\ nwk[b] = 0 /\ up[b] = 0
        /\ ~Kept(b) => free[b] + nwk[b] + up[b] = 1
    BY <1>2
  <2>1. \A j \in InUse \ {i} : hash[j].ctr # hash[i].ctr
    BY DEF FrameInv, CounterInv
  <2>2. CASE hash[i].state = "CONFIRMED"
    <3>0. Kept(b)
      BY <1>0, <1>1, <2>2 DEF Kept
    <3>1. nwk[b] = 0 /\ free[b] = 0 /\ up[b] = 0
      BY <2>0, <3>0
    <3>2. \A j \in Entries \ {i} : hash[j].buf = b => hash[j].state # "CONFIRMED"
      BY <1>0, <1>1, <2>2 DEF FrameInv, HolderInv
    <3>3. nwk'[b] = 0 /\ ~Kept(b)'
      <4>1. nwk' = nwk
        BY <2>2
      <4>2. ~Kept(b)'
        BY <1>1, <3>2 DEF Kept
      <4>. QED BY <3>1, <4>1, <4>2
    <3>. QED BY <3>0, <3>1, <3>2, <3>3 DEF Busy, Proper, InUse
  <2>3. CASE hash[i].state = "ACKED" /\ nwk' = [nwk EXCEPT ![b] = @ - 1]
    <3>1. Proper(i)
      BY <2>3 DEF FrameInv, EntryInv, Unsent
    <3>2. nwk[b] = 1 /\ nwk'[b] = 0
      BY <1>0, <1>1, <2>3, <3>1 DEF Proper, TypeInv, TypeOK
    <3>3. ~Kept(b) /\ free[b] = 0 /\ up[b] = 0
      BY <2>0, <3>2
    <3>4. ~Kept(b)'
      BY <1>1, <3>3, NoBufAssumption DEF Kept
    <3>. QED BY <1>0, <2>1, <3>1, <3>2, <3>3, <3>4 DEF Busy, Proper
  <2>. QED BY <1>0, <2>2, <2>3
<1>6. \A c \in Bufs : Busy(c)' => c # b /\ Busy(c)
  BY <1>4, <1>5 DEF Busy
<1>7. \A c \in Bufs : buf'[c].frame = buf[c].frame
  BY <1>1
<1>8. CounterInv'
  BY <1>3, <1>6, <1>7 DEF FrameInv, CounterInv
<1>9. EntryInv'
  <2>0. NEntries' = NEntries /\ (Roomy <=> Roomy')
    BY SameEntries
  <2>1. ASSUME NEW j \in InUse', Unsent(j) PROVE Unsent(j)'
    BY <1>3, <1>6, <1>7, <2>0, <2>1 DEF Unsent
  <2>2. ASSUME NEW j \in InUse', Proper(j) PROVE Proper(j)'
    <3>1. hash[j].buf \in Bufs \ {b}
      BY <1>3, <1>5, <2>2 DEF InUse, TypeInv, UseInv, TypeOK
    <3>. QED BY <1>3, <1>4, <1>7, <2>2, <3>1 DEF Proper
  <2>. QED BY <1>3, <2>1, <2>2 DEF EntryInv, FrameInv
<1>10. HolderInv'
  <2>1. ASSUME NEW c \in Bufs
        PROVE  /\ Kept(c)' => free'[c] = 0 /\ nwk'[c] = 0 /\ up'[c] = 0
               /\ ~Kept(c)' => free'[c] + nwk'[c] + up'[c] = 1
    <3>1. CASE c = b
      BY <1>1, <1>2, <1>5, <3>1 DEF Busy
    <3>2. CASE c # b
      BY <1>1, <1>2, <1>4, <3>2
    <3>. QED BY <3>1, <3>2
  <2>2. \A j \in Entries : hash'[j].state = "CONFIRMED" => j # i /\ hash'[j] = hash[j]
    BY <1>1
  <2>. QED BY <2>1, <2>2 DEF HolderInv, FrameInv
<1>11. AckedInv'
  BY <1>3 DEF AckedInv, FrameInv
<1>12. SendsInv'
  BY <1>3 DEF SendsInv, FrameInv, SendsBounded
<1>13. OkMeansDelivered'
  BY <1>0, <1>1, <1>5 DEF FrameInv, OkMeansDelivered, Proper
<1>. QED BY <1>8, <1>9, <1>10, <1>11, <1>12, <1>13 DEF FrameInv

\* A step that moves a frame that is not to be acknowledged, or that no entry
\* waits for, on from NWK, or a buffer back to its sender.
LEMMA BufferMoves ==
  ASSUME TypeInv, FrameInv, TypeInv', UNCHANGED <<hash, buf, aps_counter, handed, air, passed>>,
         NEW b \in Bufs,
         \/ /\ nwk[b] > 0 /\ nwk' = [nwk EXCEPT ![b] = @ - 1]
            /\ \/ buf[b].frame.type = "noack" /\ up' = [up EXCEPT ![b] = @ + 1] /\ UNCHANGED free
               \/ (\A i \in Entries : hash[i].buf # b) /\ free' = [free EXCEPT ![b] = @ + 1] /\ UNCHANGED up
         \/ /\ up[b] > 0 /\ up' = [up EXCEPT ![b] = @ - 1]
            /\ free' = [free EXCEPT ![b] = @ + 1] /\ UNCHANGED nwk
  PROVE  FrameInv'
<1>0. /\ free \in [Bufs -> Nat] /\ nwk \in [Bufs -> Nat] /\ up \in [Bufs -> Nat]
      /\ Kept(b) => free[b] = 0 /\ nwk[b] = 0 /\ up[b] = 0
      /\ ~Kept(b) => free[b] + nwk[b] + up[b] = 1
  BY DEF TypeInv, TypeOK, FrameInv, HolderInv
<1>1. ~Kept(b) /\ nwk'[b] = 0 /\ free'[b] + up'[b] = 1
  <2>1. free[b] \in Nat /\ nwk[b] \in Nat /\ up[b] \in Nat
    BY <1>0
  <2>2. ~Kept(b) /\ free[b] + nwk[b] + up[b] = 1
    BY <1>0, <2>1
  <2>3. CASE nwk[b] > 0 /\ nwk' = [nwk EXCEPT ![b] = @ - 1]
    <3>1. nwk[b] = 1 /\ free[b] = 0 /\ up[b] = 0 /\ nwk'[b] = 0
      BY <1>0, <2>1, <2>2, <2>3
    <3>2. free'[b] + up'[b] = 1
      BY <1>0, <2>3, <3>1
    <3>. QED BY <2>2, <3>1, <3>2
  <2>4. CASE /\ up[b] > 0 /\ up' = [up EXCEPT ![b] = @ - 1]
             /\ free' = [free EXCEPT ![b] = @ + 1] /\ UNCHANGED nwk
    <3>1. nwk[b] = 0 /\ free[b] = 0 /\ up[b] = 1
      BY <2>1, <2>2, <2>4
    <3>2. nwk'[b] = 0 /\ free'[b] = 1 /\ up'[b] = 0
      BY <1>0, <2>4, <3>1
    <3>. QED BY <2>2, <3>2
  <2>. QED BY <2>3, <2>4
<1>2. \A c \in Bufs \ {b} : free'[c] = free[c] /\ nwk'[c] = nwk[c] /\ up'[c] = up[c]
  BY <1>0
<1>3. /\ Entries' = Entries /\ InUse' = InUse /\ NEntries' = NEntries /\ (Roomy <=> Roomy')
      /\ \A c \in Bufs : Kept(c)' <=> Kept(c)
  BY DEF Entries, InUse, NEntries, Roomy, Kept
<1>4. \A c \in Bufs : Busy(c)' => c # b /\ Busy(c)
  BY <1>1, <1>2, <1>3 DEF Busy
<1>5. \A i \in InUse : hash[i].buf = b => ~Proper(i)
  <2>1. CASE \A i \in Entries : hash[i].buf # b
    BY <2>1 DEF InUse
  <2>2. CASE buf[b].frame.type = "noack"
    BY <2>2 DEF Proper
  <2>3. CASE up[b] > 0
    BY <2>3, NotHeld
  <2>. QED BY <2>1, <2>2, <2>3
<1>6. CounterInv'
  BY <1>3, <1>4 DEF FrameInv, CounterInv
<1>7. EntryInv'
  <2>1. ASSUME NEW j \in InUse, Unsent(j) PROVE Unsent(j)'
    BY <1>3, <1>4, <2>1 DEF Unsent
  <2>2. ASSUME NEW j \in InUse, Proper(j) PROVE Proper(j)'
    <3>1. hash[j].buf \in Bufs \ {b}
      BY <1>5, <2>2 DEF InUse, TypeInv, UseInv, TypeOK
    <3>. QED BY <1>2, <2>2, <3>1 DEF Proper
  <2>. QED BY <1>3, <2>1, <2>2 DEF EntryInv, FrameInv
<1>8. HolderInv'
  <2>1. ASSUME NEW c \in Bufs
        PROVE  /\ Kept(c)' => free'[c] = 0 /\ nwk'[c] = 0 /\ up'[c] = 0
               /\ ~Kept(c)' => free'[c] + nwk'[c] + up'[c] = 1
    <3>1. CASE c = b
      <4>1. free'[b] \in Nat /\ nwk'[b] \in Nat /\ up'[b] \in Nat
        BY DEF TypeInv, TypeOK
      <4>. QED BY <1>1, <1>3, <3>1, <4>1
    <3>2. CASE c # b
      BY <1>2, <1>3, <3>2 DEF FrameInv, HolderInv
    <3>. QED BY <3>1, <3>2
  <2>. QED BY <1>3, <2>1 DEF HolderInv, FrameInv
<1>9. AckedInv' /\ SendsInv'
  BY <1>3 DEF AckedInv, SendsInv, SendsBounded, FrameInv
<1>10. OkMeansDelivered'
  <2>1. \A c \in Bufs : up'[c] > 0 => \/ up[c] > 0 \/ buf[c].frame.type = "noack"
    BY <1>0, <1>2
  <2>. QED BY <2>1 DEF FrameInv, OkMeansDelivered
<1>. QED BY <1>6, <1>7, <1>8, <1>9, <1>10 DEF FrameInv

\* A step that only adds frames NWK sends to the air, or takes frames off it and
\* puts an ACK of a frame the peer passed up there.
LEMMA AirMoves ==
  ASSUME TypeInv, FrameInv, TypeInv', UNCHANGED sendVars, passed \subseteq passed',
         \A f \in air' : \/ f \in air
                         \/ \E b \in Bufs : Busy(b) /\ f = buf[b].frame
                         \/ f.ctr \in passed' /\ \E g \in air : f.ctr = g.ctr
  PROVE  FrameInv'
<1>1. /\ UNCHANGED <<hash, alarms, aps_counter, buf, free, nwk, up, handed>>
      /\ Entries' = Entries /\ InUse' = InUse /\ NEntries' = NEntries /\ (Roomy <=> Roomy')
      /\ \A c \in Bufs : (Kept(c)' <=> Kept(c)) /\ (Busy(c)' <=> Busy(c))
  BY DEF sendVars, tableVars, Entries, InUse, NEntries, Roomy, Kept, Busy
<1>2. CounterInv'
  BY <1>1 DEF FrameInv, CounterInv
<1>3. EntryInv'
  <2>1. ASSUME NEW j \in InUse, Unsent(j) PROVE Unsent(j)'
    BY <1>1, <2>1 DEF Unsent
  <2>2. ASSUME NEW j \in InUse, Proper(j) PROVE Proper(j)'
    BY <1>1, <2>2 DEF Proper
  <2>. QED BY <1>1, <2>1, <2>2 DEF EntryInv, FrameInv
<1>4. HolderInv'
  BY <1>1 DEF HolderInv, FrameInv
<1>5. AckedInv'
  <2>1. \A b \in Bufs : buf[b].frame \notin Acks
    BY DEF TypeInv, TypeOK, Frames, Kinds, Acks
  <2>. QED BY <1>1, <2>1 DEF AckedInv, FrameInv
<1>6. SendsInv' /\ OkMeansDelivered'
  BY <1>1 DEF SendsInv, SendsBounded, OkMeansDelivered, FrameInv
<1>. QED BY <1>2, <1>3, <1>4, <1>5, <1>6 DEF FrameInv

\* NWK confirms a frame whose entry waits, or its entry's frame is acknowledged.
LEMMA StateChange ==
  ASSUME TypeInv, FrameInv, TypeInv', NEW i \in InUse, NEW b \in Bufs, b = hash[i].buf,
         hash[i].state = "NOT_CONFIRMED", NEW st \in {"ACKED", "CONFIRMED"},
         hash' = [hash EXCEPT ![i].state = st],
         st = "ACKED" => Proper(i) /\ hash[i].ctr \in passed /\ UNCHANGED nwk,
         st = "CONFIRMED" => /\ nwk[b] > 0 /\ nwk' = [nwk EXCEPT ![b] = @ - 1]
                             /\ \A j \in InUse \ {i} : hash[j].buf = b => ~Proper(j),
         air' \subseteq air, UNCHANGED <<aps_counter, buf, free, up, handed, passed>>
  PROVE  FrameInv'
<1>1. /\ Entries' = Entries /\ NEntries' = NEntries /\ (Roomy <=> Roomy')
      /\ i \in Entries /\ InUse' = InUse
      /\ \A j \in InUse : /\ hash'[j].ctr = hash[j].ctr /\ hash'[j].buf = hash[j].buf
                          /\ hash'[j].retries = hash[j].retries
                          /\ j # i => hash'[j].state = hash[j].state
      /\ hash'[i].state = st
      /\ \A j \in Entries \ {i} : hash'[j] = hash[j]
  BY DEF Entries, NEntries, Roomy, InUse, TypeInv, TypeOK
<1>2. /\ free \in [Bufs -> Nat] /\ nwk \in [Bufs -> Nat] /\ up \in [Bufs -> Nat]
      /\ Kept(b) => free[b] = 0 /\ nwk[b] = 0 /\ up[b] = 0
      /\ ~Kept(b) => free[b] + nwk[b] + up[b] = 1
  BY DEF TypeInv, TypeOK, FrameInv, HolderInv
<1>3. \A c \in Bufs \ {b} : nwk'[c] = nwk[c] /\ (Kept(c)' <=> Kept(c))
  <2>1. \A c \in Bufs \ {b} : nwk'[c] = nwk[c]
    BY <1>2
  <2>2. \A c \in Bufs \ {b} : Kept(c)' <=> Kept(c)
    BY <1>1 DEF Kept, InUse
  <2>. QED BY <2>1, <2>2
<1>4. /\ ~Kept(b)
      /\ st = "ACKED" => ~Kept(b)' /\ nwk' = nwk
      /\ st = "CONFIRMED" => Kept(b)' /\ nwk[b] = 1 /\ nwk'[b] = 0 /\ free[b] = 0 /\ up[b] = 0
  <2>0. free[b] \in Nat /\ nwk[b] \in Nat /\ up[b] \in Nat
    BY <1>2
  <2>1. nwk[b] > 0
    BY <2>0 DEF Proper
  <2>2. ~Kept(b)
    BY <1>2, <2>1
  <2>3. nwk[b] = 1 /\ free[b] = 0 /\ up[b] = 0
    BY <1>2, <2>0, <2>1, <2>2
  <2>4. ASSUME st = "ACKED" PROVE ~Kept(b)' /\ nwk' = nwk
    BY <1>1, <2>2, <2>4 DEF Kept
  <2>5. ASSUME st = "CONFIRMED" PROVE Kept(b)' /\ nwk'[b] = 0
    BY <1>1, <1>2, <2>3, <2>5 DEF Kept, InUse
  <2>. QED BY <2>2, <2>3, <2>4, <2>5
<1>5. \A c \in Bufs : Busy(c)' => Busy(c)
  BY <1>3, <1>4 DEF Busy
<1>6. CounterInv'
  BY <1>1, <1>5 DEF FrameInv, CounterInv
<1>7. EntryInv'
  <2>1. ASSUME NEW j \in InUse, Unsent(j), j # i \/ st = "CONFIRMED" PROVE Unsent(j)'
    <3>1. hash'[j].state # "ACKED" /\ hash'[j].ctr = hash[j].ctr
      BY <1>1, <2>1 DEF Unsent
    <3>. QED BY <1>1, <1>5, <2>1, <3>1 DEF Unsent
  <2>2. ASSUME NEW j \in InUse, Proper(j) PROVE Proper(j)'
    <3>1. hash[j].buf \in Bufs
      BY DEF InUse, TypeInv, UseInv, TypeOK
    <3>2. CASE hash[j].buf # b
      <4>1. j # i /\ nwk'[hash[j].buf] = nwk[hash[j].buf] /\ hash'[j].state = hash[j].state
        BY <1>1, <1>3, <3>1, <3>2
      <4>. QED BY <1>1, <2>2, <4>1 DEF Proper
    <3>3. CASE hash[j].buf = b /\ st = "CONFIRMED"
      <4>1. j = i
        BY <2>2, <3>3
      <4>. QED BY <1>1, <2>2, <3>3, <4>1 DEF Proper
    <3>4. CASE hash[j].buf = b /\ st = "ACKED"
      <4>1. nwk[b] = 1
        BY <3>4 DEF Proper
      <4>. QED BY <1>1, <1>4, <2>2, <3>4, <4>1 DEF Proper
    <3>. QED BY <3>2, <3>3, <3>4
  <2>3. st = "ACKED" => Proper(i)
    OBVIOUS
  <2>. QED BY <1>1, <2>1, <2>2, <2>3 DEF EntryInv, FrameInv
<1>8. HolderInv'
  <2>1. ASSUME NEW c \in Bufs
        PROVE  /\ Kept(c)' => free'[c] = 0 /\ nwk'[c] = 0 /\ up'[c] = 0
               /\ ~Kept(c)' => free'[c] + nwk'[c] + up'[c] = 1
    <3>1. CASE c = b
      BY <1>2, <1>4, <3>1
    <3>2. CASE c # b
      BY <1>3, <3>2 DEF FrameInv, HolderInv
    <3>. QED BY <3>1, <3>2
  <2>2. ASSUME NEW j \in Entries, NEW k \in Entries, hash'[j].state = "CONFIRMED",
               hash'[k].state = "CONFIRMED", hash'[j].buf = hash'[k].buf
        PROVE  j = k
    <3>1. \A l \in Entries \ {i} : hash[l].buf = b => hash[l].state # "CONFIRMED"
      BY <1>4 DEF Kept
    <3>2. hash'[i].buf = b
      BY <1>1
    <3>3. CASE j = i \/ k = i
      BY <1>1, <2>2, <3>1, <3>2, <3>3
    <3>4. CASE j # i /\ k # i
      BY <1>1, <2>2, <3>4 DEF FrameInv, HolderInv
    <3>. QED BY <3>3, <3>4
  <2>. QED BY <1>1, <2>1, <2>2 DEF HolderInv
<1>9. AckedInv'
  BY <1>1 DEF AckedInv, FrameInv
<1>10. SendsInv' /\ OkMeansDelivered'
  BY <1>1 DEF SendsInv, SendsBounded, OkMeansDelivered, FrameInv
<1>. QED BY <1>6, <1>7, <1>8, <1>9, <1>10 DEF FrameInv

\* The timer of entry i hands its frame down again, or only counts.
LEMMA TimerCounts ==
  ASSUME TypeInv, FrameInv, TypeInv', NEW i \in Entries, NEW b, b = hash[i].buf,
         NEW st, NEW n \in Nat, n <= hash[i].retries,
         Entries' = Entries, \A j \in Entries \ {i} : hash'[j] = hash[j],
         hash'[i].ctr = hash[i].ctr, hash'[i].buf = hash[i].buf,
         hash'[i].state = st, hash'[i].retries = n, st = "FREE" <=> i \notin InUse,
         \/ /\ i \in InUse /\ hash[i].state = "CONFIRMED" /\ st = "NOT_CONFIRMED"
            /\ n > 0 /\ n = hash[i].retries - 1 /\ PassToNwk(b, hash[i].ctr)
         \/ st = hash[i].state /\ UNCHANGED <<nwk, handed>>,
         UNCHANGED <<aps_counter, buf, free, up, air, passed>>
  PROVE  FrameInv'
<1>0. hash \in [Entries -> EntryRecords]
  BY DEF TypeInv, TypeOK, EntryRecords
<1>1. /\ Entries' = Entries /\ NEntries' = NEntries /\ (Roomy <=> Roomy')
      /\ InUse' = InUse /\ InUse \subseteq Entries
      /\ \A j \in InUse : hash'[j].ctr = hash[j].ctr /\ hash'[j].buf = hash[j].buf
      /\ \A j \in Entries \ {i} : hash'[j] = hash[j]
      /\ hash'[i].ctr = hash[i].ctr /\ hash'[i].buf = hash[i].buf
      /\ hash'[i].state = st /\ hash'[i].retries = n
  BY <1>0 DEF NEntries, Roomy, InUse, EntryRecords
<1>2. CASE st = hash[i].state /\ UNCHANGED <<nwk, handed>>
  <2>1. \A j \in Entries : hash'[j].state = hash[j].state /\ hash'[j].retries <= hash[j].retries
    BY <1>0, <1>1, <1>2 DEF EntryRecords, Upto
  <2>2. \A c \in Bufs : (Kept(c)' <=> Kept(c)) /\ (Busy(c)' <=> Busy(c))
    BY <1>1, <1>2, <2>1 DEF Kept, Busy
  <2>3. CounterInv'
    BY <1>1, <2>2 DEF FrameInv, CounterInv
  <2>4. EntryInv'
    <3>1. \A j \in InUse : Proper(j) => Proper(j)'
      BY <1>1, <1>2, <2>1 DEF Proper, InUse
    <3>2. \A j \in InUse : Unsent(j) => Unsent(j)'
      BY <1>1, <2>1, <2>2 DEF Unsent, InUse
    <3>. QED BY <1>1, <3>1, <3>2 DEF EntryInv, FrameInv
  <2>5. HolderInv'
    BY <1>1, <1>2, <2>1, <2>2 DEF HolderInv, FrameInv
  <2>6. AckedInv' /\ OkMeansDelivered'
    BY <1>1, <2>1 DEF AckedInv, OkMeansDelivered, FrameInv, InUse
  <2>7. SendsInv'
    <3>1. \A j \in InUse : /\ hash'[j].retries \in Nat /\ hash[j].retries \in Nat
                           /\ handed[hash[j].ctr] \in Nat
      BY <1>0, <1>1, SizeAssumption DEF EntryRecords, Upto, TypeInv, TypeOK, InUse
    <3>. QED BY <1>1, <1>2, <2>1, <3>1, SizeAssumption DEF SendsInv, SendsBounded, FrameInv, InUse
  <2>. QED BY <2>3, <2>4, <2>5, <2>6, <2>7 DEF FrameInv
<1>3. CASE /\ i \in InUse /\ hash[i].state = "CONFIRMED" /\ st = "NOT_CONFIRMED"
           /\ n > 0 /\ n = hash[i].retries - 1 /\ PassToNwk(b, hash[i].ctr)
  <2>1. b \in Bufs /\ Kept(b) /\ hash[i].ctr \in Counters
    BY <1>0, <1>3 DEF Kept, TypeInv, UseInv, EntryRecords, InUse
  <2>2. nwk[b] = 0 /\ free[b] = 0 /\ up[b] = 0
    BY <2>1 DEF FrameInv, HolderInv
  <2>3. /\ nwk'[b] = 1 /\ \A c \in Bufs \ {b} : nwk'[c] = nwk[c]
        /\ handed'[hash[i].ctr] = handed[hash[i].ctr] + 1
        /\ \A c \in Counters \ {hash[i].ctr} : handed'[c] = handed[c]
    BY <1>3, <2>1, <2>2, PassEffect
  <2>4. \A j \in Entries \ {i} : hash[j].buf = b => hash[j].state # "CONFIRMED"
    BY <1>3 DEF FrameInv, HolderInv, InUse
  <2>5. ~Kept(b)' /\ \A c \in Bufs \ {b} : Kept(c)' <=> Kept(c)
    BY <1>1, <1>3, <2>4 DEF Kept
  <2>6. \A c \in Bufs : Busy(c)' => Busy(c)
    BY <2>1, <2>3, <2>5 DEF Busy
  <2>7. CounterInv'
    BY <1>1, <2>6 DEF FrameInv, CounterInv
  <2>8. EntryInv'
    <3>1. \A j \in InUse : Unsent(j) => Unsent(j)'
      <4>1. \A j \in InUse : hash[j].state # "ACKED" => hash'[j].state # "ACKED"
        BY <1>1, <1>3 DEF InUse
      <4>. QED BY <1>1, <2>6, <4>1 DEF Unsent, InUse
    <3>2. ASSUME NEW j \in InUse, Proper(j) PROVE Proper(j)'
      <4>1. CASE j = i
        BY <1>1, <1>3, <2>3, <3>2, <4>1 DEF Proper, InUse
      <4>2. CASE j # i
        <5>1. hash[j].buf \in Bufs \ {b}
          BY <2>2, <2>4, <3>2, <4>2 DEF Proper, InUse, TypeInv, UseInv, TypeOK
        <5>. QED BY <1>1, <2>3, <3>2, <4>2, <5>1 DEF Proper, InUse
      <4>. QED BY <4>1, <4>2
    <3>. QED BY <1>1, <3>1, <3>2 DEF EntryInv, FrameInv
  <2>9. HolderInv'
    <3>1. ASSUME NEW c \in Bufs
          PROVE  /\ Kept(c)' => free'[c] = 0 /\ nwk'[c] = 0 /\ up'[c] = 0
                 /\ ~Kept(c)' => free'[c] + nwk'[c] + up'[c] = 1
      <4>1. CASE c = b
        BY <2>2, <2>3, <2>5, <4>1
      <4>2. CASE c # b
        BY <2>3, <2>5, <4>2 DEF FrameInv, HolderInv
      <4>. QED BY <4>1, <4>2
    <3>2. \A j \in Entries : hash'[j].state = "CONFIRMED" => j # i /\ hash'[j] = hash[j]
      BY <1>1, <1>3
    <3>. QED BY <1>1, <3>1, <3>2 DEF HolderInv, FrameInv
  <2>10. AckedInv' /\ OkMeansDelivered'
    BY <1>1, <1>3 DEF AckedInv, OkMeansDelivered, FrameInv, InUse
  <2>11. SendsInv'
    <3>1. handed[hash[i].ctr] + hash[i].retries <= MaxRetries + 1
      BY <1>3 DEF FrameInv, SendsInv
    <3>2. handed[hash[i].ctr] \in Nat /\ hash[i].retries \in Nat /\ MaxRetries \in Nat
      BY <1>0, <2>1, SizeAssumption DEF EntryRecords, Upto, TypeInv, TypeOK
    <3>3. handed'[hash[i].ctr] + n <= MaxRetries + 1 /\ handed'[hash[i].ctr] <= MaxRetries
      BY <1>3, <2>3, <3>1, <3>2
    <3>4. \A c \in Counters : c >= aps_counter => handed'[c] = 0
      <4>1. ~(hash[i].ctr >= aps_counter)
        BY <1>3, <2>1, SizeAssumption DEF FrameInv, CounterInv, Counters, TypeInv, TypeOK, Upto
      <4>. QED BY <2>3, <4>1 DEF FrameInv, SendsInv
    <3>5. \A j \in InUse \ {i} : hash[j].ctr \in Counters \ {hash[i].ctr}
      BY <1>0, <1>3 DEF FrameInv, CounterInv, EntryRecords, InUse
    <3>6. \A j \in InUse : handed'[hash'[j].ctr] + hash'[j].retries <= MaxRetries + 1
      BY <1>1, <2>3, <3>3, <3>5 DEF FrameInv, SendsInv, InUse
    <3>7. \A c \in Counters : handed'[c] <= MaxRetries
      BY <2>3, <3>3 DEF FrameInv, SendsInv, SendsBounded
    <3>. QED BY <1>1, <3>4, <3>6, <3>7 DEF SendsInv, SendsBounded
  <2>. QED BY <2>7, <2>8, <2>9, <2>10, <2>11 DEF FrameInv
<1>. QED BY <1>2, <1>3

LEMMA TimerFrames ==
  ASSUME TypeInv, FrameInv, TypeInv', NEW i \in Entries, AckTimerCb(i)
  PROVE  FrameInv'
<1>. DEFINE b == hash[i].buf
            rest == [alarms EXCEPT ![i] = @ - 1]
<1>t. /\ hash \in [Entries -> EntryRecords] /\ alarms \in [Entries -> Nat] /\ alarms[i] > 0
      /\ hash[i].retries \in Nat /\ TimerRetries(i) \in Nat /\ TimerRetries(i) <= hash[i].retries
      /\ TimerRetries(i) # 0 => TimerRetries(i) = hash[i].retries - 1
      /\ UNCHANGED <<aps_counter, air, passed>>
  <2>1. hash \in [Entries -> EntryRecords] /\ hash[i].retries \in 0 .. MaxRetries
    BY DEF TypeInv, TypeOK, EntryRecords, Upto
  <2>. QED BY <2>1, SizeAssumption DEF TypeInv, TypeOK, TimerRetries, Lowered, AckTimerCb
<1>1. CASE /\ hash[i].state = "CONFIRMED" /\ UNCHANGED <<nwk, handed>>
           /\ DoneWithThisAck(i, buf[b].frame.type, "NO_ACK", rest)
  <2>1. "NO_ACK" \in Statuses /\ rest \in [Entries -> Nat] /\ i \in InUse /\ "NO_ACK" # "OK"
    BY <1>t, <1>1 DEF Statuses, InUse
  <2>2. Entries' = Entries
    BY <1>1 DEF DoneWithThisAck, Entries
  <2>. HIDE DEF b, rest
  <2>. QED BY <1>1, <1>t, <2>1, <2>2, FinishedFrames
<1>2. CASE /\ TimerRetries(i) # 0 /\ hash[i].state = "CONFIRMED" /\ PassToNwk(b, hash[i].ctr)
           /\ hash' = [hash EXCEPT ![i].state = "NOT_CONFIRMED", ![i].retries = TimerRetries(i)]
           /\ UNCHANGED <<alarms, buf, free, up>>
  <2>1. /\ Entries' = Entries /\ \A j \in Entries \ {i} : hash'[j] = hash[j]
        /\ hash'[i].ctr = hash[i].ctr /\ hash'[i].buf = hash[i].buf
        /\ hash'[i].state = "NOT_CONFIRMED" /\ hash'[i].retries = TimerRetries(i)
    BY <1>t, <1>2 DEF EntryRecords, Entries
  <2>2. i \in InUse /\ TimerRetries(i) > 0
    BY <1>t, <1>2 DEF InUse
  <2>. QED BY <1>t, <1>2, <2>1, <2>2, TimerCounts
<1>3. CASE /\ hash' = [hash EXCEPT ![i].retries = TimerRetries(i)]
           /\ UNCHANGED <<alarms, nwk, handed, buf, free, up>>
  <2>1. /\ Entries' = Entries /\ \A j \in Entries \ {i} : hash'[j] = hash[j]
        /\ hash'[i].ctr = hash[i].ctr /\ hash'[i].buf = hash[i].buf
        /\ hash'[i].state = hash[i].state /\ hash'[i].retries = TimerRetries(i)
    BY <1>t, <1>3 DEF EntryRecords, Entries
  <2>2. hash[i].state = "FREE" <=> i \notin InUse
    BY DEF InUse
  <2>. QED BY <1>t, <1>3, <2>1, <2>2, TimerCounts
<1>. QED BY <1>1, <1>2, <1>3 DEF AckTimerCb

LEMMA ConfirmFrames ==
  ASSUME TypeInv, FrameInv, TypeInv', NEW b \in Bufs,
         NldeConfirm(b) \/ NldeConfirmNoAck(b) \/ DataConfirm(b)
  PROVE  FrameInv'
<1>t. /\ SizeInv /\ UseInv /\ b # NoBuf /\ hash \in [Entries -> EntryRecords]
      /\ alarms \in [Entries -> Nat]
  BY NoBufAssumption DEF TypeInv, TypeOK, EntryRecords
<1>1. CASE NldeConfirmNoAck(b)
  BY <1>1, BufferMoves DEF NldeConfirmNoAck, tableVars
<1>2. CASE DataConfirm(b)
  BY <1>2, BufferMoves DEF DataConfirm, tableVars
<1>3. CASE NldeConfirm(b)
  <2>. DEFINE i == EntryOf(b)
  <2>0. /\ nwk[b] > 0 /\ nwk' = [nwk EXCEPT ![b] = @ - 1]
        /\ UNCHANGED <<aps_counter, handed, air, passed>>
    BY <1>3 DEF NldeConfirm
  <2>1. i < NEntries => i \in InUse /\ hash[i].buf = b /\ \A j \in InUse : hash[j].buf = b => i <= j
    BY <1>t, EntryOfFound DEF SizeInv, UseInv, InUse
  <2>2. CASE /\ i < NEntries /\ hash[i].state = "ACKED"
             /\ DoneWithThisAck(i, buf[b].frame.type, "OK", alarms)
    <3>1. "OK" \in Statuses /\ Entries' = Entries
      BY <2>2 DEF Statuses, DoneWithThisAck, Entries
    <3>2. Proper(i) /\ hash[i].ctr \in passed
      BY <2>1, <2>2 DEF FrameInv, EntryInv, Unsent, AckedInv
    <3>. HIDE DEF i
    <3>. QED BY <1>t, <2>0, <2>1, <2>2, <3>1, <3>2, FinishedFrames
  <2>3. CASE /\ i < NEntries /\ hash[i].state = "NOT_CONFIRMED"
             /\ hash' = [hash EXCEPT ![i].state = "CONFIRMED"]
             /\ UNCHANGED <<alarms, buf, free, up>>
    <3>1. \A j \in InUse \ {i} : hash[j].buf = b => ~Proper(j)
      <4>1. SUFFICES ASSUME NEW j \in InUse \ {i}, hash[j].buf = b, Proper(j) PROVE FALSE
        OBVIOUS
      <4>2. ~Proper(i)
        BY <2>1, <2>3, <4>1 DEF Proper, FrameInv, CounterInv
      <4>3. i = NEntries - 1
        BY <2>1, <2>3, <4>2 DEF FrameInv, EntryInv, Unsent
      <4>4. j \in 0 .. NEntries - 1 /\ i <= j /\ NEntries \in Nat
        BY <1>t, <2>1, <2>3, <4>1 DEF SizeInv, InUse
      <4>. QED BY <4>1, <4>3, <4>4
    <3>2. "CONFIRMED" \in {"ACKED", "CONFIRMED"} /\ "CONFIRMED" # "ACKED" /\ air' \subseteq air
      BY <2>0
    <3>. HIDE DEF i
    <3>. QED BY <2>0, <2>1, <2>3, <3>1, <3>2, StateChange
  <2>4. CASE /\ i = NEntries /\ free' = [free EXCEPT ![b] = @ + 1]
             /\ UNCHANGED <<tableVars, buf, up>>
    <3>1. \A j \in Entries : hash[j].buf # b
      BY <1>t, <2>4, EntryOfFound DEF SizeInv
    <3>. QED BY <2>0, <2>4, <3>1, BufferMoves DEF tableVars
  <2>. QED BY <1>3, <2>2, <2>3, <2>4 DEF NldeConfirm
<1>. QED BY <1>1, <1>2, <1>3

\* With a second ACK before the confirm of NWK the buffer NWK holds would be
\* given up (DoneWithThisAck of an acknowledged entry).
LEMMA AckFrames ==
  ASSUME ~RepeatedAcks, TypeInv, FrameInv, TypeInv', NEW a \in air \cap Acks, AckFrameHandle(a)
  PROVE  FrameInv'
<1>. DEFINE i == AckedEntry(a)
<1>t. /\ SizeInv /\ UseInv /\ hash \in [Entries -> EntryRecords] /\ alarms \in [Entries -> Nat]
  BY DEF TypeInv, TypeOK, EntryRecords
<1>0. air' = air \ {a} /\ UNCHANGED <<aps_counter, nwk, handed, passed>>
  BY DEF AckFrameHandle
<1>1. i < NEntries => i \in InUse /\ Proper(i) /\ hash[i].ctr \in passed /\ hash[i].buf \in Bufs
  <2>1. i < NEntries => i \in InUse /\ hash[i].ctr = a.ctr
    BY <1>t, AckedEntryFound DEF SizeInv, InUse
  <2>2. i < NEntries => Proper(i) /\ hash[i].ctr \in passed
    BY <2>1 DEF FrameInv, EntryInv, Unsent, AckedInv
  <2>3. i < NEntries => hash[i].buf \in Bufs
    BY <1>t, <2>1 DEF InUse, UseInv, EntryRecords
  <2>. QED BY <2>1, <2>2, <2>3
<1>2. CASE UNCHANGED <<tableVars, buf, free, up>>
  <2>1. UNCHANGED sendVars
    BY <1>0, <1>2 DEF sendVars
  <2>. QED BY <1>0, <2>1, AirMoves
<1>3. CASE /\ i < NEntries /\ hash[i].state = "NOT_CONFIRMED"
           /\ hash' = [hash EXCEPT ![i].state = "ACKED"]
           /\ UNCHANGED <<alarms, buf, free, up>>
  <2>1. "ACKED" \in {"ACKED", "CONFIRMED"} /\ "CONFIRMED" # "ACKED" /\ air' \subseteq air
    BY <1>0
  <2>. HIDE DEF i
  <2>. QED BY <1>0, <1>1, <1>3, <2>1, StateChange
<1>4. CASE /\ i < NEntries /\ hash[i].state \notin {"NOT_CONFIRMED", "ACKED"}
           /\ DoneWithThisAck(i, a.of, "OK", alarms)
  <2>1. "OK" \in Statuses /\ Entries' = Entries
    BY <1>4 DEF Statuses, DoneWithThisAck, Entries
  <2>2. hash[i].state = "CONFIRMED"
    BY <1>t, <1>1, <1>4 DEF InUse, EntryRecords
  <2>3. air' \subseteq air /\ UNCHANGED nwk
    BY <1>0
  <2>. HIDE DEF i
  <2>. QED BY <1>t, <1>0, <1>1, <1>4, <2>1, <2>2, <2>3, FinishedFrames
<1>. QED BY <1>2, <1>3, <1>4 DEF AckFrameHandle

LEMMA AirFrames ==
  ASSUME TypeInv, FrameInv, TypeInv',
         \/ \E b \in Bufs : Transmit(b)
         \/ \E f \in air \cap Frames : PeerIndication(f)
  PROVE  FrameInv'
<1>1. ASSUME NEW b \in Bufs, Transmit(b) PROVE FrameInv'
  BY <1>1, AirMoves DEF Transmit, Busy
<1>2. ASSUME NEW f \in air \cap Frames, PeerIndication(f) PROVE FrameInv'
  <2>1. Ack(f).ctr = f.ctr
    BY DEF Ack
  <2>. QED BY <1>2, <2>1, AirMoves DEF PeerIndication
<1>. QED BY <1>1, <1>2

LEMMA InitFrames == Init => FrameInv /\ AlarmPerEntry
<1>. SUFFICES ASSUME Init PROVE FrameInv /\ AlarmPerEntry
  OBVIOUS
<1>1. PICK n \in Sizes : hash = [i \in 0 .. n - 1 |-> FreeEntry]
  BY DEF Init
<1>2. \A i \in Entries : hash[i] = FreeEntry
  BY <1>1 DEF Entries
<1>t. /\ alarms = [i \in Entries |-> 0] /\ free = [b \in Bufs |-> 1]
      /\ nwk = [b \in Bufs |-> 0] /\ up = [b \in Bufs |-> 0]
      /\ \A i \in Entries : hash[i].state = "FREE"
  <2>1. \A i \in Entries : hash[i].state = "FREE"
    BY <1>2 DEF FreeEntry
  <2>. QED BY <2>1 DEF Init
<1>3. InUse = {} /\ \A b \in Bufs : ~Kept(b) /\ ~Busy(b)
  <2>1. InUse = {} /\ \A b \in Bufs : ~Kept(b)
    BY <1>t DEF InUse, Kept
  <2>2. \A b \in Bufs : ~(nwk[b] > 0)
    BY <1>t
  <2>. QED BY <2>1, <2>2 DEF Busy
<1>4. CounterInv /\ EntryInv /\ AckedInv /\ OkMeansDelivered
  BY <1>3 DEF CounterInv, EntryInv, AckedInv, OkMeansDelivered, Init
<1>5. HolderInv
  BY <1>t, <1>3 DEF HolderInv
<1>6. SendsInv
  BY <1>3, SizeAssumption DEF SendsInv, SendsBounded, Init
<1>7. AlarmPerEntry
  BY <1>t DEF AlarmPerEntry
<1>. QED BY <1>4, <1>5, <1>6, <1>7 DEF FrameInv

-----------------------------------------------------------------------------
\* One alarm per waiting entry, state by state.
Alarmed(i) == /\ hash[i].state = "FREE" => alarms[i] = 0
              /\ hash[i].state # "FREE" => alarms[i] = 1

LEMMA AlarmCases ==
  /\ AlarmPerEntry <=> (Roomy => \A i \in Entries : Alarmed(i))
  /\ AlarmPerEntry' <=> (Roomy' => \A i \in Entries' : Alarmed(i)')
BY DEF AlarmPerEntry, Alarmed

\* A new entry gets its alarm: a request that finds a free buffer finds a free
\* entry that is not the last one.
LEMMA RequestAlarms ==
  ASSUME TypeInv, FrameInv, AlarmPerEntry, NEW b \in Bufs, Request(b)
  PROVE  AlarmPerEntry'
<1>0. Entries' = Entries /\ (Roomy' <=> Roomy)
  BY RequestTypes, SameEntries
<1>. SUFFICES ASSUME Roomy PROVE \A i \in Entries : Alarmed(i)'
  BY <1>0, AlarmCases
<1>1. /\ \A i \in Entries : Alarmed(i)
      /\ alarms \in [Entries -> Nat]
  BY AlarmCases DEF TypeInv, TypeOK
<1>2. \E kind \in Kinds, status \in Statuses : Compose(b, kind, status)
  BY DEF Request, DataRequestNoAck, DataRequest, DataRequestTableFull, SendCommand,
         Kinds, Statuses, TypeInv, TypeOK
<1>3. aps_counter \in Counters /\ free[b] > 0
  BY <1>2, ComposeEffect
<1>4. FreeSlot < NEntries - 1
  BY <1>3, RoomySlots
<1>5. NEntries \in Nat /\ FreeSlot \in Entries /\ FreeSlot \in Nat /\ hash[FreeSlot].state = "FREE"
  BY <1>4, FreeSlotFound DEF TypeInv, SizeInv
<1>6. CASE /\ hash' = Filled(FreeSlot, b)
           /\ alarms' = [alarms EXCEPT ![FreeSlot] = @ + 1]
  <2>0. PICK s \in Entries : s = FreeSlot
    BY <1>5
  <2>1. hash'[s].state # "FREE" /\ \A j \in Entries \ {s} : hash'[j] = hash[j]
    <3>1. hash' = Filled(s, b)
      BY <1>6, <2>0
    <3>2. /\ hash'[s] = [state |-> "NOT_CONFIRMED", buf |-> b, ctr |-> aps_counter,
                         retries |-> MaxRetries]
          /\ \A j \in Entries \ {s} : hash'[j] = hash[j]
      BY <1>3, <3>1, FillEffect
    <3>. QED BY <3>2
  <2>2. alarms'[s] = 1 /\ \A j \in Entries \ {s} : alarms'[j] = alarms[j]
    BY <1>1, <1>5, <1>6, <2>0 DEF Alarmed
  <2>3. Alarmed(s)'
    BY <2>1, <2>2 DEF Alarmed
  <2>4. \A j \in Entries \ {s} : Alarmed(j)'
    BY <1>1, <2>1, <2>2 DEF Alarmed
  <2>. QED BY <2>3, <2>4
<1>7. CASE UNCHANGED tableVars
  BY <1>1, <1>7 DEF Alarmed, tableVars
<1>8. FreeSlot < NEntries /\ FreeSlot # NEntries - 1
  BY <1>4, <1>5
<1>. QED BY <1>6, <1>7, <1>8 DEF Request, DataRequestNoAck, DataRequest, DataRequestTableFull,
                                 SendCommand

\* A finished entry loses the alarm it has, or had until its timer was called.
LEMMA DoneAlarms ==
  ASSUME TypeInv, \A j \in Entries : Alarmed(j), NEW i \in Entries, hash[i].state # "FREE",
         NEW kind, NEW status \in Statuses, NEW pending \in [Entries -> Nat],
         pending[i] \in {0, 1}, \A j \in Entries \ {i} : pending[j] = alarms[j],
         DoneWithThisAck(i, kind, status, pending)
  PROVE  \A j \in Entries : Alarmed(j)'
<1>1. /\ hash'[i].state = "FREE" /\ alarms'[i] = 0
      /\ \A j \in Entries \ {i} : hash'[j] = hash[j] /\ alarms'[j] = pending[j]
  BY DoneEffect DEF Lowered
<1>. QED BY <1>1 DEF Alarmed

LEMMA NextAlarms ==
  ASSUME TypeInv, FrameInv, AlarmPerEntry, TypeInv', [Next]_vars
  PROVE  AlarmPerEntry'
<1>0. Entries' = Entries /\ (Roomy' <=> Roomy)
  BY NextTypes, SameEntries
<1>r. ASSUME NEW b \in Bufs, Request(b) PROVE AlarmPerEntry'
  BY <1>r, RequestAlarms
<1>. SUFFICES ASSUME Roomy, ~ \E b \in Bufs : Request(b)
              PROVE  \A i \in Entries : Alarmed(i)'
  BY <1>0, <1>r, AlarmCases
<1>1. /\ \A i \in Entries : Alarmed(i) /\ alarms[i] \in {0, 1}
      /\ alarms \in [Entries -> Nat] /\ SizeInv /\ hash \in [Entries -> EntryRecords]
      /\ "OK" \in Statuses /\ "NO_ACK" \in Statuses
  <2>1. \A i \in Entries : Alarmed(i) /\ alarms[i] \in {0, 1}
    BY AlarmCases DEF Alarmed
  <2>. QED BY <2>1 DEF TypeInv, TypeOK, EntryRecords, Statuses
<1>2. CASE UNCHANGED tableVars
  BY <1>1, <1>2 DEF Alarmed, tableVars
<1>3. ASSUME NEW i \in Entries, hash[i].state # "FREE", NEW st, st # "FREE",
             hash' = [hash EXCEPT ![i].state = st], UNCHANGED alarms
      PROVE  \A j \in Entries : Alarmed(j)'
  BY <1>1, <1>3 DEF Alarmed, EntryRecords
<1>4. ASSUME NEW b \in Bufs, NldeConfirm(b) PROVE \A j \in Entries : Alarmed(j)'
  <2>. DEFINE i == EntryOf(b)
  <2>1. i < NEntries => i \in Entries
    BY <1>1, EntryOfFound DEF SizeInv
  <2>2. CASE /\ i < NEntries /\ hash[i].state = "ACKED"
             /\ DoneWithThisAck(i, buf[b].frame.type, "OK", alarms)
    <3>. HIDE DEF i
    <3>. QED BY <1>1, <2>1, <2>2, DoneAlarms
  <2>3. CASE /\ i < NEntries /\ hash[i].state = "NOT_CONFIRMED" /\ UNCHANGED alarms
             /\ hash' = [hash EXCEPT ![i].state = "CONFIRMED"]
    <3>. HIDE DEF i
    <3>. QED BY <1>3, <2>1, <2>3
  <2>. QED BY <1>2, <1>4, <2>2, <2>3 DEF NldeConfirm
<1>5. ASSUME NEW a \in air \cap Acks, AckFrameHandle(a) PROVE \A j \in Entries : Alarmed(j)'
  <2>. DEFINE i == AckedEntry(a)
  <2>1. i < NEntries => i \in Entries /\ hash[i].state # "FREE"
    BY <1>1, AckedEntryFound DEF SizeInv
  <2>2. CASE i < NEntries /\ DoneWithThisAck(i, a.of, "OK", alarms)
    <3>. HIDE DEF i
    <3>. QED BY <1>1, <2>1, <2>2, DoneAlarms
  <2>3. CASE /\ i < NEntries /\ UNCHANGED alarms
             /\ hash' = [hash EXCEPT ![i].state = "ACKED"]
    <3>. HIDE DEF i
    <3>. QED BY <1>3, <2>1, <2>3
  <2>. QED BY <1>2, <1>5, <2>2, <2>3 DEF AckFrameHandle
<1>6. ASSUME NEW i \in Entries, AckTimerCb(i) PROVE \A j \in Entries : Alarmed(j)'
  <2>. DEFINE rest == [alarms EXCEPT ![i] = @ - 1]
  <2>1. hash[i].state # "FREE" /\ alarms[i] = 1
    BY <1>1, <1>6 DEF AckTimerCb, Alarmed
  <2>2. CASE DoneWithThisAck(i, buf[hash[i].buf].frame.type, "NO_ACK", rest)
    <3>1. rest \in [Entries -> Nat] /\ rest[i] = 0 /\ \A j \in Entries \ {i} : rest[j] = alarms[j]
      BY <1>1, <2>1
    <3>. HIDE DEF rest
    <3>. QED BY <1>1, <2>1, <2>2, <3>1, DoneAlarms
  <2>3. CASE UNCHANGED alarms /\ \E n : hash' = [hash EXCEPT ![i].retries = n]
    BY <1>1, <2>3 DEF Alarmed, EntryRecords
  <2>4. CASE /\ UNCHANGED alarms
             /\ hash' = [hash EXCEPT ![i].state = "NOT_CONFIRMED", ![i].retries = TimerRetries(i)]
    BY <1>1, <2>1, <2>4 DEF Alarmed, EntryRecords
  <2>. QED BY <1>6, <2>2, <2>3, <2>4 DEF AckTimerCb
<1>7. (Next /\ ~UNCHANGED tableVars) =>
        \/ \E b \in Bufs : NldeConfirm(b)
        \/ \E i \in Entries : AckTimerCb(i)
        \/ \E a \in air \cap Acks : AckFrameHandle(a)
  BY DEF Next, Transmit, NldeConfirmNoAck, DataConfirm, PeerIndication, sendVars
<1>. QED BY <1>2, <1>4, <1>5, <1>6, <1>7 DEF vars, sendVars

-----------------------------------------------------------------------------
\* The table and the frames, unless a second ACK may come before the confirm
\* of NWK.
TableInv == TypeInv /\ (RepeatedAcks \/ (FrameInv /\ AlarmPerEntry))

LEMMA NextFrames ==
  ASSUME ~RepeatedAcks, TypeInv, FrameInv, TypeInv', [Next]_vars
  PROVE  FrameInv'
<1>1. CASE UNCHANGED vars
  <2>1. UNCHANGED sendVars /\ UNCHANGED <<air, passed>>
    BY <1>1 DEF vars
  <2>. QED BY <2>1, AirMoves
<1>2. CASE Next
  <2>1. ASSUME NEW b \in Bufs, Request(b) PROVE FrameInv'
    BY <2>1, RequestFrames
  <2>2. ASSUME NEW b \in Bufs, NldeConfirmNoAck(b) \/ NldeConfirm(b) \/ DataConfirm(b)
        PROVE  FrameInv'
    BY <2>2, ConfirmFrames
  <2>3. ASSUME NEW i \in Entries, AckTimerCb(i) PROVE FrameInv'
    BY <2>3, TimerFrames
  <2>4. ASSUME NEW a \in air \cap Acks, AckFrameHandle(a) PROVE FrameInv'
    BY <2>4, AckFrames
  <2>. QED BY <1>2, <2>1, <2>2, <2>3, <2>4, AirFrames DEF Next
<1>. QED BY <1>1, <1>2

LEMMA TableInvariant == Spec => []TableInv
<1>1. Init => TableInv
  BY InitTypes, InitFrames DEF TableInv
<1>2. TableInv /\ [Next]_vars => TableInv'
  BY NextTypes, NextFrames, NextAlarms DEF TableInv
<1>. QED BY <1>1, <1>2, PTL DEF Spec

\* A buffer is kept by at most one entry, and of a table with room at most one
\* entry waits for it.
LEMMA HoldersFollow == TypeInv /\ FrameInv => OneHolder
<1>. SUFFICES ASSUME TypeInv, FrameInv, NEW b \in Bufs
              PROVE  /\ free[b] + nwk[b] + up[b] + Cardinality(Confirmed(b)) = 1
                     /\ Roomy => /\ Cardinality(Waiting(b)) <= 1
                                 /\ Waiting(b) # {} => free[b] = 0 /\ up[b] = 0
  BY DEF OneHolder
<1>1. /\ free[b] \in Nat /\ nwk[b] \in Nat /\ up[b] \in Nat
      /\ Kept(b) => free[b] = 0 /\ nwk[b] = 0 /\ up[b] = 0
      /\ ~Kept(b) => free[b] + nwk[b] + up[b] = 1
  BY DEF TypeInv, TypeOK, FrameInv, HolderInv
<1>2. free[b] + nwk[b] + up[b] + Cardinality(Confirmed(b)) = 1
  <2>1. CASE Kept(b)
    <3>1. PICK i \in Entries : hash[i].buf = b /\ hash[i].state = "CONFIRMED"
      BY <2>1 DEF Kept
    <3>2. Confirmed(b) = {i}
      BY <3>1 DEF Confirmed, Waiting, FrameInv, HolderInv
    <3>3. Cardinality(Confirmed(b)) = 1
      BY <3>2, FS_Singleton
    <3>. QED BY <1>1, <2>1, <3>3
  <2>2. CASE ~Kept(b)
    <3>1. Confirmed(b) = {}
      BY <2>2 DEF Confirmed, Waiting, Kept
    <3>2. Cardinality(Confirmed(b)) = 0
      BY <3>1, FS_EmptySet
    <3>. QED BY <1>1, <2>2, <3>2
  <2>. QED BY <2>1, <2>2
<1>3. ASSUME Roomy, Waiting(b) # {}
      PROVE  Cardinality(Waiting(b)) = 1 /\ free[b] = 0 /\ up[b] = 0
  <2>1. PICK i \in InUse : hash[i].buf = b /\ i \in Waiting(b)
    BY <1>3 DEF Waiting, InUse
  <2>2. Proper(i) /\ \A j \in InUse : hash[j].buf = b => i = j
    BY <1>3, <2>1, RoomySlots
  <2>3. Waiting(b) = {i}
    BY <2>1, <2>2 DEF Waiting, InUse
  <2>4. nwk[b] = 1 \/ Kept(b)
    BY <2>1, <2>2 DEF Proper, Kept, InUse
  <2>5. free[b] = 0 /\ up[b] = 0
    BY <1>1, <2>4
  <2>6. Cardinality(Waiting(b)) = 1
    BY <2>3, FS_Singleton
  <2>. QED BY <2>5, <2>6
<1>4. Waiting(b) = {} => Cardinality(Waiting(b)) = 0
  BY FS_EmptySet
<1>. QED BY <1>2, <1>3, <1>4

\* The entries keep their types and a used entry its buffer, whatever arrives
\* (save_ack_data, done_with_this_ack).
THEOREM ApsTypes == Spec => []TypeOK
BY TableInvariant, PTL DEF TableInv, TypeInv

\* One holder per buffer, one alarm per waiting entry of a table with room, and
\* no more than ZB_N_APS_MAX_FRAME_ENTRIES sends of a frame: zb_nlde_data_confirm,
\* aps_ack_frame_handle and zb_aps_ack_timer_cb in every order, for every table,
\* unless a second ACK overtakes the confirm of NWK.
THEOREM ApsTable == Spec => [](RepeatedAcks \/ TableSound)
<1>1. TableInv => RepeatedAcks \/ TableSound
  BY HoldersFollow DEF TableInv, TypeInv, TableSound, FrameInv, SendsInv
<1>. QED BY <1>1, TableInvariant, PTL

\* A confirm with RET_OK of a frame sent with ACK request means that the peer
\* passed this frame up: an ACK finishes the entry of its own counter, and the
\* buffer of an entry holds the frame it waits for.
THEOREM ApsDelivered == Spec => [](RepeatedAcks \/ OkMeansDelivered)
<1>1. TableInv => RepeatedAcks \/ OkMeansDelivered
  BY DEF TableInv, FrameInv
<1>. QED BY <1>1, TableInvariant, PTL
=============================================================================
