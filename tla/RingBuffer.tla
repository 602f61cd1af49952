----------------------------- MODULE RingBuffer -----------------------------
(***************************************************************************)
(* The generic ring buffer of include/zb_ringbuffer.h, used the way the    *)
(* scheduler loop and the MAC main loop use it: a producer reserves a      *)
(* slot, fills it and flushes the put; the consumer peeks at the oldest    *)
(* entry, calls the function it names, which may itself put entries into   *)
(* the same ring, and only then flushes the get.                           *)
(***************************************************************************)
EXTENDS Naturals, Sequences

CONSTANTS Capacity,   \* ZB_RING_BUFFER_CAPACITY
          Values,     \* what a slot may hold
          Zero,       \* the value of a slot never written (g_zb is zeroed)
          Nobody      \* no entry is being served

ASSUME CapacityAssumption == Capacity \in Nat \ {0}
ASSUME ZeroAssumption == Zero \in Values
ASSUME NobodyAssumption == Nobody \notin Values

VARIABLES ring_buf,   \* the slots
          read_i,     \* slot of the oldest entry
          write_i,    \* slot the next put fills
          written,    \* number of entries
          peeked      \* the caller is between PEEK and FLUSH_GET

ringVars == <<ring_buf, read_i, write_i, written, peeked>>

Slots == 0 .. Capacity - 1

\* (i + 1) % capacity, the step of both indices.
NextSlot(i) == (i + 1) % Capacity

\* Mutation: the ring is called full one entry too late.
IsFullLate == written > Capacity

IsFull == written >= Capacity
IsEmpty == written = 0

\* ZB_RING_BUFFER_INIT on a ring that lies in the zeroed globals.
RingInit ==
  /\ ring_buf = [s \in Slots |-> Zero]
  /\ read_i = 0
  /\ write_i = 0
  /\ written = 0
  /\ peeked = FALSE

\* PUT_RESERVE, the caller's assignments, FLUSH_PUT; also IS_FULL and PUT.
Put(v) ==
  /\ ~IsFull
  /\ ring_buf' = [ring_buf EXCEPT ![write_i] = v]
  /\ written' = written + 1
  /\ write_i' = NextSlot(write_i)
  /\ UNCHANGED <<read_i, peeked>>

\* PUT_RESERVE returns NULL: the caller answers RET_OVERFLOW, nothing changes.
PutOverflow ==
  /\ IsFull
  /\ UNCHANGED ringVars

\* PEEK: the caller now works on the slot at read_i, which stays in the ring.
Peek ==
  /\ ~peeked
  /\ ~IsEmpty
  /\ peeked' = TRUE
  /\ UNCHANGED <<ring_buf, read_i, write_i, written>>

\* Mutation: the get moves the write index.
FlushGetWrongIndex ==
  /\ peeked
  /\ peeked' = FALSE
  /\ written' = written - 1
  /\ write_i' = NextSlot(write_i)
  /\ UNCHANGED <<ring_buf, read_i>>

\* FLUSH_GET, after the entry has been served.
FlushGet ==
  /\ peeked
  /\ peeked' = FALSE
  /\ written' = written - 1
  /\ read_i' = NextSlot(read_i)
  /\ UNCHANGED <<ring_buf, write_i>>

RingNext ==
  \/ \E v \in Values : Put(v)
  \/ PutOverflow
  \/ Peek
  \/ FlushGet

RingSpec == RingInit /\ [][RingNext]_ringVars

-----------------------------------------------------------------------------
\* Types and ranges of the indices and of the count.
RingTypeOK ==
  /\ ring_buf \in [Slots -> Values]
  /\ read_i \in Slots
  /\ write_i \in Slots
  /\ written \in 0 .. Capacity
  /\ peeked \in BOOLEAN

\* The two indices and the count never drift apart: the slot the next put fills
\* is `written' slots after the oldest one, and an entry is served only while
\* it is in the ring.
IndicesAgree ==
  /\ write_i = (read_i + written) % Capacity
  /\ peeked => written > 0

\* The entries, oldest first.
Contents == [k \in 1 .. written |-> ring_buf[(read_i + k - 1) % Capacity]]

Fifo == INSTANCE BoundedFifo
          WITH queue <- Contents,
               serving <- IF peeked THEN ring_buf[read_i] ELSE Nobody

\* The ring implements the bounded first-in first-out queue: in particular the
\* entry a callback was called from is not overwritten while the callback fills
\* the ring (zb_scheduler.c keeps using ent after other puts).
ImplementsFifo == Fifo!FifoSpec
=============================================================================
