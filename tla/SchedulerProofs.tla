--------------------------- MODULE SchedulerProofs ---------------------------
(***************************************************************************)
(* What holds of the scheduler and what it hands out.  For every capacity  *)
(* and every set of values: the indices of the ring buffer agree, and the  *)
(* ring implements the bounded first-in first-out queue.  For every pool,  *)
(* queue size and build: every buffer has one owner, the counters of the   *)
(* two halves are exact, and a sender waits for a buffer only while its    *)
(* half is exhausted.  For every clock, queue size and set of delays: the  *)
(* alarm queue is ordered by the time that is left, no alarm is called     *)
(* early or out of order, and the loop never sleeps past the first one     *)
(* because of the timer.                                                   *)
(***************************************************************************)
EXTENDS BufPool, RingBuffer, Alarms, FiniteSetTheorems, SequenceTheorems,
        WellFoundedInduction, TLAPS


Calls == [func : Requests \cup {Other, Parse}, param : Bufs \cup {NoBuf}]

\* The parts of TypeOK the argument uses, without the receiver's flags.
PoolType ==
  /\ part \in [Bufs -> Dirs \cup {"free"}]
  /\ allocated \in [Dirs -> Int]
  /\ waiting \in [Dirs -> Seq(Requests)]
  /\ buf_freelist \in Nat
  /\ cb_q \in Seq(Calls)
  /\ Len(cb_q) <= CbQSize
  /\ held \subseteq Bufs /\ lost \subseteq Bufs

LoopType ==
  /\ pc \in Phases
  /\ recv_buf \in Bufs \cup {NoBuf}
  /\ pc = "cb" => cb_q # << >>

Flags == ns_build \in BOOLEAN /\ trans_int \in BOOLEAN /\ rx_pending \in BOOLEAN /\ rx_need_buf \in BOOLEAN

\* The counters are exact and never exceed the limit of a half.
Counted ==
  \A d \in Dirs : allocated[d] = Cardinality(Half(d)) /\ allocated[d] <= Limit

OwnerInv == PoolType /\ LoopType /\ OneOwner

-----------------------------------------------------------------------------
\* What zb_schedule_callback does to the queue and to the lost buffers.
LEMMA ScheduleEffect ==
  ASSUME PoolType, NEW f \in Requests \cup {Other, Parse}, NEW b \in Bufs \cup {NoBuf},
         Schedule(f, b)
  PROVE  /\ cb_q' \in Seq(Calls)
         /\ Len(cb_q') <= CbQSize
         /\ Len(cb_q') >= Len(cb_q)
         /\ lost' \subseteq Bufs
         /\ \/ /\ Len(cb_q') = Len(cb_q) + 1
               /\ \A i \in 1 .. Len(cb_q) : cb_q'[i] = cb_q[i]
               /\ cb_q'[Len(cb_q) + 1].param = b
               /\ lost' = lost
            \/ /\ cb_q' = cb_q
               /\ lost' = lost \cup ({b} \ {NoBuf})
<1>1. Entry(f, b) \in Calls /\ Entry(f, b).param = b
  BY DEF Entry, Calls
<1>2. CbQSize \in Nat
  BY SizesAssumption
<1>3. CASE Len(cb_q) < CbQSize
  <2>1. cb_q' = Append(cb_q, Entry(f, b)) /\ lost' = lost
    BY <1>3 DEF Schedule
  <2>2. /\ cb_q' \in Seq(Calls)
        /\ Len(cb_q') = Len(cb_q) + 1
        /\ \A i \in 1 .. Len(cb_q) : cb_q'[i] = cb_q[i]
        /\ cb_q'[Len(cb_q) + 1] = Entry(f, b)
    BY <1>1, <2>1, AppendProperties DEF PoolType
  <2>. QED BY <1>1, <1>2, <1>3, <2>1, <2>2 DEF PoolType
<1>4. CASE ~(Len(cb_q) < CbQSize)
  BY <1>1, <1>2, <1>4 DEF Schedule, PoolType
<1>. QED BY <1>3, <1>4

\* A buffer handed to a queue entry, by its owner or straight from the free
\* list, ends with one owner whether the queue has room or not.
LEMMA HandOver ==
  ASSUME PoolType, OneOwner,
         NEW f \in Requests \cup {Other, Parse}, NEW b \in Bufs, Schedule(f, b),
         held' = held \ {b}, pc' = "cb" <=> pc = "cb",
         pc = "cb" => cb_q # << >>,
         \/ part' = part /\ b \in held
         \/ /\ part[b] = "free"
            /\ \E d \in Dirs : part' = [part EXCEPT ![b] = d]
  PROVE  OneOwner'
<1>. DEFINE n == Len(cb_q)
<1>0. n \in Nat /\ b # NoBuf /\ b \in Bufs \cup {NoBuf} /\ (pc = "cb" => n >= 1)
  BY NamesAssumption DEF PoolType
<1>1. /\ b \notin lost
      /\ \A i \in Pending : cb_q[i].param # b
  BY <1>0 DEF OneOwner
<1>2. /\ part'[b] # "free"
      /\ \A c \in Bufs : c # b => part'[c] = part[c]
  BY DEF PoolType, OneOwner, Dirs
<1>3. CASE /\ Len(cb_q') = n + 1
           /\ \A i \in 1 .. n : cb_q'[i] = cb_q[i]
           /\ cb_q'[n + 1].param = b
           /\ lost' = lost
  <2>1. /\ Pending' = Pending \cup {n + 1}
        /\ n + 1 \notin Pending
        /\ \A i \in Pending : i \in 1 .. n /\ cb_q'[i] = cb_q[i]
    BY <1>0, <1>3 DEF Pending
  <2>. QED BY <1>0, <1>1, <1>2, <1>3, <2>1 DEF OneOwner
<1>4. CASE cb_q' = cb_q /\ lost' = lost \cup ({b} \ {NoBuf})
  <2>1. Pending' = Pending
    BY <1>4 DEF Pending
  <2>. QED BY <1>0, <1>1, <1>2, <1>4, <2>1 DEF OneOwner
<1>. QED BY <1>0, <1>3, <1>4, ScheduleEffect

\* Steps that leave the queue, the owners and the pool alone.
LEMMA OwnersUnchanged ==
  ASSUME OneOwner, UNCHANGED <<part, cb_q, held, lost>>, pc' = "cb" <=> pc = "cb"
  PROVE  OneOwner'
<1>1. Pending' = Pending
  BY DEF Pending
<1>. QED BY <1>1 DEF OneOwner

\* A buffer taken from the free list and kept by the stack.
LEMMA TakenOwned ==
  ASSUME PoolType, OneOwner, NEW b \in Bufs, part[b] = "free", NEW d \in Dirs,
         part' = [part EXCEPT ![b] = d], held' = held \cup {b},
         UNCHANGED <<cb_q, lost>>, pc' = "cb" <=> pc = "cb"
  PROVE  OneOwner'
<1>1. Pending' = Pending
  BY DEF Pending
<1>2. part'[b] # "free" /\ \A c \in Bufs : c # b => part'[c] = part[c]
  BY DEF PoolType, Dirs
<1>3. b \notin held \cup lost /\ \A i \in Pending : cb_q[i].param # b
  BY DEF OneOwner
<1>. QED BY <1>1, <1>2, <1>3 DEF OneOwner

\* A buffer put back on the free list by its owner.
LEMMA FreedOwned ==
  ASSUME PoolType, OneOwner, NEW b \in held,
         part' = [part EXCEPT ![b] = "free"], held' = held \ {b},
         UNCHANGED <<cb_q, lost>>, pc' = "cb" <=> pc = "cb"
  PROVE  OneOwner'
<1>1. Pending' = Pending
  BY DEF Pending
<1>2. b \in Bufs /\ part'[b] = "free" /\ \A c \in Bufs : c # b => part'[c] = part[c]
  BY DEF PoolType
<1>3. b \notin lost /\ \A i \in Pending : cb_q[i].param # b
  BY DEF OneOwner
<1>. QED BY <1>1, <1>2, <1>3 DEF OneOwner

\* The function called from the loop gives up a buffer without freeing it.
LEMMA ForgottenOwned ==
  ASSUME PoolType, OneOwner, NEW b \in held,
         held' = held \ {b}, lost' = lost \cup {b},
         UNCHANGED <<part, cb_q>>, pc' = "cb" <=> pc = "cb"
  PROVE  OneOwner'
<1>1. Pending' = Pending
  BY DEF Pending
<1>. QED BY <1>1 DEF OneOwner

LEMMA StartOwned ==
  ASSUME OwnerInv, CallbackStart
  PROVE  OneOwner'
<1>. DEFINE n == Len(cb_q)
            h == cb_q[1].param
<1>1. n \in Nat /\ n >= 1 /\ Head(cb_q) = cb_q[1]
  BY DEF OwnerInv, PoolType, CallbackStart
<1>2. /\ Pending = 1 .. n /\ Pending' = 2 .. n /\ cb_q' = cb_q
      /\ held' = held \cup ({h} \ {NoBuf}) /\ lost' = lost /\ part' = part
  BY <1>1 DEF Pending, CallbackStart, poolVars
<1>3. 1 \in Pending /\ \A i \in Pending' : i \in Pending /\ i # 1
  BY <1>1, <1>2
<1>3a. \A i \in Pending : i = 1 \/ i \in Pending'
  BY <1>1, <1>2
<1>4. /\ \A i \in Pending' : cb_q[i].param = h => h = NoBuf
      /\ h \notin held \cup lost
  BY <1>3 DEF OwnerInv, OneOwner
<1>5. \A b \in Bufs : b # NoBuf
  BY NamesAssumption
<1>6. \A b \in Bufs : (b \in held' \cup lost' \/ \E i \in Pending' : cb_q[i].param = b)
                  <=> (b \in held \cup lost \/ \E i \in Pending : cb_q[i].param = b)
  BY <1>2, <1>3, <1>3a, <1>5
<1>7. \A i \in Pending' : cb_q[i].param \notin held' \cup lost'
  BY <1>2, <1>3, <1>4 DEF OwnerInv, OneOwner
<1>8. held' \cap lost' = {}
  BY <1>2, <1>4 DEF OwnerInv, OneOwner
<1>. QED BY <1>2, <1>3, <1>6, <1>7, <1>8 DEF OwnerInv, OneOwner

LEMMA ReturnOwned ==
  ASSUME OwnerInv, CallbackReturn
  PROVE  OneOwner' /\ cb_q' \in Seq(Calls) /\ Len(cb_q') <= CbQSize
<1>. DEFINE n == Len(cb_q)
<1>1. n \in Nat /\ n >= 1 /\ cb_q # << >> /\ CbQSize \in Nat
  BY SizesAssumption DEF OwnerInv, PoolType, LoopType, CallbackReturn
<1>2. /\ cb_q' \in Seq(Calls) /\ Len(cb_q') = n - 1
      /\ \A i \in 1 .. n - 1 : cb_q'[i] = cb_q[i + 1]
  BY <1>1, HeadTailProperties DEF OwnerInv, PoolType, CallbackReturn
<1>3. /\ Pending = 2 .. n /\ Pending' = 1 .. n - 1
      /\ held' = held /\ lost' = lost /\ part' = part
  BY <1>1, <1>2 DEF Pending, CallbackReturn, poolVars
<1>4. \A i \in Pending' : i + 1 \in Pending /\ cb_q'[i] = cb_q[i + 1]
  BY <1>1, <1>2, <1>3
<1>5. \A i \in Pending : i - 1 \in Pending' /\ cb_q'[i - 1] = cb_q[i]
  BY <1>1, <1>2, <1>3
<1>6. \A i, j \in Pending' : i # j /\ cb_q'[i].param = cb_q'[j].param => cb_q'[i].param = NoBuf
  <2>. TAKE i, j \in Pending'
  <2>1. i # j => i + 1 # j + 1
    BY <1>3
  <2>. QED BY <1>4, <2>1 DEF OwnerInv, OneOwner
<1>7. \A i \in Pending' : cb_q'[i].param \notin held \cup lost
  BY <1>4 DEF OwnerInv, OneOwner
<1>8. \A b \in Bufs : (\E i \in Pending' : cb_q'[i].param = b) <=> (\E i \in Pending : cb_q[i].param = b)
  BY <1>4, <1>5
<1>9. OneOwner'
  BY <1>3, <1>6, <1>7, <1>8 DEF OwnerInv, OneOwner
<1>. QED BY <1>1, <1>2, <1>9 DEF OwnerInv, PoolType

\* zb_free_buf on an owned buffer.
LEMMA FreeOwned ==
  ASSUME OwnerInv, NEW b \in held, FreeBuf(b), held' = held \ {b}, pc' = pc
  PROVE  /\ PoolType' /\ OneOwner'
         /\ Len(cb_q') >= Len(cb_q)
<1>. USE DEF OwnerInv
<1>1. b \in Bufs /\ part[b] \in Dirs /\ b \in Bufs \cup {NoBuf}
  BY DEF PoolType, OneOwner
<1>2. CASE Serves(b)
  <2>1. waiting[part[b]] \in Seq(Requests) /\ waiting[part[b]] # << >>
    BY <1>1, <1>2 DEF PoolType, Serves
  <2>2. /\ Head(waiting[part[b]]) \in Requests \cup {Other, Parse}
        /\ Tail(waiting[part[b]]) \in Seq(Requests)
    BY <2>1, HeadTailProperties
  <2>3. Schedule(Head(waiting[part[b]]), b) /\ part' = part /\ allocated' = allocated
    BY <1>2 DEF FreeBuf, poolVars
  <2>4. OneOwner'
    BY <1>1, <2>2, <2>3, HandOver DEF LoopType
  <2>5. cb_q' \in Seq(Calls) /\ Len(cb_q') <= CbQSize /\ Len(cb_q') >= Len(cb_q) /\ lost' \subseteq Bufs
    BY <1>1, <2>2, <2>3, ScheduleEffect
  <2>6. waiting' \in [Dirs -> Seq(Requests)] /\ buf_freelist' \in Nat
    <3>1. /\ waiting' = [waiting EXCEPT ![part[b]] = Tail(waiting[part[b]])]
          /\ buf_freelist' = buf_freelist + 1
      BY <1>2 DEF FreeBuf
    <3>. QED BY <1>1, <2>2, <3>1 DEF PoolType
  <2>. QED BY <2>3, <2>4, <2>5, <2>6 DEF PoolType
<1>3. CASE ~Serves(b)
  <2>1. /\ part' = [part EXCEPT ![b] = "free"]
        /\ allocated' = [allocated EXCEPT ![part[b]] = @ - 1]
        /\ UNCHANGED <<waiting, buf_freelist, cb_q, lost>>
    BY <1>3 DEF FreeBuf, reqVars
  <2>2. OneOwner'
    BY <2>1, FreedOwned
  <2>. QED BY <1>1, <2>1, <2>2 DEF PoolType
<1>. QED BY <1>2, <1>3

-----------------------------------------------------------------------------
LEMMA OwnerInit == Init => OwnerInv
<1>. SUFFICES ASSUME Init PROVE OwnerInv
  OBVIOUS
<1>1. Pending = {}
  BY DEF Init, Pending
<1>2. PoolType
  BY SizesAssumption DEF Init, PoolType, Dirs
<1>3. LoopType
  BY DEF Init, LoopType, Phases
<1>4. OneOwner
  BY <1>1 DEF Init, OneOwner
<1>. QED BY <1>2, <1>3, <1>4 DEF OwnerInv

\* Ownership is inductive on its own: no counter and no flag is needed for it.
LEMMA OwnerStep == OwnerInv /\ [Next]_vars => OwnerInv'
<1>. SUFFICES ASSUME OwnerInv, [Next]_vars PROVE OwnerInv'
  OBVIOUS
<1>. USE DEF OwnerInv
<1>0. /\ \A b \in Bufs : b \in Bufs \cup {NoBuf}
      /\ Other \in Requests \cup {Other, Parse} /\ Parse \in Requests \cup {Other, Parse}
      /\ \A r \in Requests : r \in Requests \cup {Other, Parse}
  OBVIOUS
<1>1. ASSUME NEW d \in Dirs, AppGet(d) PROVE OwnerInv'
  <2>1. PICK b \in Bufs : TakeBuf(d, b) /\ held' = held \cup {b}
    BY <1>1 DEF AppGet
  <2>2. UNCHANGED <<waiting, buf_freelist, cb_q, pc, lost, recv_buf>>
    BY <1>1 DEF AppGet, reqVars, rxVars
  <2>3. OneOwner'
    BY <2>1, <2>2, TakenOwned DEF TakeBuf
  <2>. QED BY <2>1, <2>2, <2>3 DEF TakeBuf, PoolType, LoopType
<1>2. ASSUME NEW d \in Dirs, NEW r \in Requests, AppGetDelayedNow(d, r) PROVE OwnerInv'
  <2>1. PICK b \in Bufs : TakeBuf(d, b) /\ Schedule(r, b)
    BY <1>2 DEF AppGetDelayedNow
  <2>2. UNCHANGED <<waiting, buf_freelist, pc, held, recv_buf>>
    BY <1>2 DEF AppGetDelayedNow, reqVars, rxVars
  <2>3. b \notin held
    BY <2>1 DEF TakeBuf, OneOwner
  <2>4. OneOwner'
    BY <1>0, <2>1, <2>2, <2>3, HandOver DEF TakeBuf, LoopType
  <2>5. cb_q' \in Seq(Calls) /\ Len(cb_q') <= CbQSize /\ Len(cb_q') >= Len(cb_q) /\ lost' \subseteq Bufs
    BY <1>0, <2>1, ScheduleEffect
  <2>6. cb_q # << >> => cb_q' # << >>
    BY <2>5 DEF PoolType
  <2>. QED BY <2>1, <2>2, <2>4, <2>5, <2>6 DEF TakeBuf, PoolType, LoopType
<1>3. ASSUME NEW d \in Dirs, NEW r \in Requests, AppGetDelayedWait(d, r) PROVE OwnerInv'
  <2>1. /\ UNCHANGED <<part, allocated, cb_q, pc, held, lost, recv_buf>>
        /\ waiting' = [waiting EXCEPT ![d] = Append(waiting[d], r)]
        /\ buf_freelist > 0 /\ buf_freelist' = buf_freelist - 1
    BY <1>3 DEF AppGetDelayedWait, poolVars, rxVars
  <2>2. Append(waiting[d], r) \in Seq(Requests)
    BY AppendProperties DEF PoolType
  <2>3. OneOwner'
    BY <2>1, OwnersUnchanged
  <2>. QED BY <2>1, <2>2, <2>3 DEF PoolType, LoopType
<1>4. ASSUME NEW b \in Bufs, AppFree(b) PROVE OwnerInv'
  <2>1. b \in held /\ FreeBuf(b) /\ held' = held \ {b} /\ pc' = pc /\ recv_buf' = recv_buf
    BY <1>4 DEF AppFree, rxVars
  <2>2. PoolType' /\ OneOwner' /\ Len(cb_q') >= Len(cb_q)
    BY <2>1, FreeOwned
  <2>3. cb_q # << >> => cb_q' # << >>
    BY <2>2 DEF PoolType
  <2>. QED BY <2>1, <2>2, <2>3 DEF LoopType
<1>5. ASSUME NEW b \in Bufs, AppPass(b) PROVE OwnerInv'
  <2>1. /\ b \in held /\ Schedule(Other, b) /\ held' = held \ {b}
        /\ UNCHANGED <<part, allocated, waiting, buf_freelist, pc, recv_buf>>
    BY <1>5 DEF AppPass, poolVars, reqVars, rxVars
  <2>2. OneOwner'
    BY <1>0, <2>1, HandOver DEF LoopType
  <2>3. cb_q' \in Seq(Calls) /\ Len(cb_q') <= CbQSize /\ Len(cb_q') >= Len(cb_q) /\ lost' \subseteq Bufs
    BY <1>0, <2>1, ScheduleEffect
  <2>4. cb_q # << >> => cb_q' # << >>
    BY <2>3 DEF PoolType
  <2>. QED BY <2>1, <2>2, <2>3, <2>4 DEF PoolType, LoopType
<1>6. ASSUME NEW b \in Bufs, ParseForgets(b) PROVE OwnerInv'
  <2>1. /\ b \in held /\ held' = held \ {b} /\ lost' = lost \cup {b}
        /\ UNCHANGED <<part, allocated, waiting, buf_freelist, cb_q, pc, recv_buf>>
    BY <1>6 DEF ParseForgets, poolVars, reqVars, rxVars
  <2>2. OneOwner'
    BY <2>1, ForgottenOwned
  <2>. QED BY <2>1, <2>2 DEF PoolType, LoopType
<1>7. CASE AppCall
  <2>1. /\ Schedule(Other, NoBuf)
        /\ UNCHANGED <<part, allocated, waiting, buf_freelist, pc, held, recv_buf>>
    BY <1>7 DEF AppCall, poolVars, reqVars, rxVars
  <2>2. /\ cb_q' \in Seq(Calls) /\ Len(cb_q') <= CbQSize /\ Len(cb_q') >= Len(cb_q)
        /\ lost' \subseteq Bufs
        /\ \/ /\ Len(cb_q') = Len(cb_q) + 1
              /\ \A i \in 1 .. Len(cb_q) : cb_q'[i] = cb_q[i]
              /\ cb_q'[Len(cb_q) + 1].param = NoBuf
              /\ lost' = lost
           \/ cb_q' = cb_q /\ lost' = lost
    BY <1>0, <2>1, ScheduleEffect
  <2>3. NoBuf \notin Bufs /\ Len(cb_q) \in Nat
    BY NamesAssumption DEF PoolType
  <2>4. CASE cb_q' = cb_q /\ lost' = lost
    BY <2>1, <2>4, OwnersUnchanged DEF PoolType, LoopType
  <2>5. CASE /\ Len(cb_q') = Len(cb_q) + 1
             /\ \A i \in 1 .. Len(cb_q) : cb_q'[i] = cb_q[i]
             /\ cb_q'[Len(cb_q) + 1].param = NoBuf
             /\ lost' = lost
    <3>0. cb_q # << >> => Len(cb_q) >= 1
      BY DEF PoolType
    <3>1. /\ \A i \in Pending' : i = Len(cb_q) + 1 \/ (i \in Pending /\ cb_q'[i] = cb_q[i])
          /\ \A i \in Pending : i \in Pending' /\ cb_q'[i] = cb_q[i]
      BY <2>1, <2>3, <2>5, <3>0 DEF Pending, LoopType
    <3>1a. NoBuf \notin held \cup lost
      BY <2>3 DEF PoolType
    <3>2. OneOwner'
      BY <2>1, <2>3, <2>5, <3>1, <3>1a DEF OneOwner
    <3>3. cb_q # << >> => cb_q' # << >>
      BY <2>2 DEF PoolType
    <3>. QED BY <2>1, <2>2, <3>2, <3>3 DEF PoolType, LoopType
  <2>. QED BY <2>2, <2>4, <2>5
<1>8. CASE MacLoop
  <2>0. pc = "mac"
    BY <1>8 DEF MacLoop
  <2>1. CASE Receive
    <3>1. PICK b \in Bufs :
            /\ TakeBuf("in", b)
            /\ waiting' = waiting /\ buf_freelist' = buf_freelist
            /\ \/ /\ pc' = "parse" /\ recv_buf' = b /\ held' = held \cup {b}
                  /\ UNCHANGED <<cb_q, lost>>
               \/ /\ pc' = "cbs" /\ recv_buf' = recv_buf /\ held' = held /\ Schedule(Parse, b)
      BY <2>1 DEF Receive, reqVars
    <3>2. "in" \in Dirs /\ b \notin held /\ part[b] = "free"
      BY <3>1 DEF TakeBuf, OneOwner, Dirs
    <3>3. CASE /\ pc' = "parse" /\ recv_buf' = b /\ held' = held \cup {b}
               /\ UNCHANGED <<cb_q, lost>>
      <4>1. OneOwner'
        BY <2>0, <3>1, <3>2, <3>3, TakenOwned DEF TakeBuf
      <4>. QED BY <3>1, <3>2, <3>3, <4>1 DEF TakeBuf, PoolType, LoopType, Phases
    <3>4. CASE pc' = "cbs" /\ recv_buf' = recv_buf /\ held' = held /\ Schedule(Parse, b)
      <4>1. OneOwner'
        BY <1>0, <2>0, <3>1, <3>2, <3>4, HandOver DEF TakeBuf, LoopType
      <4>2. cb_q' \in Seq(Calls) /\ Len(cb_q') <= CbQSize /\ lost' \subseteq Bufs
        BY <1>0, <3>4, ScheduleEffect
      <4>. QED BY <3>1, <3>2, <3>4, <4>1, <4>2 DEF TakeBuf, PoolType, LoopType, Phases
    <3>. QED BY <3>1, <3>3, <3>4
  <2>2. CASE /\ pc' = "cbs"
             /\ UNCHANGED <<part, allocated, waiting, buf_freelist, cb_q, held, lost, recv_buf>>
    BY <2>0, <2>2, OwnersUnchanged DEF PoolType, LoopType, Phases
  <2>. QED BY <1>8, <2>1, <2>2 DEF MacLoop, ReceiveLater, poolVars, reqVars
<1>9. CASE CallbackStart
  <2>1. OneOwner'
    BY <1>9, StartOwned
  <2>2. /\ pc' = "cb" /\ cb_q # << >> /\ held' = held \cup ({Head(cb_q).param} \ {NoBuf})
        /\ UNCHANGED <<part, allocated, waiting, buf_freelist, cb_q, lost, recv_buf>>
    BY <1>9 DEF CallbackStart, poolVars, reqVars, rxVars
  <2>3. Head(cb_q).param \in Bufs \cup {NoBuf}
    <3>1. Head(cb_q) \in Calls
      BY <2>2, HeadTailProperties DEF PoolType
    <3>. QED BY <3>1 DEF Calls
  <2>. QED BY <2>1, <2>2, <2>3 DEF PoolType, LoopType, Phases
<1>10. CASE CallbackReturn
  <2>1. OneOwner' /\ cb_q' \in Seq(Calls) /\ Len(cb_q') <= CbQSize
    BY <1>10, ReturnOwned
  <2>. QED BY <1>10, <2>1 DEF CallbackReturn, poolVars, reqVars, rxVars, PoolType, LoopType, Phases
<1>11. CASE \/ ParseReturn \/ CallbacksDone \/ AlarmStart \/ AlarmReturn \/ IterationEnds
            \/ FrameArrives \/ UNCHANGED vars
  <2>1. /\ UNCHANGED <<part, allocated, waiting, buf_freelist, cb_q, held, lost>>
        /\ pc' = "cb" <=> pc = "cb"
        /\ pc' \in Phases
        /\ recv_buf' \in Bufs \cup {NoBuf}
    BY <1>11 DEF ParseReturn, CallbacksDone, AlarmStart, AlarmReturn, IterationEnds, FrameArrives,
                 vars, poolVars, reqVars, rxVars, LoopType, Phases
  <2>2. OneOwner'
    BY <2>1, OwnersUnchanged
  <2>. QED BY <2>1, <2>2 DEF PoolType, LoopType
<1>. QED BY <1>1, <1>2, <1>3, <1>4, <1>5, <1>6, <1>7, <1>8, <1>9, <1>10, <1>11
         DEF Next, App, Loop

\* zb_bufpool.c, zb_scheduler.c, mac.c: for every pool and every queue size, and
\* whatever the stack above does with the buffers it owns, no buffer ever has two
\* owners and none on the free list has one.
THEOREM BufferOwnership == Spec => []OneOwner
<1>1. Spec => []OwnerInv
  BY OwnerInit, OwnerStep, PTL DEF Spec
<1>2. OwnerInv => OneOwner
  BY DEF OwnerInv
<1>. QED BY <1>1, <1>2, PTL

-----------------------------------------------------------------------------
\* The halves are finite, and taking or returning a buffer changes one of them
\* by that buffer.
LEMMA HalfFinite ==
  ASSUME NEW d
  PROVE  IsFiniteSet(Half(d)) /\ Cardinality(Half(d)) \in Nat
<1>1. Half(d) \in SUBSET Bufs
  BY DEF Half
<1>. QED BY <1>1, FS_Subset, FS_CardinalityType, BufsAssumption

LEMMA CountTake ==
  ASSUME PoolType, Counted, NEW d \in Dirs, NEW b \in Bufs, TakeBuf(d, b)
  PROVE  Counted'
<1>1. /\ part[b] = "free" /\ part' = [part EXCEPT ![b] = d]
      /\ allocated' = [allocated EXCEPT ![d] = allocated[d] + 1]
      /\ allocated[d] < Limit
  BY DEF TakeBuf, CanGet
<1>2. Half(d)' = Half(d) \cup {b} /\ b \notin Half(d)
  BY <1>1 DEF Half, PoolType, Dirs
<1>3. \A e \in Dirs : e # d => Half(e)' = Half(e)
  BY <1>1 DEF Half, PoolType, Dirs
<1>4. Cardinality(Half(d)') = Cardinality(Half(d)) + 1
  BY <1>2, FS_AddElement, HalfFinite
<1>5. Limit \in Int
  BY FS_CardinalityType, BufsAssumption DEF Limit
<1>6. allocated'[d] = Cardinality(Half(d)') /\ allocated'[d] <= Limit
  BY <1>1, <1>4, <1>5 DEF Counted, PoolType
<1>7. \A e \in Dirs : e # d => allocated'[e] = Cardinality(Half(e)') /\ allocated'[e] <= Limit
  BY <1>1, <1>3 DEF Counted, PoolType
<1>. QED BY <1>6, <1>7 DEF Counted

LEMMA CountReturn ==
  ASSUME PoolType, Counted, NEW b \in Bufs, NEW d \in Dirs, part[b] = d,
         part' = [part EXCEPT ![b] = "free"],
         allocated' = [allocated EXCEPT ![d] = allocated[d] - 1]
  PROVE  Counted'
<1>2. Half(d)' = Half(d) \ {b} /\ b \in Half(d)
  BY DEF Half, PoolType, Dirs
<1>3. \A e \in Dirs : e # d => Half(e)' = Half(e)
  BY DEF Half, PoolType, Dirs
<1>4. Cardinality(Half(d)') = Cardinality(Half(d)) - 1
  BY <1>2, FS_RemoveElement, HalfFinite
<1>5. Limit \in Int
  BY FS_CardinalityType, BufsAssumption DEF Limit
<1>6. allocated'[d] = Cardinality(Half(d)') /\ allocated'[d] <= Limit
  BY <1>4, <1>5 DEF Counted, PoolType
<1>7. \A e \in Dirs : e # d => allocated'[e] = Cardinality(Half(e)') /\ allocated'[e] <= Limit
  BY <1>3 DEF Counted, PoolType
<1>. QED BY <1>6, <1>7 DEF Counted

\* Two halves of at most half the pool each: one below its limit leaves a free
\* buffer.
LEMMA CountedHalves ==
  ASSUME PoolType, Counted
  PROVE  HalvesIndependent
<1>. DEFINE N == Cardinality(Bufs)
<1>0. N \in Nat /\ Limit \in Nat /\ 2 * Limit <= N /\ IsFiniteSet(Bufs)
  BY FS_CardinalityType, BufsAssumption DEF Limit
<1>1. ASSUME NEW d \in Dirs, allocated[d] < Limit
      PROVE  \E b \in Bufs : part[b] = "free"
  <2>. SUFFICES ASSUME \A b \in Bufs : part[b] # "free" PROVE FALSE
    OBVIOUS
  <2>1. Bufs = Half("in") \cup Half("out") /\ Half("in") \cap Half("out") = {}
    BY DEF Half, PoolType, Dirs
  <2>2. Cardinality(Half("in") \cup Half("out")) =
          Cardinality(Half("in")) + Cardinality(Half("out")) - Cardinality(Half("in") \cap Half("out"))
    BY HalfFinite, FS_Union
  <2>3. N = Cardinality(Half("in")) + Cardinality(Half("out"))
    <3>1. Cardinality(Half("in") \cap Half("out")) = 0
      BY <2>1, FS_EmptySet
    <3>2. Cardinality(Half("in")) \in Nat /\ Cardinality(Half("out")) \in Nat
      BY HalfFinite
    <3>. QED BY <2>1, <2>2, <3>1, <3>2
  <2>4. /\ allocated["in"] = Cardinality(Half("in")) /\ allocated["out"] = Cardinality(Half("out"))
        /\ allocated["in"] <= Limit /\ allocated["out"] <= Limit
        /\ allocated["in"] < Limit \/ allocated["out"] < Limit
        /\ allocated["in"] \in Nat /\ allocated["out"] \in Nat
    BY <1>1, HalfFinite DEF Counted, Dirs
  <2>. QED BY <1>0, <2>3, <2>4
<1>. QED BY <1>1 DEF HalvesIndependent, Counted, CanGet

-----------------------------------------------------------------------------
\* Frames are parsed inside the MAC loop in one build only.
NsParse == pc = "parse" => ns_build

LEMMA NsParseStep == NsParse /\ [Next]_vars => NsParse'
<1>. SUFFICES ASSUME NsParse, [Next]_vars PROVE NsParse'
  OBVIOUS
<1>1. CASE MacLoop
  BY <1>1 DEF MacLoop, Receive, ReceiveLater, NsParse
<1>2. CASE App \/ FrameArrives \/ UNCHANGED vars
  <2>1. UNCHANGED <<pc, ns_build>>
    BY <1>2 DEF App, AppGet, AppGetDelayedNow, AppGetDelayedWait, AppFree, AppPass, AppCall,
                ParseForgets, FrameArrives, vars, rxVars
  <2>. QED BY <2>1 DEF NsParse
<1>3. CASE ParseReturn \/ CallbackStart \/ CallbackReturn \/ CallbacksDone
           \/ AlarmStart \/ AlarmReturn \/ IterationEnds
  BY <1>3 DEF ParseReturn, CallbackStart, CallbackReturn, CallbacksDone, AlarmStart,
              AlarmReturn, IterationEnds, NsParse
<1>. QED BY <1>1, <1>2, <1>3 DEF Next, Loop

\* Without ZB_NS_BUILD the receiver's need always stands for a pending frame.
NeedMeansPending == ns_build \/ (rx_need_buf => rx_pending)

WaitInv ==
  /\ Counted
  /\ OutWaitsOnlyIfExhausted
  /\ RequestEntries
  /\ NeedMeansPending
  /\ ns_build \/ InWaitHasWaker

LEMMA WaitInit == Init => WaitInv
<1>. SUFFICES ASSUME Init PROVE WaitInv
  OBVIOUS
<1>1. \A d \in Dirs : Half(d) = {} /\ waiting[d] = << >> /\ allocated[d] = 0
  BY DEF Init, Half, Dirs
<1>2. Limit \in Nat
  BY FS_CardinalityType, BufsAssumption DEF Limit
<1>3. Counted
  <2>1. Cardinality({}) = 0
    BY FS_EmptySet
  <2>2. 0 <= Limit
    BY <1>2
  <2>3. \A d \in Dirs : Cardinality(Half(d)) = 0
    BY <1>1, <2>1
  <2>. QED BY <1>1, <2>2, <2>3 DEF Counted
<1>4. RequestEntries
  BY <1>1, SizesAssumption DEF Init, RequestEntries, Dirs
<1>5. OutWaitsOnlyIfExhausted /\ InWaitHasWaker
  BY <1>1 DEF OutWaitsOnlyIfExhausted, InWaitHasWaker, Dirs
<1>6. NeedMeansPending
  BY DEF Init, NeedMeansPending
<1>. QED BY <1>3, <1>4, <1>5, <1>6 DEF WaitInv

\* Steps that leave the pool, the requests and the receiver alone.
LEMMA WaitUnchanged ==
  ASSUME WaitInv,
         UNCHANGED <<ns_build, part, allocated, waiting, buf_freelist, rx_pending, rx_need_buf>>
  PROVE  WaitInv'
<1>1. \A d \in Dirs : Half(d)' = Half(d)
  BY DEF Half
<1>2. Half("in")' = Half("in")
  BY <1>1 DEF Dirs
<1>. QED BY <1>1, <1>2 DEF WaitInv, Counted, OutWaitsOnlyIfExhausted, RequestEntries,
            NeedMeansPending, InWaitHasWaker

\* Taking a buffer: only a half that nobody waits for has one to give, or the in
\* half keeps at least the buffer just taken.
LEMMA WaitTake ==
  ASSUME PoolType, WaitInv, NEW d \in Dirs, NEW b \in Bufs, TakeBuf(d, b),
         UNCHANGED <<ns_build, waiting, buf_freelist>>, NeedMeansPending',
         d = "in" \/ UNCHANGED <<rx_pending, rx_need_buf>>
  PROVE  WaitInv'
<1>1. Counted'
  BY CountTake DEF WaitInv
<1>2. /\ part' = [part EXCEPT ![b] = d] /\ part[b] = "free"
      /\ allocated' = [allocated EXCEPT ![d] = allocated[d] + 1] /\ allocated[d] < Limit
  BY DEF TakeBuf, CanGet
<1>3. OutWaitsOnlyIfExhausted'
  <2>1. waiting["out"] # << >> => d # "out"
    BY <1>2, FS_CardinalityType, BufsAssumption DEF WaitInv, OutWaitsOnlyIfExhausted, PoolType, Limit, Dirs
  <2>. QED BY <1>2, <2>1 DEF WaitInv, OutWaitsOnlyIfExhausted, PoolType, Dirs
<1>4. Half("in") \subseteq Half("in")' /\ (d = "in" => b \in Half("in")')
  BY <1>2 DEF Half, PoolType, Dirs
<1>5. ns_build \/ InWaitHasWaker'
  BY <1>4 DEF WaitInv, InWaitHasWaker
<1>. QED BY <1>1, <1>3, <1>5 DEF WaitInv, RequestEntries

LEMMA LimitPositive == Limit \in Nat \ {0}
BY FS_CardinalityType, BufsAssumption DEF Limit

\* A queued request: its half is exhausted, so somebody owns a buffer of it.
LEMMA WaitQueue ==
  ASSUME PoolType, WaitInv, NEW d \in Dirs, NEW r \in Requests, AppGetDelayedWait(d, r)
  PROVE  WaitInv'
<1>1. /\ UNCHANGED <<ns_build, part, allocated, rx_pending, rx_need_buf>> /\ ~CanGet(d)
      /\ waiting' = [waiting EXCEPT ![d] = Append(waiting[d], r)]
      /\ buf_freelist > 0 /\ buf_freelist' = buf_freelist - 1
  BY DEF AppGetDelayedWait, poolVars, rxVars
<1>2. HalvesIndependent
  BY CountedHalves DEF WaitInv
<1>3. allocated[d] = Limit /\ allocated[d] = Cardinality(Half(d))
  BY <1>1, <1>2, LimitPositive DEF HalvesIndependent, PoolType
<1>4. Half(d) # {}
  BY <1>3, LimitPositive, FS_EmptySet
<1>5. \A e : Half(e)' = Half(e)
  BY <1>1 DEF Half
<1>6. Counted'
  BY <1>1, <1>5 DEF WaitInv, Counted
<1>7. waiting[d] \in Seq(Requests) /\ Len(Append(waiting[d], r)) = Len(waiting[d]) + 1
  BY DEF PoolType
<1>8. \A e \in Dirs : e # d => waiting'[e] = waiting[e]
  BY <1>1 DEF PoolType
<1>9. Len(waiting'[d]) = Len(waiting[d]) + 1
  BY <1>1, <1>7 DEF PoolType
<1>10. OutWaitsOnlyIfExhausted'
  BY <1>1, <1>3, <1>8 DEF WaitInv, OutWaitsOnlyIfExhausted, Dirs
<1>11. /\ Len(waiting["in"]) \in Nat /\ Len(waiting["out"]) \in Nat
       /\ buf_freelist \in Nat /\ BufQSize \in Nat
  BY SizesAssumption DEF PoolType, Dirs
<1>12. RequestEntries'
  <2>0. buf_freelist + Len(waiting["in"]) + Len(waiting["out"]) = BufQSize
    BY DEF WaitInv, RequestEntries
  <2>a. buf_freelist' = buf_freelist - 1
    BY <1>1
  <2>1. CASE d = "in"
    <3>1. waiting'["out"] = waiting["out"] /\ Len(waiting'["in"]) = Len(waiting["in"]) + 1
      BY <2>1, <1>8, <1>9 DEF Dirs
    <3>2. \A i, o \in Nat : buf_freelist + i + o = BufQSize => (buf_freelist - 1) + (i + 1) + o = BufQSize
      BY <1>11
    <3>3. (buf_freelist - 1) + (Len(waiting["in"]) + 1) + Len(waiting["out"]) = BufQSize
      BY <2>0, <1>11, <3>2, Zenon
    <3>4. Len(waiting'["out"]) = Len(waiting["out"])
      BY <3>1
    <3>5. buf_freelist' + Len(waiting'["in"]) + Len(waiting'["out"]) = BufQSize
      BY <3>1, <3>3, <3>4, <2>a, Zenon
    <3>. QED BY <3>5 DEF RequestEntries
  <2>2. CASE d = "out"
    <3>1. waiting'["in"] = waiting["in"] /\ Len(waiting'["out"]) = Len(waiting["out"]) + 1
      BY <2>2, <1>8, <1>9 DEF Dirs
    <3>2. \A i, o \in Nat : buf_freelist + i + o = BufQSize => (buf_freelist - 1) + i + (o + 1) = BufQSize
      BY <1>11
    <3>3. (buf_freelist - 1) + Len(waiting["in"]) + (Len(waiting["out"]) + 1) = BufQSize
      BY <2>0, <1>11, <3>2, Zenon
    <3>4. Len(waiting'["in"]) = Len(waiting["in"])
      BY <3>1
    <3>5. buf_freelist' + Len(waiting'["in"]) + Len(waiting'["out"]) = BufQSize
      BY <3>1, <3>3, <3>4, <2>a, Zenon
    <3>. QED BY <3>5 DEF RequestEntries
  <2>. QED BY <2>1, <2>2 DEF Dirs
<1>13. ns_build \/ InWaitHasWaker'
  BY <1>1, <1>4, <1>5, <1>8 DEF WaitInv, InWaitHasWaker, Dirs
<1>. QED BY <1>1, <1>6, <1>10, <1>12, <1>13 DEF WaitInv, NeedMeansPending

\* zb_free_buf: a request is served and the counters stay, or the buffer goes
\* back to a half nobody waits for, or it is left for the receiver.
LEMMA WaitFree ==
  ASSUME PoolType, OneOwner, WaitInv, NEW b \in held, FreeBuf(b),
         UNCHANGED <<ns_build, rx_pending, rx_need_buf>>
  PROVE  WaitInv'
<1>0. b \in Bufs /\ part[b] \in Dirs
  BY DEF PoolType, OneOwner
<1>. DEFINE d == part[b]
<1>1. CASE Serves(b)
  <2>1. /\ UNCHANGED <<part, allocated>> /\ waiting[d] # << >>
        /\ waiting' = [waiting EXCEPT ![d] = Tail(waiting[d])]
        /\ buf_freelist' = buf_freelist + 1
    BY <1>1 DEF FreeBuf, Serves, poolVars
  <2>2. waiting[d] \in Seq(Requests) /\ Len(waiting[d]) \in Nat
    BY <1>0 DEF PoolType
  <2>3. Len(Tail(waiting[d])) = Len(waiting[d]) - 1
    BY <2>1, <2>2, HeadTailProperties
  <2>4. waiting'[d] = Tail(waiting[d]) /\ \A e \in Dirs : e # d => waiting'[e] = waiting[e]
    BY <1>0, <2>1 DEF PoolType
  <2>5. \A e : Half(e)' = Half(e)
    BY <2>1 DEF Half
  <2>6. Counted'
    BY <2>1, <2>5 DEF WaitInv, Counted
  <2>7. OutWaitsOnlyIfExhausted'
    BY <1>0, <2>1, <2>4 DEF WaitInv, OutWaitsOnlyIfExhausted, Dirs
  <2>8. ns_build \/ InWaitHasWaker'
    BY <1>0, <2>1, <2>4, <2>5 DEF WaitInv, InWaitHasWaker, Dirs
  <2>9. /\ Len(waiting["in"]) \in Nat /\ Len(waiting["out"]) \in Nat
        /\ buf_freelist \in Nat /\ BufQSize \in Nat
        /\ buf_freelist + Len(waiting["in"]) + Len(waiting["out"]) = BufQSize
    BY SizesAssumption DEF PoolType, Dirs, WaitInv, RequestEntries
  <2>10. RequestEntries'
    <3>a. buf_freelist' = buf_freelist + 1
      BY <2>1
    <3>1. CASE d = "in"
      <4>1. waiting'["out"] = waiting["out"] /\ Len(waiting'["in"]) = Len(waiting["in"]) - 1
        BY <3>1, <2>3, <2>4 DEF Dirs
      <4>2. \A i, o \in Nat : buf_freelist + i + o = BufQSize => (buf_freelist + 1) + (i - 1) + o = BufQSize
        BY <2>9
      <4>3. (buf_freelist + 1) + (Len(waiting["in"]) - 1) + Len(waiting["out"]) = BufQSize
        BY <2>9, <4>2, Zenon
      <4>4. Len(waiting'["out"]) = Len(waiting["out"])
        BY <4>1
      <4>5. buf_freelist' + Len(waiting'["in"]) + Len(waiting'["out"]) = BufQSize
        BY <4>1, <4>3, <4>4, <3>a, Zenon
      <4>. QED BY <4>5 DEF RequestEntries
    <3>2. CASE d = "out"
      <4>1. waiting'["in"] = waiting["in"] /\ Len(waiting'["out"]) = Len(waiting["out"]) - 1
        BY <3>2, <2>3, <2>4 DEF Dirs
      <4>2. \A i, o \in Nat : buf_freelist + i + o = BufQSize => (buf_freelist + 1) + i + (o - 1) = BufQSize
        BY <2>9
      <4>3. (buf_freelist + 1) + Len(waiting["in"]) + (Len(waiting["out"]) - 1) = BufQSize
        BY <2>9, <4>2, Zenon
      <4>4. Len(waiting'["in"]) = Len(waiting["in"])
        BY <4>1
      <4>5. buf_freelist' + Len(waiting'["in"]) + Len(waiting'["out"]) = BufQSize
        BY <4>1, <4>3, <4>4, <3>a, Zenon
      <4>. QED BY <4>5 DEF RequestEntries
    <3>. QED BY <1>0, <3>1, <3>2 DEF Dirs
  <2>. QED BY <2>6, <2>7, <2>8, <2>10 DEF WaitInv, NeedMeansPending
<1>2. CASE ~Serves(b)
  <2>1. /\ part' = [part EXCEPT ![b] = "free"]
        /\ allocated' = [allocated EXCEPT ![d] = allocated[d] - 1]
        /\ UNCHANGED <<waiting, buf_freelist>>
        /\ waiting[d] = << >> \/ (d = "in" /\ rx_need_buf)
    BY <1>2 DEF FreeBuf, Serves, reqVars
  <2>2. Counted'
    BY <1>0, <2>1, CountReturn DEF WaitInv
  <2>3. OutWaitsOnlyIfExhausted'
    BY <1>0, <2>1 DEF WaitInv, OutWaitsOnlyIfExhausted, PoolType, Dirs
  <2>4. ns_build \/ InWaitHasWaker'
    <3>1. CASE d = "in"
      BY <2>1, <3>1 DEF WaitInv, InWaitHasWaker, NeedMeansPending
    <3>2. CASE d = "out"
      <4>1. Half("in")' = Half("in")
        BY <1>0, <2>1, <3>2 DEF Half, PoolType, Dirs
      <4>. QED BY <2>1, <4>1 DEF WaitInv, InWaitHasWaker
    <3>. QED BY <1>0, <3>1, <3>2 DEF Dirs
  <2>. QED BY <2>1, <2>2, <2>3, <2>4 DEF WaitInv, NeedMeansPending, RequestEntries
<1>. QED BY <1>1, <1>2

LEMMA WaitStep == OwnerInv /\ NsParse /\ WaitInv /\ [Next]_vars => WaitInv'
<1>. SUFFICES ASSUME OwnerInv, NsParse, WaitInv, [Next]_vars PROVE WaitInv'
  OBVIOUS
<1>. USE DEF OwnerInv
<1>1. ASSUME NEW d \in Dirs, AppGet(d) PROVE WaitInv'
  <2>1. PICK b \in Bufs : TakeBuf(d, b)
    BY <1>1 DEF AppGet
  <2>2. UNCHANGED <<ns_build, waiting, buf_freelist, rx_pending, rx_need_buf>>
    BY <1>1 DEF AppGet, reqVars, rxVars
  <2>3. NeedMeansPending'
    BY <2>2 DEF WaitInv, NeedMeansPending
  <2>. QED BY <2>1, <2>2, <2>3, WaitTake
<1>2. ASSUME NEW d \in Dirs, NEW r \in Requests, AppGetDelayedNow(d, r) PROVE WaitInv'
  <2>1. PICK b \in Bufs : TakeBuf(d, b)
    BY <1>2 DEF AppGetDelayedNow
  <2>2. UNCHANGED <<ns_build, waiting, buf_freelist, rx_pending, rx_need_buf>>
    BY <1>2 DEF AppGetDelayedNow, reqVars, rxVars
  <2>3. NeedMeansPending'
    BY <2>2 DEF WaitInv, NeedMeansPending
  <2>. QED BY <2>1, <2>2, <2>3, WaitTake
<1>3. ASSUME NEW d \in Dirs, NEW r \in Requests, AppGetDelayedWait(d, r) PROVE WaitInv'
  BY <1>3, WaitQueue
<1>4. ASSUME NEW b \in Bufs, AppFree(b) PROVE WaitInv'
  BY <1>4, WaitFree DEF AppFree, rxVars
<1>5. CASE MacLoop
  <2>1. CASE Receive
    <3>1. PICK b \in Bufs : TakeBuf("in", b)
      BY <2>1 DEF Receive
    <3>2. UNCHANGED <<ns_build, waiting, buf_freelist>> /\ NeedMeansPending'
      BY <1>5, <2>1 DEF MacLoop, Receive, reqVars, NeedMeansPending
    <3>3. "in" \in Dirs
      BY DEF Dirs
    <3>. QED BY <3>1, <3>2, <3>3, WaitTake
  <2>2. CASE ReceiveLater
    <3>1. /\ UNCHANGED <<ns_build, part, allocated, waiting, buf_freelist>>
          /\ rx_pending' = TRUE /\ rx_need_buf' = TRUE
      BY <1>5, <2>2 DEF MacLoop, ReceiveLater, poolVars, reqVars
    <3>2. \A e : Half(e)' = Half(e)
      BY <3>1 DEF Half
    <3>. QED BY <3>1, <3>2 DEF WaitInv, Counted, OutWaitsOnlyIfExhausted, RequestEntries,
                NeedMeansPending, InWaitHasWaker
  <2>3. CASE UNCHANGED <<part, allocated, waiting, buf_freelist, rx_pending, rx_need_buf>>
    BY <1>5, <2>3, WaitUnchanged DEF MacLoop
  <2>. QED BY <1>5, <2>1, <2>2, <2>3 DEF MacLoop, poolVars, reqVars
<1>6. CASE ParseReturn
  <2>1. /\ UNCHANGED <<ns_build, part, allocated, waiting, buf_freelist, rx_pending>>
        /\ rx_need_buf' = FALSE
        /\ ns_build
    BY <1>6 DEF ParseReturn, poolVars, reqVars, NsParse
  <2>2. \A e : Half(e)' = Half(e)
    BY <2>1 DEF Half
  <2>. QED BY <2>1, <2>2 DEF WaitInv, Counted, OutWaitsOnlyIfExhausted, RequestEntries,
              NeedMeansPending
<1>7. CASE FrameArrives
  <2>1. /\ UNCHANGED <<ns_build, part, allocated, waiting, buf_freelist, rx_need_buf>>
        /\ rx_pending' = TRUE \/ rx_pending' = rx_pending
    BY <1>7 DEF FrameArrives, poolVars, reqVars
  <2>2. \A e : Half(e)' = Half(e)
    BY <2>1 DEF Half
  <2>. QED BY <2>1, <2>2 DEF WaitInv, Counted, OutWaitsOnlyIfExhausted, RequestEntries,
              NeedMeansPending, InWaitHasWaker
<1>8. CASE \/ \E b \in Bufs : AppPass(b) \/ ParseForgets(b)
           \/ AppCall \/ CallbackStart \/ CallbackReturn \/ CallbacksDone
           \/ AlarmStart \/ AlarmReturn \/ IterationEnds \/ UNCHANGED vars
  <2>1. UNCHANGED <<ns_build, part, allocated, waiting, buf_freelist, rx_pending, rx_need_buf>>
    BY <1>8 DEF AppPass, ParseForgets, AppCall, CallbackStart, CallbackReturn, CallbacksDone,
                AlarmStart, AlarmReturn, IterationEnds, vars, poolVars, reqVars, rxVars
  <2>. QED BY <2>1, WaitUnchanged
<1>. QED BY <1>1, <1>2, <1>3, <1>4, <1>5, <1>6, <1>7, <1>8 DEF Next, App, Loop

-----------------------------------------------------------------------------
LEMMA WaitInvariant == Spec => [](OwnerInv /\ NsParse /\ WaitInv)
<1>1. Init => NsParse
  BY DEF Init, NsParse
<1>. QED BY <1>1, OwnerInit, OwnerStep, NsParseStep, WaitInit, WaitStep, PTL DEF Spec

LEMMA FlagsStep == Flags /\ [Next]_vars => Flags'
<1>. SUFFICES ASSUME Flags, [Next]_vars PROVE Flags'
  OBVIOUS
<1>1. CASE MacLoop
  <2>1. trans_int' \in BOOLEAN /\ ns_build' = ns_build
    BY <1>1 DEF MacLoop
  <2>2. CASE Receive
    BY <1>1, <2>1, <2>2, Zenon DEF Receive, Flags
  <2>3. CASE ReceiveLater
    BY <2>1, <2>3, Zenon DEF ReceiveLater, Flags
  <2>4. CASE UNCHANGED <<rx_pending, rx_need_buf>>
    BY <2>1, <2>4, Zenon DEF Flags
  <2>. QED BY <1>1, <2>2, <2>3, <2>4 DEF MacLoop
<1>2. CASE ParseReturn
  BY <1>2, Zenon DEF ParseReturn, Flags
<1>3. CASE FrameArrives
  BY <1>3, Zenon DEF FrameArrives, Flags
<1>4. CASE App \/ CallbackStart \/ CallbackReturn \/ CallbacksDone
           \/ AlarmStart \/ AlarmReturn \/ IterationEnds \/ UNCHANGED vars
  <2>1. UNCHANGED rxVars
    BY <1>4 DEF App, AppGet, AppGetDelayedNow, AppGetDelayedWait, AppFree, AppPass, AppCall,
                ParseForgets, CallbackStart, CallbackReturn, CallbacksDone, AlarmStart,
                AlarmReturn, IterationEnds, vars
  <2>2. UNCHANGED <<ns_build, trans_int, rx_pending, rx_need_buf>>
    BY <2>1 DEF rxVars
  <2>. QED BY <2>2, Zenon DEF Flags
<1>. QED BY <1>1, <1>2, <1>3, <1>4 DEF Next, Loop

\* The type invariant, the bounds of the counters included: allocated never goes
\* below zero and buf_freelist never above its size.
THEOREM PoolTypes == Spec => []TypeOK
<1>1. Spec => []Flags
  <2>1. Init => Flags
    BY DEF Init, Flags
  <2>. QED BY <2>1, FlagsStep, PTL DEF Spec
<1>2. ASSUME Flags, OwnerInv, WaitInv PROVE TypeOK
  <2>. USE <1>2 DEF OwnerInv, WaitInv
  <2>1. allocated \in [Dirs -> Nat]
    <3>1. \A d \in Dirs : allocated[d] \in Nat
      BY HalfFinite DEF Counted
    <3>. QED BY <3>1 DEF PoolType
  <2>2. buf_freelist \in 0 .. BufQSize
    <3>1. Len(waiting["in"]) \in Nat /\ Len(waiting["out"]) \in Nat
      BY DEF PoolType, Dirs
    <3>2. BufQSize \in Nat /\ buf_freelist \in Nat
      BY SizesAssumption DEF PoolType
    <3>3. \A i, o \in Nat : buf_freelist + i + o = BufQSize => buf_freelist \in 0 .. BufQSize
      BY <3>2
    <3>. QED BY <3>1, <3>3, Zenon DEF RequestEntries
  <2>3. PoolType /\ LoopType /\ Flags
    OBVIOUS
  <2>. QED BY <2>1, <2>2, <2>3, Zenon DEF TypeOK, PoolType, LoopType, Flags, Calls
<1>. QED BY <1>1, <1>2, WaitInvariant, PTL

\* Every run of the loop keeps the two halves of the pool apart: the counters are
\* exact, and a half below its limit always has a buffer to give.
THEOREM PoolHalves == Spec => []HalvesIndependent
<1>1. OwnerInv /\ WaitInv => HalvesIndependent
  BY CountedHalves DEF OwnerInv, WaitInv
<1>. QED BY <1>1, WaitInvariant, PTL

\* No sender is left waiting in zb_get_out_buf_delayed while its half has a
\* buffer to give, and no entry for delayed requests is lost or used twice.
THEOREM SendersWait == Spec => [](OutWaitsOnlyIfExhausted /\ RequestEntries)
<1>1. WaitInv => OutWaitsOnlyIfExhausted /\ RequestEntries
  BY DEF WaitInv
<1>. QED BY <1>1, WaitInvariant, PTL

\* In the build where frames are parsed by a callback, a delayed request for an
\* in buffer always has somebody who will wake it.
THEOREM ReceiversWoken == Spec => []InWaitHasWaker
<1>1. WaitInv => InWaitHasWaker
  BY DEF WaitInv, InWaitHasWaker
<1>. QED BY <1>1, WaitInvariant, PTL

\* What the pool promises whoever uses it, for every pool, queue size and build.
THEOREM PoolIsSound == Spec => []PoolSound
<1>1. TypeOK /\ HalvesIndependent /\ OneOwner /\ (OutWaitsOnlyIfExhausted /\ RequestEntries)
        => PoolSound
  BY DEF PoolSound
<1>. QED BY <1>1, PoolTypes, PoolHalves, BufferOwnership, SendersWait, PTL

-----------------------------------------------------------------------------
\* The ring the callback queues are kept in.

\* One wrap is enough: the remainder of an index below twice the capacity.
LEMMA WrapOnce ==
  ASSUME NEW i \in 0 .. 2 * Capacity - 1
  PROVE  i % Capacity = IF i < Capacity THEN i ELSE i - Capacity
<1>1. CASE i < Capacity
  BY <1>1, CapacityAssumption, Z3
<1>2. CASE i >= Capacity
  <2>1. i = Capacity + (i - Capacity) /\ i - Capacity \in 0 .. Capacity - 1
    BY <1>2, CapacityAssumption
  <2>. QED BY <2>1, <1>2, CapacityAssumption, Z3
<1>. QED BY <1>1, <1>2, CapacityAssumption

\* Stepping an index: the wrapped sum steps with it.
LEMMA WrapStep ==
  ASSUME NEW r \in Slots, NEW w \in 0 .. Capacity
  PROVE  /\ NextSlot((r + w) % Capacity) =
              IF w < Capacity THEN (r + (w + 1)) % Capacity ELSE NextSlot(r)
         /\ w > 0 => (r + w) % Capacity = (NextSlot(r) + (w - 1)) % Capacity
         /\ NextSlot(r) \in Slots
         /\ (r + w) % Capacity \in Slots
<1>1. /\ NextSlot(r) = IF r + 1 < Capacity THEN r + 1 ELSE r + 1 - Capacity
      /\ (r + w) % Capacity = IF r + w < Capacity THEN r + w ELSE r + w - Capacity
  BY WrapOnce, CapacityAssumption, SMTT(30) DEF NextSlot, Slots
<1>2. NextSlot(r) \in Slots /\ (r + w) % Capacity \in Slots
  BY <1>1, CapacityAssumption DEF Slots
<1>3. \A j \in Slots : NextSlot(j) = IF j + 1 < Capacity THEN j + 1 ELSE j + 1 - Capacity
  BY WrapOnce, CapacityAssumption DEF NextSlot, Slots
<1>4. w < Capacity => (r + (w + 1)) % Capacity =
          IF r + w + 1 < Capacity THEN r + w + 1 ELSE r + w + 1 - Capacity
  BY WrapOnce, CapacityAssumption DEF Slots
<1>5. w > 0 => (NextSlot(r) + (w - 1)) % Capacity =
          IF NextSlot(r) + w - 1 < Capacity THEN NextSlot(r) + w - 1
                                            ELSE NextSlot(r) + w - 1 - Capacity
  <2>. HAVE w > 0
  <2>1. NextSlot(r) + (w - 1) \in 0 .. 2 * Capacity - 1
    BY <1>2, CapacityAssumption DEF Slots
  <2>. QED BY <2>1, WrapOnce, <1>2, CapacityAssumption DEF Slots
<1>. QED BY <1>1, <1>2, <1>3, <1>4, <1>5, CapacityAssumption DEF Slots

LEMMA FirstSlot ==
  ASSUME NEW r \in Slots
  PROVE  (r + 1 - 1) % Capacity = r
<1>1. r + 1 - 1 = r /\ r \in 0 .. 2 * Capacity - 1 /\ r < Capacity
  BY CapacityAssumption DEF Slots
<1>. QED BY <1>1, WrapOnce

\* Two entries of the ring never share a slot, and no entry is in the free slot.
LEMMA DistinctSlots ==
  ASSUME NEW r \in Slots, NEW w \in 0 .. Capacity,
         NEW k \in 1 .. w, w < Capacity
  PROVE  /\ (r + k - 1) % Capacity # (r + w) % Capacity
         /\ (r + k - 1) % Capacity \in Slots
<1>1. /\ (r + k - 1) % Capacity =
            IF r + k - 1 < Capacity THEN r + k - 1 ELSE r + k - 1 - Capacity
      /\ (r + w) % Capacity = IF r + w < Capacity THEN r + w ELSE r + w - Capacity
  BY WrapOnce, CapacityAssumption DEF Slots
<1>. QED BY <1>1, CapacityAssumption DEF Slots

RingInv == RingTypeOK /\ IndicesAgree

LEMMA InitRing == RingInit => RingInv
<1>. HAVE RingInit
<1>1. 0 \in Slots /\ 0 % Capacity = 0 /\ 0 + 0 = 0
  BY WrapOnce, CapacityAssumption DEF Slots
<1>2. RingTypeOK
  <2>1. peeked \in BOOLEAN
    BY Zenon DEF RingInit
  <2>. QED BY <1>1, <2>1, ZeroAssumption, CapacityAssumption DEF RingInit, RingTypeOK
<1>3. IndicesAgree
  BY <1>1 DEF RingInit, IndicesAgree
<1>. QED BY <1>2, <1>3 DEF RingInv

LEMMA NextRing == RingInv /\ [RingNext]_ringVars => RingInv'
<1>. SUFFICES ASSUME RingInv, [RingNext]_ringVars PROVE RingInv'
  OBVIOUS
<1>. USE DEF RingInv, RingTypeOK, IndicesAgree
<1>1. ASSUME NEW v \in Values, Put(v) PROVE RingInv'
  <2>1. written < Capacity /\ written + 1 \in 0 .. Capacity
    BY <1>1, CapacityAssumption DEF Put, IsFull
  <2>2. /\ NextSlot(write_i) = (read_i + (written + 1)) % Capacity
        /\ NextSlot(write_i) \in Slots
    BY WrapStep, <2>1
  <2>. QED BY <1>1, <2>1, <2>2 DEF Put
<1>2. CASE PutOverflow
  BY <1>2 DEF PutOverflow, ringVars
<1>3. CASE Peek
  BY <1>3 DEF Peek, IsEmpty
<1>4. CASE FlushGet
  <2>1. written > 0 /\ written - 1 \in 0 .. Capacity
    BY <1>4, CapacityAssumption DEF FlushGet
  <2>2. /\ (read_i + written) % Capacity = (NextSlot(read_i) + (written - 1)) % Capacity
        /\ NextSlot(read_i) \in Slots
    BY WrapStep, <2>1
  <2>. QED BY <1>4, <2>1, <2>2 DEF FlushGet
<1>5. CASE UNCHANGED ringVars
  BY <1>5 DEF ringVars
<1>. QED BY <1>1, <1>2, <1>3, <1>4, <1>5 DEF RingNext

\* zb_ringbuffer.h: for every capacity the indices and the count stay in range
\* and agree with each other.
THEOREM RingIndices == RingSpec => [](RingTypeOK /\ IndicesAgree)
<1>1. RingSpec => []RingInv
  BY InitRing, NextRing, PTL DEF RingSpec
<1>2. RingInv => RingTypeOK /\ IndicesAgree
  BY DEF RingInv
<1>. QED BY <1>1, <1>2, PTL

-----------------------------------------------------------------------------
\* The refinement mapping sends a put to the end of the abstract queue.
LEMMA ContentsType ==
  ASSUME RingInv
  PROVE  /\ Contents \in Seq(Values)
         /\ Len(Contents) = written
         /\ written > 0 => Head(Contents) = ring_buf[read_i] /\ Contents # << >>
<1>. USE DEF RingInv, RingTypeOK, IndicesAgree
<1>1. \A k \in 1 .. written : (read_i + k - 1) % Capacity \in Slots
  <2>. TAKE k \in 1 .. written
  <2>1. k - 1 \in 0 .. Capacity
    BY CapacityAssumption
  <2>. QED BY <2>1, WrapStep
<1>2. \A k \in 1 .. written : ring_buf[(read_i + k - 1) % Capacity] \in Values
  BY <1>1
<1>3. Contents \in Seq(Values) /\ Len(Contents) = written
  BY <1>2, CapacityAssumption DEF Contents
<1>4. ASSUME written > 0 PROVE Head(Contents) = ring_buf[read_i] /\ Contents # << >>
  <2>1. (read_i + 1 - 1) % Capacity = read_i
    BY FirstSlot
  <2>2. 1 \in 1 .. written
    BY <1>4, CapacityAssumption
  <2>3. Contents[1] = ring_buf[read_i]
    BY <2>1, <2>2, Zenon DEF Contents
  <2>. QED BY <1>3, <1>4, <2>3
<1>. QED BY <1>3, <1>4

LEMMA ContentsTypeNext == RingInv' => (Contents \in Seq(Values) /\ Len(Contents) = written)'
<1>1. RingInv => Contents \in Seq(Values) /\ Len(Contents) = written
  BY ContentsType
<1>. QED BY <1>1, PTL

LEMMA PutAppends ==
  ASSUME RingInv, RingInv', NEW v \in Values, Put(v)
  PROVE  Contents' = Append(Contents, v)
<1>. USE DEF RingInv, RingTypeOK, IndicesAgree
<1>1. written < Capacity /\ written' = written + 1 /\ read_i' = read_i
  BY CapacityAssumption DEF Put, IsFull
<1>2. ASSUME NEW k \in 1 .. written + 1
      PROVE  ring_buf'[(read_i + k - 1) % Capacity] =
               IF k = written + 1 THEN v ELSE ring_buf[(read_i + k - 1) % Capacity]
  <2>1. CASE k = written + 1
    <3>1. read_i + k - 1 = read_i + written
      BY <2>1, CapacityAssumption DEF Slots
    <3>. QED BY <3>1, <2>1 DEF Put
  <2>2. CASE k # written + 1
    <3>1. k \in 1 .. written
      BY <2>2, CapacityAssumption
    <3>2. (read_i + k - 1) % Capacity # write_i /\ (read_i + k - 1) % Capacity \in Slots
      BY <3>1, <1>1, DistinctSlots
    <3>. QED BY <3>2, <2>2 DEF Put
  <2>. QED BY <2>1, <2>2
<1>3. Contents' = [k \in 1 .. written + 1 |->
                     IF k = written + 1 THEN v ELSE ring_buf[(read_i + k - 1) % Capacity]]
  BY <1>1, <1>2 DEF Contents
<1>4. Contents \in Seq(Values) /\ Len(Contents) = written
  BY ContentsType
<1>5. /\ Append(Contents, v) \in Seq(Values)
      /\ Len(Append(Contents, v)) = written + 1
      /\ \A k \in 1 .. written + 1 :
           Append(Contents, v)[k] = IF k = written + 1 THEN v ELSE Contents[k]
  BY <1>4
<1>6. \A k \in 1 .. written + 1 : k # written + 1 =>
           Contents[k] = ring_buf[(read_i + k - 1) % Capacity]
  BY CapacityAssumption DEF Contents
<1>7. /\ Contents' \in Seq(Values) /\ Len(Contents') = written + 1
      /\ \A k \in 1 .. written + 1 : Contents'[k] = Append(Contents, v)[k]
  BY <1>2, <1>3, <1>5, <1>6, <1>1, ContentsTypeNext
<1>. QED BY <1>5, <1>7, SeqEqual

LEMMA GetDropsHead ==
  ASSUME RingInv, RingInv', FlushGet
  PROVE  Contents' = Tail(Contents)
<1>. USE DEF RingInv, RingTypeOK, IndicesAgree
<1>1. /\ written > 0 /\ written' = written - 1 /\ read_i' = NextSlot(read_i)
      /\ ring_buf' = ring_buf
  BY DEF FlushGet
<1>2. ASSUME NEW k \in 1 .. written - 1
      PROVE  (NextSlot(read_i) + k - 1) % Capacity = (read_i + (k + 1) - 1) % Capacity
  <2>1. k \in 0 .. Capacity /\ k > 0
    BY CapacityAssumption
  <2>2. (read_i + k) % Capacity = (NextSlot(read_i) + (k - 1)) % Capacity
    BY <2>1, WrapStep
  <2>3. NextSlot(read_i) + (k - 1) = NextSlot(read_i) + k - 1 /\ read_i + k = read_i + (k + 1) - 1
    BY WrapStep, <2>1, CapacityAssumption DEF Slots
  <2>. QED BY <2>2, <2>3
<1>3. Contents' = [k \in 1 .. written - 1 |-> ring_buf[(read_i + (k + 1) - 1) % Capacity]]
  BY <1>1, <1>2 DEF Contents
<1>4. Contents \in Seq(Values) /\ Len(Contents) = written
  BY ContentsType
<1>5. /\ Tail(Contents) \in Seq(Values)
      /\ Len(Tail(Contents)) = written - 1
      /\ \A k \in 1 .. written - 1 : Tail(Contents)[k] = Contents[k + 1]
  BY <1>1, <1>4, HeadTailProperties
<1>6. \A k \in 1 .. written - 1 : Contents[k + 1] = ring_buf[(read_i + (k + 1) - 1) % Capacity]
  <2>. TAKE k \in 1 .. written - 1
  <2>1. k + 1 \in 1 .. written
    BY CapacityAssumption
  <2>. QED BY <2>1, Zenon DEF Contents
<1>7. /\ Contents' \in Seq(Values) /\ Len(Contents') = written - 1
      /\ \A k \in 1 .. written - 1 : Contents'[k] = Tail(Contents)[k]
  BY <1>3, <1>5, <1>6, <1>1, ContentsTypeNext
<1>. QED BY <1>5, <1>7, SeqEqual

\* Every step of the ring is a step of the abstract queue, or leaves it alone.
LEMMA StepRefines ==
  ASSUME RingInv, RingInv', [RingNext]_ringVars
  PROVE  [Fifo!FifoNext]_(Fifo!fifoVars)
<1>. USE DEF Fifo!fifoVars, Fifo!FifoNext
<1>0. Len(Contents) = written /\ (peeked => written > 0)
  BY ContentsType DEF RingInv, IndicesAgree
<1>1. ASSUME NEW v \in Values, Put(v) PROVE Fifo!FifoPut(v)
  <2>1. Len(Contents) < Capacity
    BY <1>0, <1>1, CapacityAssumption DEF Put, IsFull, RingInv, RingTypeOK
  <2>2. Contents' = Append(Contents, v)
    BY <1>1, PutAppends
  <2>3. peeked' = peeked /\ (peeked => ring_buf'[read_i'] = ring_buf[read_i])
    <3>1. peeked' = peeked /\ read_i' = read_i
      BY <1>1 DEF Put
    <3>2. ASSUME peeked PROVE read_i # write_i
      <4>1. 1 \in 1 .. written /\ written < Capacity /\ written \in 0 .. Capacity /\ read_i \in Slots
        BY <3>2, <1>0, <1>1, CapacityAssumption DEF Put, IsFull, RingInv, RingTypeOK
      <4>2. (read_i + 1 - 1) % Capacity = read_i
        BY <4>1, FirstSlot
      <4>. QED BY <4>1, <4>2, DistinctSlots DEF RingInv, IndicesAgree
    <3>. QED BY <3>1, <3>2, <1>1 DEF Put, RingInv, RingTypeOK
  <2>. QED BY <2>1, <2>2, <2>3 DEF Fifo!FifoPut
<1>2. ASSUME PutOverflow PROVE UNCHANGED Fifo!fifoVars
  BY <1>2 DEF PutOverflow, ringVars, Contents
<1>3. ASSUME Peek PROVE Fifo!FifoBegin
  <2>1. Contents # << >> /\ Head(Contents) = ring_buf[read_i]
    BY <1>3, ContentsType DEF Peek, IsEmpty, RingInv, RingTypeOK
  <2>. QED BY <2>1, <1>3 DEF Peek, Fifo!FifoBegin, Contents
<1>4. ASSUME FlushGet PROVE Fifo!FifoEnd
  <2>1. peeked /\ ~peeked' /\ ring_buf[read_i] \in Values /\ Head(Contents) = ring_buf[read_i]
    BY <1>4, <1>0, ContentsType DEF FlushGet, RingInv, RingTypeOK
  <2>2. Contents' = Tail(Contents)
    BY <1>4, GetDropsHead
  <2>. QED BY <2>1, <2>2, NobodyAssumption DEF Fifo!FifoEnd
<1>5. ASSUME UNCHANGED ringVars PROVE UNCHANGED Fifo!fifoVars
  BY <1>5 DEF ringVars, Contents
<1>. QED BY <1>1, <1>2, <1>3, <1>4, <1>5 DEF RingNext

\* The ring buffer of zb_ringbuffer.h implements the bounded first-in first-out
\* queue whatever its capacity: the order of the entries is kept across the wrap
\* of both indices, and the entry being served is never overwritten by the puts
\* of the function it calls.
THEOREM RingImplementsFifo == RingSpec => ImplementsFifo
<1>1. RingInit => Fifo!FifoInit
  <2>. HAVE RingInit
  <2>1. Contents = << >>
    BY DEF RingInit, Contents
  <2>. QED BY <2>1 DEF RingInit, Fifo!FifoInit
<1>2. RingInv /\ RingInv' /\ [RingNext]_ringVars => [Fifo!FifoNext]_(Fifo!fifoVars)
  BY StepRefines
<1>3. RingSpec => []RingInv
  BY InitRing, NextRing, PTL DEF RingSpec
<1>. QED BY <1>1, <1>2, <1>3, PTL DEF RingSpec, ImplementsFifo, Fifo!FifoSpec
-----------------------------------------------------------------------------
\* The alarms.

-----------------------------------------------------------------------------
\* Natural numbers.

Below == {ss \in Nat \X Nat : ss[1] < ss[2]}

LEMMA BelowWellFounded == IsWellFoundedOn(Below, Nat)
BY NatLessThanWellFounded DEF OpToRel, Below

\* A set of natural numbers that is not empty has a least element.
LEMMA LeastElement ==
  ASSUME NEW S \in SUBSET Nat, S # {}
  PROVE  \E x \in S : \A y \in S : x <= y
<1>1. PICK x \in S : \A y \in S : ~(<<y, x>> \in Below)
  BY BelowWellFounded, WFMin
<1>2. \A y \in S : ~(y < x)
  BY <1>1 DEF Below
<1>. QED BY <1>2

\* Induction: a set with 0 and with the successor of each element.
LEMMA NatClosed ==
  ASSUME NEW T, 0 \in T, \A n \in Nat : n \in T => n + 1 \in T
  PROVE  Nat \subseteq T
<1>1. SUFFICES ASSUME Nat \ T # {} PROVE FALSE
  OBVIOUS
<1>2. PICK x \in Nat \ T : \A y \in Nat \ T : x <= y
  <2>1. Nat \ T \in SUBSET Nat
    OBVIOUS
  <2>. QED BY <1>1, <2>1, LeastElement
<1>3. x # 0 /\ x - 1 \in Nat
  BY <1>2
<1>4. x - 1 \in T
  BY <1>2, <1>3
<1>5. (x - 1) + 1 \in T
  BY <1>3, <1>4
<1>. QED BY <1>2, <1>3, <1>5

-----------------------------------------------------------------------------
\* The clock.
Times == 0 .. TimeMod - 1

LEMMA TimeFacts ==
  /\ TimeMod \in Nat \ {0} /\ HALF \in Nat /\ 2 * HALF < TimeMod
  /\ MaxSleep \in Nat \ {0} /\ MaxSleep > Overshoot /\ Overshoot \in Nat
  /\ DefaultTimeout \in Nat /\ MaxSleep = DefaultTimeout + Overshoot
  /\ Delays \subseteq Nat /\ \A d \in Delays : d + MaxSleep < HALF
BY TimeAssumption DEF HALF, MaxSleep

\* A number that leaves the range of the clock by less than a round.
LEMMA OneWrap ==
  ASSUME NEW M \in Nat \ {0}, NEW x \in Int, - M <= x, x < 2 * M
  PROVE  x % M = IF x < 0 THEN x + M ELSE IF x < M THEN x ELSE x - M
<1>1. CASE x < 0
  <2>1. x + M \in 0 .. M - 1
    BY <1>1
  <2>2. (x + M) % M = x + M
    BY <2>1
  <2>3. (x + M) % M = x % M
    OBVIOUS
  <2>. QED BY <1>1, <2>2, <2>3
<1>2. CASE x \in 0 .. M - 1
  BY <1>2
<1>3. CASE x >= M
  <2>1. x - M \in 0 .. M - 1
    BY <1>3
  <2>2. (x - M) % M = x - M
    BY <2>1
  <2>3. (x - M) % M = x % M
    OBVIOUS
  <2>. QED BY <1>3, <2>2, <2>3
<1>. QED BY <1>1, <1>2, <1>3

\* Times that lie less than half a round from now are compared as they are.
LEMMA TimesFromNow ==
  ASSUME NEW t \in Times, NEW x \in Int, NEW y \in Int,
         - HALF < x, x < HALF, - HALF < y, y < HALF, - HALF < x - y, x - y < HALF
  PROVE  /\ TimeAdd(t, x) \in Times
         /\ TimeGe(TimeAdd(t, x), TimeAdd(t, y)) <=> x >= y
         /\ TimeSubtract(TimeAdd(t, x), TimeAdd(t, y)) = IF x >= y THEN x - y ELSE y - x
<1>. DEFINE a == TimeAdd(t, x)
            b == TimeAdd(t, y)
<1>t. TimeMod \in Nat \ {0} /\ HALF \in Nat /\ 2 * HALF < TimeMod /\ t \in 0 .. TimeMod - 1
  BY TimeFacts DEF Times
<1>1. a = IF t + x < 0 THEN t + x + TimeMod ELSE IF t + x < TimeMod THEN t + x ELSE t + x - TimeMod
  <2>1. PICK z \in Int : z = t + x
    BY <1>t
  <2>2. - TimeMod <= z /\ z < 2 * TimeMod
    BY <1>t, <2>1
  <2>3. z % TimeMod = IF z < 0 THEN z + TimeMod ELSE IF z < TimeMod THEN z ELSE z - TimeMod
    BY <1>t, <2>2, OneWrap
  <2>4. TimeAdd(t, x) = z % TimeMod
    BY <2>1 DEF TimeAdd
  <2>. QED BY <1>t, <2>1, <2>3, <2>4
<1>2. b = IF t + y < 0 THEN t + y + TimeMod ELSE IF t + y < TimeMod THEN t + y ELSE t + y - TimeMod
  <2>1. PICK z \in Int : z = t + y
    BY <1>t
  <2>2. - TimeMod <= z /\ z < 2 * TimeMod
    BY <1>t, <2>1
  <2>3. z % TimeMod = IF z < 0 THEN z + TimeMod ELSE IF z < TimeMod THEN z ELSE z - TimeMod
    BY <1>t, <2>2, OneWrap
  <2>4. TimeAdd(t, y) = z % TimeMod
    BY <2>1 DEF TimeAdd
  <2>. QED BY <1>t, <2>1, <2>3, <2>4
<1>3. a \in 0 .. TimeMod - 1 /\ b \in 0 .. TimeMod - 1
  BY <1>t, <1>1, <1>2
<1>4. /\ a - b \in {x - y, x - y + TimeMod, x - y - TimeMod}
      /\ b - a \in {y - x, y - x + TimeMod, y - x - TimeMod}
  BY <1>t, <1>1, <1>2
<1>5. /\ a - b \in Int /\ - TimeMod <= a - b /\ a - b < 2 * TimeMod
      /\ b - a \in Int /\ - TimeMod <= b - a /\ b - a < 2 * TimeMod
  BY <1>t, <1>3
<1>. HIDE DEF a, b
<1>6. /\ (a - b) % TimeMod = IF a - b < 0 THEN a - b + TimeMod
                             ELSE IF a - b < TimeMod THEN a - b ELSE a - b - TimeMod
      /\ (b - a) % TimeMod = IF b - a < 0 THEN b - a + TimeMod
                             ELSE IF b - a < TimeMod THEN b - a ELSE b - a - TimeMod
  BY <1>t, <1>5, OneWrap
<1>7. /\ (a - b) % TimeMod = IF x >= y THEN x - y ELSE x - y + TimeMod
      /\ (b - a) % TimeMod = IF y >= x THEN y - x ELSE y - x + TimeMod
  BY <1>t, <1>3, <1>4, <1>6
<1>8. (a - b) % TimeMod < HALF <=> x >= y
  BY <1>t, <1>7
<1>9. (IF (a - b) % TimeMod < HALF THEN (a - b) % TimeMod ELSE (b - a) % TimeMod)
        = IF x >= y THEN x - y ELSE y - x
  BY <1>t, <1>7, <1>8
<1>. QED BY <1>3, <1>8, <1>9 DEF a, b, TimeGe, TimeSubtract, Times

-----------------------------------------------------------------------------
\* Sequences: insertion, removal of one element, removal of several.
LEMMA InsertedAt ==
  ASSUME NEW S, NEW q \in Seq(S), NEW e \in S, NEW i \in 1 .. Len(q) + 1
  PROVE  /\ InsertAt(q, i, e) \in Seq(S) /\ Len(InsertAt(q, i, e)) = Len(q) + 1
         /\ \A k \in 1 .. i - 1 : InsertAt(q, i, e)[k] = q[k]
         /\ InsertAt(q, i, e)[i] = e
         /\ \A k \in i + 1 .. Len(q) + 1 : InsertAt(q, i, e)[k] = q[k - 1]
<1>. DEFINE a == SubSeq(q, 1, i - 1)
            m == <<e>>
            z == SubSeq(q, i, Len(q))
<1>t. Len(q) \in Nat /\ i \in Int /\ i - 1 \in Int /\ 1 \in Int /\ Len(q) \in Int
      /\ \A k \in 1 .. Len(q) : q[k] \in S
  BY LenProperties, ElementOfSeq
<1>1. a \in Seq(S) /\ Len(a) = i - 1 /\ \A k \in 1 .. i - 1 : a[k] = q[k]
  <2>1. \A k \in 1 .. i - 1 : q[k] \in S
    BY <1>t
  <2>. HIDE DEF a
  <2>2. /\ a \in Seq(S) /\ Len(a) = IF 1 <= i - 1 THEN i - 1 - 1 + 1 ELSE 0
        /\ \A k \in 1 .. i - 1 - 1 + 1 : a[k] = q[1 + k - 1]
    BY <1>t, <2>1, SubSeqProperties DEF a
  <2>. QED BY <1>t, <2>2
<1>2. /\ z \in Seq(S) /\ Len(z) = Len(q) - i + 1
      /\ \A k \in 1 .. Len(q) - i + 1 : z[k] = q[i + k - 1]
  <2>1. \A k \in i .. Len(q) : q[k] \in S
    BY <1>t
  <2>. HIDE DEF z
  <2>2. /\ z \in Seq(S) /\ Len(z) = IF i <= Len(q) THEN Len(q) - i + 1 ELSE 0
        /\ \A k \in 1 .. Len(q) - i + 1 : z[k] = q[i + k - 1]
    BY <1>t, <2>1, SubSeqProperties DEF z
  <2>. QED BY <1>t, <2>2
<1>3. m \in Seq(S) /\ Len(m) = 1 /\ m[1] = e
  OBVIOUS
<1>. HIDE DEF a, m, z
<1>4. /\ a \o m \in Seq(S) /\ Len(a \o m) = i
      /\ \A k \in 1 .. i : (a \o m)[k] = IF k <= i - 1 THEN a[k] ELSE m[k - (i - 1)]
  <2>1. /\ a \o m \in Seq(S) /\ Len(a \o m) = Len(a) + Len(m)
        /\ \A k \in 1 .. Len(a) + Len(m) :
             (a \o m)[k] = IF k <= Len(a) THEN a[k] ELSE m[k - Len(a)]
    BY <1>1, <1>3, ConcatProperties
  <2>2. Len(a) + Len(m) = i
    BY <1>t, <1>1, <1>3
  <2>. QED BY <1>1, <2>1, <2>2
<1>5. PICK am \in Seq(S) : am = a \o m
  BY <1>4
<1>6. /\ am \o z \in Seq(S) /\ Len(am \o z) = Len(q) + 1
      /\ \A k \in 1 .. Len(q) + 1 : (am \o z)[k] = IF k <= i THEN am[k] ELSE z[k - i]
  <2>1. /\ am \o z \in Seq(S) /\ Len(am \o z) = Len(am) + Len(z)
        /\ \A k \in 1 .. Len(am) + Len(z) :
             (am \o z)[k] = IF k <= Len(am) THEN am[k] ELSE z[k - Len(am)]
    BY <1>2, ConcatProperties
  <2>2. Len(am) = i /\ Len(am) + Len(z) = Len(q) + 1
    <3>1. Len(am) = i
      BY <1>4, <1>5, Zenon
    <3>. QED BY <1>t, <1>2, <3>1
  <2>. QED BY <2>1, <2>2
<1>7. InsertAt(q, i, e) = am \o z
  BY <1>5 DEF InsertAt, a, m, z
<1>8. am[i] = e /\ \A k \in 1 .. i - 1 : am[k] = q[k]
  <2>1. i - (i - 1) = 1 /\ i \in 1 .. i /\ ~(i <= i - 1)
    BY <1>t
  <2>2. am[i] = e
    BY <1>3, <1>4, <1>5, <2>1
  <2>3. \A k \in 1 .. i - 1 : k \in 1 .. i /\ k <= i - 1
    BY <1>t
  <2>. QED BY <1>1, <1>4, <1>5, <2>2, <2>3
<1>9. \A k \in i + 1 .. Len(q) + 1 :
        k - i \in 1 .. Len(q) - i + 1 /\ i + (k - i) - 1 = k - 1 /\ ~(k <= i)
  BY <1>t
<1>10. \A k \in i + 1 .. Len(q) + 1 : (am \o z)[k] = q[k - 1]
  BY <1>t, <1>2, <1>6, <1>9
<1>. QED BY <1>t, <1>6, <1>7, <1>8, <1>10

\* o has elements of q, in their order.
Sub(o, q) ==
  /\ Len(o) <= Len(q)
  /\ \E g \in [1 .. Len(o) -> 1 .. Len(q)] :
       /\ \A j, k \in 1 .. Len(o) : j < k => g[j] < g[k]
       /\ \A j \in 1 .. Len(o) : o[j] = q[g[j]]

LEMMA RemovedAt ==
  ASSUME NEW S, NEW q \in Seq(S), NEW i \in 1 .. Len(q)
  PROVE  RemoveAt(q, i) \in Seq(S) /\ Sub(RemoveAt(q, i), q)
<1>. DEFINE a == SubSeq(q, 1, i - 1)
            z == SubSeq(q, i + 1, Len(q))
            o == RemoveAt(q, i)
<1>t. Len(q) \in Nat /\ i \in Int /\ i - 1 \in Int /\ i + 1 \in Int /\ 1 \in Int /\ Len(q) \in Int
      /\ \A k \in 1 .. Len(q) : q[k] \in S
  BY LenProperties, ElementOfSeq
<1>1. a \in Seq(S) /\ Len(a) = i - 1 /\ \A k \in 1 .. i - 1 : a[k] = q[k]
  <2>1. \A k \in 1 .. i - 1 : q[k] \in S
    BY <1>t
  <2>. HIDE DEF a
  <2>2. /\ a \in Seq(S) /\ Len(a) = IF 1 <= i - 1 THEN i - 1 - 1 + 1 ELSE 0
        /\ \A k \in 1 .. i - 1 - 1 + 1 : a[k] = q[1 + k - 1]
    BY <1>t, <2>1, SubSeqProperties DEF a
  <2>. QED BY <1>t, <2>2
<1>2. /\ z \in Seq(S) /\ Len(z) = Len(q) - i
      /\ \A k \in 1 .. Len(q) - i : z[k] = q[i + k]
  <2>1. \A k \in i + 1 .. Len(q) : q[k] \in S
    BY <1>t
  <2>. HIDE DEF z
  <2>2. /\ z \in Seq(S) /\ Len(z) = IF i + 1 <= Len(q) THEN Len(q) - (i + 1) + 1 ELSE 0
        /\ \A k \in 1 .. Len(q) - (i + 1) + 1 : z[k] = q[(i + 1) + k - 1]
    BY <1>t, <2>1, SubSeqProperties DEF z
  <2>. QED BY <1>t, <2>2
<1>. HIDE DEF a, z
<1>3. /\ a \o z \in Seq(S) /\ Len(a \o z) = Len(q) - 1
      /\ \A k \in 1 .. Len(q) - 1 : (a \o z)[k] = IF k <= i - 1 THEN a[k] ELSE z[k - (i - 1)]
  <2>1. /\ a \o z \in Seq(S) /\ Len(a \o z) = Len(a) + Len(z)
        /\ \A k \in 1 .. Len(a) + Len(z) : (a \o z)[k] = IF k <= Len(a) THEN a[k] ELSE z[k - Len(a)]
    BY <1>1, <1>2, ConcatProperties
  <2>2. Len(a) = i - 1 /\ Len(a) + Len(z) = Len(q) - 1
    BY <1>t, <1>1, <1>2
  <2>. QED BY <2>1, <2>2
<1>4. o = a \o z
  BY DEF RemoveAt, a, z
<1>. DEFINE g == [k \in 1 .. Len(q) - 1 |-> IF k < i THEN k ELSE k + 1]
<1>5. g \in [1 .. Len(q) - 1 -> 1 .. Len(q)]
  BY <1>t
<1>6. \A j, k \in 1 .. Len(q) - 1 : j < k => g[j] < g[k]
  BY <1>t
<1>7. ASSUME NEW k \in 1 .. Len(q) - 1 PROVE o[k] = q[g[k]]
  <2>1. CASE k < i
    BY <1>t, <1>1, <1>3, <1>4, <2>1
  <2>2. CASE ~(k < i)
    <3>1. k - (i - 1) \in 1 .. Len(q) - i /\ i + (k - (i - 1)) = k + 1 /\ ~(k <= i - 1)
      BY <1>t, <2>2
    <3>. QED BY <1>2, <1>3, <1>4, <2>2, <3>1
  <2>. QED BY <2>1, <2>2
<1>8. Len(o) = Len(q) - 1
  BY <1>3, <1>4
<1>. HIDE DEF g, o
<1>9. Sub(o, q)
  <2>1. Len(o) <= Len(q)
    BY <1>t, <1>8
  <2>2. g \in [1 .. Len(o) -> 1 .. Len(q)]
    BY <1>5, <1>8
  <2>3. /\ \A j, k \in 1 .. Len(o) : j < k => g[j] < g[k]
        /\ \A j \in 1 .. Len(o) : o[j] = q[g[j]]
    BY <1>6, <1>7, <1>8
  <2>. QED BY <2>1, <2>2, <2>3, Zenon DEF Sub
<1>. QED BY <1>3, <1>4, <1>9 DEF o

\* The recursive function of Without exists: it is built from the front.
Filtered(q, f, h, n) ==
  IF n = 0 THEN << >>
  ELSE IF q[n].func = f THEN h[n - 1] ELSE Append(h[n - 1], q[n])

IsFilter(S, q, f, h, n) ==
  h \in [0 .. n -> Seq(S)] /\ \A m \in 0 .. n : h[m] = Filtered(q, f, h, m)

LEMMA FilterExists ==
  ASSUME NEW S, NEW q \in Seq(S), NEW f
  PROVE  \E h : IsFilter(S, q, f, h, Len(q))
<1>. DEFINE T == {n \in Nat : n <= Len(q) => \E h : IsFilter(S, q, f, h, n)}
<1>t. Len(q) \in Nat /\ \A k \in 1 .. Len(q) : q[k] \in S
  BY LenProperties, ElementOfSeq
<1>1. 0 \in T
  <2>. DEFINE h0 == [m \in 0 .. 0 |-> << >>]
  <2>1. << >> \in Seq(S)
    OBVIOUS
  <2>2. IsFilter(S, q, f, h0, 0)
    BY <2>1 DEF IsFilter, Filtered
  <2>. QED BY <2>2
<1>2. ASSUME NEW n \in Nat, n \in T PROVE n + 1 \in T
  <2>1. SUFFICES ASSUME n + 1 <= Len(q) PROVE \E h : IsFilter(S, q, f, h, n + 1)
    OBVIOUS
  <2>2. PICK h : IsFilter(S, q, f, h, n)
    BY <1>t, <1>2, <2>1
  <2>3. h[n] \in Seq(S) /\ q[n + 1] \in S
    BY <1>t, <2>1, <2>2 DEF IsFilter
  <2>4. PICK last \in Seq(S) : last = IF q[n + 1].func = f THEN h[n] ELSE Append(h[n], q[n + 1])
    BY <2>3, AppendProperties
  <2>. DEFINE g == [m \in 0 .. n + 1 |-> IF m = n + 1 THEN last ELSE h[m]]
  <2>5. g \in [0 .. n + 1 -> Seq(S)]
    BY <2>2 DEF IsFilter
  <2>6. ASSUME NEW m \in 0 .. n + 1 PROVE g[m] = Filtered(q, f, g, m)
    <3>1. CASE m = n + 1
      <4>1. g[m] = last /\ m # 0 /\ m - 1 = n /\ g[m - 1] = h[n]
        BY <3>1
      <4>. HIDE DEF g
      <4>. QED BY <2>4, <3>1, <4>1 DEF Filtered
    <3>2. CASE m # n + 1
      <4>1. m \in 0 .. n /\ g[m] = h[m] /\ (m # 0 => g[m - 1] = h[m - 1])
        BY <3>2
      <4>2. h[m] = Filtered(q, f, h, m)
        BY <2>2, <4>1 DEF IsFilter
      <4>. HIDE DEF g
      <4>. QED BY <4>1, <4>2 DEF Filtered
    <3>. QED BY <3>1, <3>2
  <2>. HIDE DEF g
  <2>7. IsFilter(S, q, f, g, n + 1)
    BY <2>5, <2>6 DEF IsFilter
  <2>. QED BY <2>7
<1>3. Nat \subseteq T
  <2>. HIDE DEF T
  <2>. QED BY <1>1, <1>2, NatClosed
<1>. QED BY <1>t, <1>3

LEMMA WithoutFilters ==
  ASSUME NEW S, NEW q \in Seq(S), NEW f
  PROVE  \E h : /\ Without(q, f) = h[Len(q)]
                /\ \A n \in 0 .. Len(q) : h[n] = Filtered(q, f, h, n)
<1>. DEFINE Rest(h) == h = [n \in 0 .. Len(q) |-> Filtered(q, f, h, n)]
            rest == CHOOSE h : Rest(h)
<1>1. \A h : IsFilter(S, q, f, h, Len(q)) => Rest(h)
  BY DEF IsFilter
<1>2. PICK h : IsFilter(S, q, f, h, Len(q))
  BY FilterExists
<1>3. Rest(rest)
  <2>1. Rest(h)
    BY <1>1, <1>2
  <2>. HIDE DEF Rest
  <2>. QED BY <2>1
<1>4. Without(q, f) = rest[Len(q)]
  BY DEF Without, Filtered
<1>5. PICK r : r = rest
  OBVIOUS
<1>6. \A n \in 0 .. Len(q) : r[n] = Filtered(q, f, r, n)
  <2>1. r = [n \in 0 .. Len(q) |-> Filtered(q, f, r, n)]
    BY <1>3, <1>5
  <2>. QED BY <2>1, Zenon
<1>. HIDE DEF rest
<1>. QED BY <1>4, <1>5, <1>6

\* What is left without f is in the order it had.
LEMMA WithoutSub ==
  ASSUME NEW S, NEW q \in Seq(S), NEW f
  PROVE  Without(q, f) \in Seq(S) /\ Sub(Without(q, f), q)
<1>1. PICK h : /\ Without(q, f) = h[Len(q)]
               /\ \A n \in 0 .. Len(q) : h[n] = Filtered(q, f, h, n)
  BY WithoutFilters
<1>t. Len(q) \in Nat /\ \A k \in 1 .. Len(q) : q[k] \in S
  BY LenProperties, ElementOfSeq
<1>. DEFINE Good(n) ==
              /\ h[n] \in Seq(S) /\ Len(h[n]) <= n
              /\ \E g \in [1 .. Len(h[n]) -> 1 .. n] :
                   /\ \A j, k \in 1 .. Len(h[n]) : j < k => g[j] < g[k]
                   /\ \A j \in 1 .. Len(h[n]) : h[n][j] = q[g[j]]
            T == {n \in Nat : n <= Len(q) => Good(n)}
<1>2. 0 \in T
  <2>1. h[0] = << >>
    BY <1>t, <1>1 DEF Filtered
  <2>. DEFINE g == [j \in 1 .. 0 |-> j]
  <2>2. g \in [1 .. 0 -> 1 .. 0] /\ 1 .. 0 = {}
    OBVIOUS
  <2>3. PICK s \in Seq(S) : s = h[0] /\ Len(s) = 0
    <3>1. << >> \in Seq(S) /\ Len(<< >>) = 0
      BY EmptySeq
    <3>. QED BY <2>1, <3>1, Zenon
  <2>. HIDE DEF g
  <2>4. Good(0)
    BY <2>2, <2>3
  <2>. QED BY <2>4
<1>3. ASSUME NEW n \in Nat, n \in T PROVE n + 1 \in T
  <2>1. SUFFICES ASSUME n + 1 <= Len(q) PROVE Good(n + 1)
    <3>. HIDE DEF Good
    <3>. QED BY DEF T
  <2>2. PICK s \in Seq(S) : s = h[n]
    BY <1>t, <1>3, <2>1
  <2>3. PICK g \in [1 .. Len(s) -> 1 .. n] :
          /\ \A j, k \in 1 .. Len(s) : j < k => g[j] < g[k]
          /\ \A j \in 1 .. Len(s) : s[j] = q[g[j]]
    BY <1>t, <1>3, <2>1, <2>2
  <2>4. Len(s) \in Nat /\ Len(s) <= n
    BY <1>t, <1>3, <2>1, <2>2
  <2>5. h[n + 1] = IF q[n + 1].func = f THEN s ELSE Append(s, q[n + 1])
    <3>1. n + 1 \in 0 .. Len(q) /\ n + 1 # 0 /\ n + 1 - 1 = n
      BY <1>t, <2>1
    <3>2. h[n + 1] = Filtered(q, f, h, n + 1)
      BY <1>1, <3>1
    <3>. QED BY <2>2, <3>1, <3>2 DEF Filtered
  <2>6. CASE h[n + 1] = s
    <3>1. g \in [1 .. Len(s) -> 1 .. n + 1]
      BY <2>3
    <3>2. Len(s) <= n + 1
      BY <2>4
    <3>. QED BY <2>3, <2>6, <3>1, <3>2, Zenon
  <2>7. CASE h[n + 1] = Append(s, q[n + 1])
    <3>1. q[n + 1] \in S
      BY <1>t, <2>1
    <3>2. PICK a \in Seq(S) : /\ a = h[n + 1] /\ Len(a) = Len(s) + 1 /\ a[Len(s) + 1] = q[n + 1]
                              /\ \A j \in 1 .. Len(s) : a[j] = s[j]
      <4>1. PICK a : a = Append(s, q[n + 1])
        OBVIOUS
      <4>2. /\ a \in Seq(S) /\ Len(a) = Len(s) + 1 /\ a[Len(s) + 1] = q[n + 1]
            /\ \A j \in 1 .. Len(s) : a[j] = s[j]
        BY <3>1, <4>1, AppendProperties
      <4>. QED BY <2>7, <4>1, <4>2
    <3>. DEFINE k == [j \in 1 .. Len(s) + 1 |-> IF j <= Len(s) THEN g[j] ELSE n + 1]
    <3>3. k \in [1 .. Len(a) -> 1 .. n + 1]
      BY <2>3, <2>4, <3>2
    <3>4. \A i, j \in 1 .. Len(a) : i < j => k[i] < k[j]
      BY <2>3, <2>4, <3>2
    <3>5. ASSUME NEW j \in 1 .. Len(a) PROVE a[j] = q[k[j]]
      <4>1. CASE j \in 1 .. Len(s)
        BY <2>3, <2>4, <3>2, <4>1
      <4>2. CASE j = Len(s) + 1
        BY <2>4, <3>2, <4>2
      <4>. QED BY <2>4, <3>2, <4>1, <4>2
    <3>6. Len(a) <= n + 1
      BY <2>4, <3>2
    <3>. HIDE DEF k
    <3>7. \A j \in 1 .. Len(a) : a[j] = q[k[j]]
      BY <3>5
    <3>. QED BY <3>2, <3>3, <3>4, <3>6, <3>7, Zenon
  <2>. QED BY <2>5, <2>6, <2>7
<1>4. Nat \subseteq T
  <2>. HIDE DEF T
  <2>. QED BY <1>2, <1>3, NatClosed
<1>5. Good(Len(q))
  <2>. HIDE DEF Good
  <2>. QED BY <1>t, <1>4
<1>6. PICK o : o = h[Len(q)] /\ o = Without(q, f)
  BY <1>1
<1>7. /\ o \in Seq(S) /\ Len(o) <= Len(q)
      /\ \E g \in [1 .. Len(o) -> 1 .. Len(q)] :
           /\ \A j, k \in 1 .. Len(o) : j < k => g[j] < g[k]
           /\ \A j \in 1 .. Len(o) : o[j] = q[g[j]]
  BY <1>5, <1>6
<1>. HIDE DEF Good, T
<1>. QED BY <1>6, <1>7, Zenon DEF Sub

-----------------------------------------------------------------------------
\* The queue: less than half a round from now, timed by what is left, ordered.
Near(l) == MaxSleep < HALF /\ - MaxSleep < l /\ l + MaxSleep < HALF

Timed(e, t) == Near(e.left) /\ e.run_time = TimeAdd(t, e.left)

Ordered(q) == \A i, j \in 1 .. Len(q) : i < j => q[i].left <= q[j].left

QueueInv(q, t) ==
  q \in Seq(Entries) /\ Ordered(q) /\ \A i \in 1 .. Len(q) : Timed(q[i], t)

\* ZB_TIME_GE of two alarms compares what is left of them.
LEMMA TimedCompared ==
  ASSUME NEW t \in Times, NEW d \in Entries, NEW e \in Entries, Timed(d, t), Timed(e, t)
  PROVE  TimeGe(d.run_time, e.run_time) <=> d.left >= e.left
<1>1. PICK x \in Int, y \in Int : x = d.left /\ y = e.left
  BY DEF Entries
<1>2. - HALF < x /\ x < HALF /\ - HALF < y /\ y < HALF /\ - HALF < x - y /\ x - y < HALF
  BY <1>1, TimeFacts DEF Timed, Near
<1>3. TimeGe(TimeAdd(t, x), TimeAdd(t, y)) <=> x >= y
  BY <1>2, TimesFromNow
<1>. QED BY <1>1, <1>3 DEF Timed

\* A time is the same, seen from a clock that has moved by less than a round.
LEMMA TimesMove ==
  ASSUME NEW t \in Times, NEW x \in Int, NEW n \in 0 .. HALF, Near(x), Near(x - n)
  PROVE  TimeAdd(t, x) = TimeAdd(TimeAdd(t, n), x - n)
<1>t. /\ TimeMod \in Nat \ {0} /\ HALF \in Nat /\ 2 * HALF < TimeMod /\ t \in 0 .. TimeMod - 1
      /\ n \in Nat /\ n <= HALF /\ - HALF < x /\ x < HALF
  BY TimeFacts DEF Times, Near
<1>1. PICK u \in Int, v \in Int : u = t + n /\ v = t + x
  BY <1>t
<1>2. u % TimeMod = IF u < TimeMod THEN u ELSE u - TimeMod
  <2>1. - TimeMod <= u /\ u < 2 * TimeMod /\ ~(u < 0)
    BY <1>t, <1>1
  <2>. QED BY <1>t, <2>1, OneWrap
<1>3. (v - TimeMod) % TimeMod = v % TimeMod
  BY <1>t, <1>1
<1>4. (u % TimeMod) + (x - n) \in {v, v - TimeMod}
  BY <1>t, <1>1, <1>2
<1>5. ((u % TimeMod) + (x - n)) % TimeMod = v % TimeMod
  BY <1>3, <1>4
<1>. QED BY <1>1, <1>5 DEF TimeAdd

\* The same against the clock itself.
LEMMA TimedNow ==
  ASSUME NEW t \in Times, NEW e \in Entries, Timed(e, t)
  PROVE  /\ TimeGe(t, e.run_time) <=> e.left <= 0
         /\ TimeGe(e.run_time, t) <=> e.left >= 0
         /\ e.left > 0 => TimeSubtract(e.run_time, t) = e.left
<1>1. PICK x \in Int : x = e.left
  BY DEF Entries
<1>2. - HALF < x /\ x < HALF /\ - HALF < 0 /\ 0 < HALF
  BY <1>1, TimeFacts DEF Timed, Near
<1>3. TimeAdd(t, 0) = t
  BY TimeFacts DEF TimeAdd, Times
<1>4. TimeGe(TimeAdd(t, 0), TimeAdd(t, x)) <=> 0 >= x
  <2>1. - HALF < 0 - x /\ 0 - x < HALF /\ 0 \in Int
    BY <1>2, TimeFacts
  <2>. QED BY <1>2, <2>1, TimesFromNow
<1>5. /\ TimeGe(TimeAdd(t, x), TimeAdd(t, 0)) <=> x >= 0
      /\ TimeSubtract(TimeAdd(t, x), TimeAdd(t, 0)) = IF x >= 0 THEN x - 0 ELSE 0 - x
  <2>1. - HALF < x - 0 /\ x - 0 < HALF /\ 0 \in Int
    BY <1>2, TimeFacts
  <2>. QED BY <1>2, <2>1, TimesFromNow
<1>. QED BY <1>1, <1>3, <1>4, <1>5 DEF Timed

\* r is q with e at place i.
Placed(r, q, e, i) ==
  /\ Len(r) = Len(q) + 1
  /\ \A k \in 1 .. i - 1 : r[k] = q[k]
  /\ r[i] = e
  /\ \A k \in i + 1 .. Len(q) + 1 : r[k] = q[k - 1]

LEMMA InsertPlaces ==
  ASSUME NEW t \in Times, NEW q, QueueInv(q, t), NEW e \in Entries, Timed(e, t)
  PROVE  \E i \in 1 .. Len(q) + 1 :
           /\ Insert(q, e) \in Seq(Entries) /\ Placed(Insert(q, e), q, e, i)
           /\ \A k \in 1 .. i - 1 : q[k].left <= e.left
           /\ \A k \in i .. Len(q) : e.left <= q[k].left
<1>t. /\ q \in Seq(Entries) /\ Len(q) \in Nat /\ e.left \in Int
      /\ \A k \in 1 .. Len(q) : q[k] \in Entries /\ q[k].left \in Int /\ Timed(q[k], t)
  <2>1. q \in Seq(Entries) /\ Len(q) \in Nat /\ \A k \in 1 .. Len(q) : q[k] \in Entries
    BY LenProperties, ElementOfSeq DEF QueueInv
  <2>. QED BY <2>1 DEF QueueInv, Entries
<1>1. \A k \in 1 .. Len(q) : /\ TimeGe(q[k].run_time, e.run_time) <=> q[k].left >= e.left
                             /\ TimeGe(e.run_time, q[k].run_time) <=> e.left >= q[k].left
  BY <1>t, TimedCompared
<1>2. \A i, j \in 1 .. Len(q) : i < j => q[i].left <= q[j].left
  BY DEF QueueInv, Ordered
<1>3. CASE Insert(q, e) = <<e>> \o q /\ \A k \in 1 .. Len(q) : e.left <= q[k].left
  <2>1. PICK m \in Seq(Entries) : m = <<e>> /\ Len(m) = 1 /\ m[1] = e
    <3>1. <<e>> \in Seq(Entries) /\ Len(<<e>>) = 1 /\ <<e>>[1] = e
      OBVIOUS
    <3>. QED BY <3>1, Zenon
  <2>2. /\ m \o q \in Seq(Entries) /\ Len(m \o q) = Len(m) + Len(q)
        /\ \A i \in 1 .. Len(m) + Len(q) :
             (m \o q)[i] = IF i <= Len(m) THEN m[i] ELSE q[i - Len(m)]
    BY <1>t, ConcatProperties
  <2>3. PICK r \in Seq(Entries) : r = Insert(q, e) /\ r = m \o q
    BY <1>3, <2>1, <2>2
  <2>4. /\ Len(r) = Len(q) + 1
        /\ \A i \in 1 .. Len(q) + 1 : r[i] = IF i <= 1 THEN m[i] ELSE q[i - 1]
    <3>1. Len(m) = 1 /\ 1 + Len(q) = Len(q) + 1
      BY <1>t, <2>1
    <3>2. /\ Len(r) = Len(m) + Len(q)
          /\ \A i \in 1 .. Len(m) + Len(q) : r[i] = IF i <= Len(m) THEN m[i] ELSE q[i - Len(m)]
      BY <2>2, <2>3, Zenon
    <3>3. /\ Len(r) = 1 + Len(q)
          /\ \A i \in 1 .. 1 + Len(q) : r[i] = IF i <= 1 THEN m[i] ELSE q[i - 1]
      BY <3>1, <3>2, Zenon
    <3>. QED BY <3>1, <3>3, Zenon
  <2>5. r[1] = e
    BY <1>t, <2>1, <2>4
  <2>6. Placed(r, q, e, 1)
    BY <1>t, <2>4, <2>5 DEF Placed
  <2>7. Placed(Insert(q, e), q, e, 1) /\ Insert(q, e) \in Seq(Entries)
    BY <2>3, <2>6, Zenon
  <2>8. 1 \in 1 .. Len(q) + 1 /\ \A k \in 1 .. 1 - 1 : q[k].left <= e.left
    BY <1>t
  <2>9. \A k \in 1 .. Len(q) : e.left <= q[k].left
    BY <1>3
  <2>. QED BY <2>7, <2>8, <2>9, Zenon
<1>4. CASE q = << >>
  <2>1. Insert(q, e) = <<e>> \o q /\ Len(q) = 0
    BY <1>4 DEF Insert
  <2>. QED BY <1>3, <2>1
<1>5. CASE q # << >> /\ TimeGe(Head(q).run_time, e.run_time)
  <2>1. Insert(q, e) = <<e>> \o q
    BY <1>5 DEF Insert
  <2>2. 1 \in 1 .. Len(q) /\ Head(q) = q[1]
    BY <1>t, <1>5, EmptySeq
  <2>3. \A k \in 1 .. Len(q) : q[1].left <= q[k].left
    BY <1>t, <1>2, <2>2
  <2>4. \A k \in 1 .. Len(q) : e.left <= q[k].left
    BY <1>t, <1>1, <1>5, <2>2, <2>3
  <2>. QED BY <1>3, <2>1, <2>4
<1>6. CASE q # << >> /\ ~TimeGe(Head(q).run_time, e.run_time)
  <2>. DEFINE I == {k \in 1 .. Len(q) : ~TimeGe(e.run_time, q[k].run_time)}
              i == SelectInSeq(q, LAMBDA d : ~TimeGe(e.run_time, d.run_time))
  <2>1. I = {k \in 1 .. Len(q) : e.left < q[k].left}
    BY <1>t, <1>1
  <2>2. 1 \in 1 .. Len(q) /\ Head(q) = q[1]
    BY <1>t, <1>6, EmptySeq
  <2>3. q[1].left < e.left
    BY <1>t, <1>1, <1>6, <2>2
  <2>4. i = IF I # {} THEN Min(I) ELSE 0
    BY DEF SelectInSeq
  <2>5. Insert(q, e) = IF i > 1 THEN InsertAt(q, i, e) ELSE Append(q, e)
    BY <1>6 DEF Insert
  <2>6. CASE I = {}
    <3>1. i = 0 /\ Insert(q, e) = Append(q, e)
      <4>. HIDE DEF I, i
      <4>1. i = 0
        BY <2>4, <2>6
      <4>. QED BY <2>5, <4>1
    <3>2. \A k \in 1 .. Len(q) : q[k].left <= e.left
      BY <1>t, <2>1, <2>6
    <3>3. PICK r : r = Append(q, e)
      OBVIOUS
    <3>4. /\ r \in Seq(Entries) /\ Len(r) = Len(q) + 1
          /\ \A k \in 1 .. Len(q) : r[k] = q[k]
          /\ r[Len(q) + 1] = e
      BY <1>t, <3>3, AppendProperties
    <3>5. Placed(r, q, e, Len(q) + 1)
      BY <1>t, <3>4 DEF Placed
    <3>6. Len(q) + 1 \in 1 .. Len(q) + 1 /\ 1 .. Len(q) + 1 - 1 = 1 .. Len(q)
      BY <1>t
    <3>. QED BY <1>t, <3>1, <3>2, <3>3, <3>4, <3>5, <3>6
  <2>7. CASE I # {}
    <3>0. I \in SUBSET Nat
      OBVIOUS
    <3>. HIDE DEF I, i
    <3>1. \E x \in I : \A y \in I : x <= y
      BY <2>7, <3>0, LeastElement
    <3>2. PICK m \in I : m = i /\ \A y \in I : m <= y
      BY <2>4, <2>7, <3>1 DEF Min
    <3>3. /\ m \in 1 .. Len(q) /\ e.left < q[m].left
          /\ \A k \in 1 .. Len(q) : e.left < q[k].left => m <= k
      BY <2>1, <3>2
    <3>4. m > 1 /\ m \in 1 .. Len(q) + 1
      BY <1>t, <2>2, <2>3, <3>3
    <3>5. Insert(q, e) = InsertAt(q, m, e)
      BY <2>5, <3>2, <3>4
    <3>6. Insert(q, e) \in Seq(Entries) /\ Placed(Insert(q, e), q, e, m)
      <4>1. PICK r : r = InsertAt(q, m, e)
        OBVIOUS
      <4>2. r \in Seq(Entries) /\ Placed(r, q, e, m)
        <5>1. /\ InsertAt(q, m, e) \in Seq(Entries) /\ Len(InsertAt(q, m, e)) = Len(q) + 1
              /\ \A k \in 1 .. m - 1 : InsertAt(q, m, e)[k] = q[k]
              /\ InsertAt(q, m, e)[m] = e
              /\ \A k \in m + 1 .. Len(q) + 1 : InsertAt(q, m, e)[k] = q[k - 1]
          BY <1>t, <3>4, InsertedAt
        <5>. QED BY <4>1, <5>1, Zenon DEF Placed
      <4>. QED BY <3>5, <4>1, <4>2
    <3>7. \A k \in 1 .. m - 1 : q[k].left <= e.left
      <4>1. \A k \in 1 .. m - 1 : k \in 1 .. Len(q) /\ ~(m <= k)
        BY <1>t, <3>3
      <4>. QED BY <1>t, <3>3, <4>1
    <3>8. \A k \in m .. Len(q) : e.left <= q[k].left
      BY <1>t, <1>2, <3>3
    <3>. QED BY <3>4, <3>6, <3>7, <3>8
  <2>. QED BY <2>6, <2>7
<1>. QED BY <1>4, <1>5, <1>6

LEMMA InsertKeeps ==
  ASSUME NEW t \in Times, NEW q, QueueInv(q, t), NEW e \in Entries, Timed(e, t)
  PROVE  /\ QueueInv(Insert(q, e), t) /\ Len(Insert(q, e)) = Len(q) + 1
         /\ \A k \in 1 .. Len(q) + 1 :
              Insert(q, e)[k] = e \/ \E j \in 1 .. Len(q) : Insert(q, e)[k] = q[j]
<1>1. PICK r : r = Insert(q, e)
  OBVIOUS
<1>2. PICK i \in 1 .. Len(q) + 1 :
           /\ r \in Seq(Entries) /\ Placed(r, q, e, i)
           /\ \A k \in 1 .. i - 1 : q[k].left <= e.left
           /\ \A k \in i .. Len(q) : e.left <= q[k].left
  BY <1>1, InsertPlaces
<1>t. /\ Len(q) \in Nat /\ e.left \in Int
      /\ \A k \in 1 .. Len(q) : q[k].left \in Int /\ Timed(q[k], t)
  <2>1. Len(q) \in Nat /\ \A k \in 1 .. Len(q) : q[k] \in Entries
    BY LenProperties, ElementOfSeq DEF QueueInv
  <2>. QED BY <2>1 DEF QueueInv, Entries
<1>3. ASSUME NEW k \in 1 .. Len(q) + 1
      PROVE  \/ k < i /\ k \in 1 .. i - 1 /\ k \in 1 .. Len(q) /\ r[k] = q[k]
             \/ k = i /\ r[k] = e
             \/ k > i /\ k - 1 \in i .. Len(q) /\ k - 1 \in 1 .. Len(q) /\ r[k] = q[k - 1]
  BY <1>t, <1>2 DEF Placed
<1>4. \A k \in 1 .. Len(q) + 1 : r[k] = e \/ \E j \in 1 .. Len(q) : r[k] = q[j]
  BY <1>3
<1>5. Len(r) = Len(q) + 1
  BY <1>2 DEF Placed
<1>6. \A k \in 1 .. Len(r) : Timed(r[k], t)
  BY <1>t, <1>4, <1>5
<1>7. Ordered(r)
  <2>1. SUFFICES ASSUME NEW j \in 1 .. Len(q) + 1, NEW k \in 1 .. Len(q) + 1, j < k
                 PROVE  r[j].left <= r[k].left
    BY <1>5 DEF Ordered
  <2>2. \A x, y \in 1 .. Len(q) : x < y => q[x].left <= q[y].left
    BY DEF QueueInv, Ordered
  <2>8. i \in Int /\ j \in Int /\ k \in Int
    BY <1>t
  <2>3. CASE j < i /\ k < i
    BY <1>3, <2>1, <2>2, <2>3
  <2>4. CASE j < i /\ k = i
    BY <1>2, <1>3, <2>4
  <2>5. CASE j < i /\ k > i
    <3>1. r[j].left <= e.left /\ e.left <= r[k].left
      <4>1. j \in 1 .. i - 1 /\ r[j] = q[j]
        BY <1>3, <2>5, <2>8
      <4>2. k - 1 \in i .. Len(q) /\ r[k] = q[k - 1]
        BY <1>3, <2>5, <2>8
      <4>. QED BY <1>2, <4>1, <4>2
    <3>2. r[j].left \in Int /\ r[k].left \in Int
      BY <1>t, <1>3, <2>5
    <3>. QED BY <1>t, <3>1, <3>2
  <2>6. CASE j = i /\ k > i
    BY <1>2, <1>3, <2>6
  <2>7. CASE j > i /\ k > i
    <3>1. /\ j - 1 \in 1 .. Len(q) /\ k - 1 \in 1 .. Len(q) /\ j - 1 < k - 1
          /\ r[j] = q[j - 1] /\ r[k] = q[k - 1]
      BY <1>3, <2>1, <2>7, <2>8
    <3>. QED BY <2>2, <3>1
  <2>. QED BY <2>1, <2>3, <2>4, <2>5, <2>6, <2>7, <2>8
<1>. QED BY <1>1, <1>2, <1>4, <1>5, <1>6, <1>7 DEF QueueInv

\* What is left of a queue is a queue.
LEMMA SubKeeps ==
  ASSUME NEW t, NEW q, QueueInv(q, t), NEW o \in Seq(Entries), Sub(o, q)
  PROVE  /\ QueueInv(o, t) /\ Len(o) <= Len(q)
         /\ \A k \in 1 .. Len(o) : \E j \in 1 .. Len(q) : o[k] = q[j]
<1>1. PICK g \in [1 .. Len(o) -> 1 .. Len(q)] :
              /\ \A j, k \in 1 .. Len(o) : j < k => g[j] < g[k]
              /\ \A j \in 1 .. Len(o) : o[j] = q[g[j]]
  BY DEF Sub
<1>2. \A k \in 1 .. Len(o) : g[k] \in 1 .. Len(q) /\ o[k] = q[g[k]]
  BY <1>1
<1>3. Ordered(o)
  BY <1>1, <1>2 DEF Ordered, QueueInv
<1>4. \A k \in 1 .. Len(o) : Timed(o[k], t)
  BY <1>2 DEF QueueInv
<1>. QED BY <1>2, <1>3, <1>4 DEF QueueInv, Sub

LEMMA CancelKeeps ==
  ASSUME NEW t, NEW q, QueueInv(q, t), NEW f, NEW p
  PROVE  /\ QueueInv(Cancelled(q, f, p), t) /\ Len(Cancelled(q, f, p)) <= Len(q)
         /\ Len(Cancelled(q, f, p)) \in Nat
         /\ \A k \in 1 .. Len(Cancelled(q, f, p)) :
              \E j \in 1 .. Len(q) : Cancelled(q, f, p)[k] = q[j]
<1>1. q \in Seq(Entries) /\ Len(q) \in Nat
  BY LenProperties DEF QueueInv
<1>2. PICK o : o = Cancelled(q, f, p)
  OBVIOUS
<1>3. CASE p = AllCb
  <2>1. o = Without(q, f)
    BY <1>2, <1>3 DEF Cancelled
  <2>2. o \in Seq(Entries) /\ Sub(o, q)
    BY <1>1, <2>1, WithoutSub
  <2>3. Len(o) \in Nat
    BY <2>2, LenProperties
  <2>4. /\ QueueInv(o, t) /\ Len(o) <= Len(q)
        /\ \A k \in 1 .. Len(o) : \E j \in 1 .. Len(q) : o[k] = q[j]
    BY <2>2, SubKeeps
  <2>. QED BY <1>2, <2>3, <2>4, Zenon
<1>4. CASE p # AllCb
  <2>. DEFINE match(e) == e.func = f /\ p \in {AnyParam, e.param}
              I == {k \in 1 .. Len(q) : match(q[k])}
  <2>1. o = IF \E k \in 1 .. Len(q) : match(q[k])
              THEN RemoveAt(q, IF I # {} THEN Min(I) ELSE 0) ELSE q
    BY <1>2, <1>4 DEF Cancelled, RemoveFirstMatch, SelectInSeq
  <2>2. CASE I = {}
    <3>1. o = q
      BY <2>1, <2>2
    <3>. QED BY <1>1, <1>2, <3>1
  <2>3. CASE I # {}
    <3>1. I \in SUBSET Nat /\ I \subseteq 1 .. Len(q)
      OBVIOUS
    <3>2. o = RemoveAt(q, Min(I))
      BY <2>1, <2>3
    <3>. HIDE DEF I
    <3>3. \E x \in I : \A y \in I : x <= y
      BY <2>3, <3>1, LeastElement
    <3>4. Min(I) \in 1 .. Len(q)
      BY <3>1, <3>3 DEF Min
    <3>5. o \in Seq(Entries) /\ Sub(o, q)
      BY <1>1, <3>2, <3>4, RemovedAt
    <3>6. Len(o) \in Nat
      BY <3>5, LenProperties
    <3>7. /\ QueueInv(o, t) /\ Len(o) <= Len(q)
          /\ \A k \in 1 .. Len(o) : \E j \in 1 .. Len(q) : o[k] = q[j]
      BY <3>5, SubKeeps
    <3>. QED BY <1>2, <3>6, <3>7, Zenon
  <2>. QED BY <2>2, <2>3
<1>. QED BY <1>3, <1>4

\* The first alarm leaves the queue: it has the least time left.
LEMMA TailKeeps ==
  ASSUME NEW t, NEW q, QueueInv(q, t), q # << >>
  PROVE  /\ QueueInv(Tail(q), t) /\ Len(Tail(q)) = Len(q) - 1 /\ Len(q) \in Nat
         /\ Head(q) = q[1] /\ Head(q) \in Entries /\ Timed(Head(q), t)
         /\ \A k \in 1 .. Len(q) : Head(q).left <= q[k].left
         /\ \A k \in 1 .. Len(q) - 1 : Tail(q)[k] = q[k + 1]
<1>t. q \in Seq(Entries) /\ Len(q) \in Nat \ {0} /\ \A k \in 1 .. Len(q) : q[k] \in Entries
  BY EmptySeq, ElementOfSeq DEF QueueInv
<1>1. PICK r \in Seq(Entries) : /\ r = Tail(q) /\ Len(r) = Len(q) - 1
                                /\ \A k \in 1 .. Len(r) : r[k] = q[k + 1]
  BY <1>t, HeadTailProperties
<1>2. Head(q) = q[1] /\ 1 \in 1 .. Len(q)
  BY <1>t
<1>3. \A k \in 1 .. Len(q) : q[1].left <= q[k].left
  <2>1. q[1].left \in Int
    BY <1>t, <1>2 DEF Entries
  <2>. QED BY <1>t, <1>2, <2>1 DEF QueueInv, Ordered
<1>4. \A k \in 1 .. Len(r) : k + 1 \in 1 .. Len(q)
  BY <1>t, <1>1
<1>5. Ordered(r) /\ \A k \in 1 .. Len(r) : Timed(r[k], t)
  BY <1>1, <1>4 DEF QueueInv, Ordered
<1>. QED BY <1>t, <1>1, <1>2, <1>3, <1>5 DEF QueueInv

\* The clock and what is left move together, as long as the first alarm is
\* not passed by more than the longest sleep.
Aged(q, n) == [i \in DOMAIN q |-> [q[i] EXCEPT !.left = Max({@ - n, - MaxLate})]]

LEMMA SleepKeeps ==
  ASSUME NEW t \in Times, NEW q, QueueInv(q, t), NEW n \in 0 .. HALF,
         q # << >> => Head(q).left - n > - MaxSleep, NEW r, r = Aged(q, n)
  PROVE  /\ QueueInv(r, TimeAdd(t, n)) /\ Len(r) = Len(q)
<1>t. /\ q \in Seq(Entries) /\ Len(q) \in Nat /\ DOMAIN q = 1 .. Len(q)
      /\ \A k \in 1 .. Len(q) : q[k] \in Entries /\ q[k].left \in Int
  <2>1. /\ q \in Seq(Entries) /\ Len(q) \in Nat /\ DOMAIN q = 1 .. Len(q)
        /\ \A k \in 1 .. Len(q) : q[k] \in Entries
    BY LenProperties, ElementOfSeq DEF QueueInv
  <2>. QED BY <2>1 DEF Entries
<1>1. ASSUME NEW k \in 1 .. Len(q)
      PROVE  /\ MaxSleep < HALF /\ - MaxSleep < q[k].left - n /\ q[k].left - n + MaxSleep < HALF
             /\ q[k].run_time = TimeAdd(t, q[k].left) /\ Near(q[k].left)
             /\ Max({q[k].left - n, - MaxLate}) = q[k].left - n
  <2>0. Near(q[k].left) /\ q[k].run_time = TimeAdd(t, q[k].left)
    BY DEF QueueInv, Timed
  <2>1. q # << >>
    BY <1>t
  <2>2. PICK x \in Int, h \in Int : x = q[k].left /\ h = Head(q).left
    BY <1>t, <2>1, TailKeeps DEF Entries
  <2>3. h <= x /\ h - n > - MaxSleep
    BY <2>1, <2>2, TailKeeps
  <2>m. PICK m \in Int, half \in Int : m = MaxSleep /\ half = HALF /\ n \in Nat
    BY TimeFacts
  <2>l. m < half /\ - m < x /\ x + m < half /\ - m < h - n
    BY <2>0, <2>2, <2>3, <2>m DEF Near
  <2>a. - m < x - n /\ x - n + m < half /\ x - n \in Int
    BY <2>3, <2>l, <2>m
  <2>4. /\ MaxSleep < HALF /\ - MaxSleep < x - n /\ x - n + MaxSleep < HALF
        /\ x - n >= - MaxLate /\ x - n \in Int /\ - MaxLate \in Int
    BY <2>m, <2>l, <2>a, TimeFacts DEF MaxLate
  <2>5. Max({x - n, - MaxLate}) = x - n
    BY <2>4 DEF Max
  <2>. QED BY <2>0, <2>2, <2>4, <2>5
<1>2. \A k \in 1 .. Len(q) : r[k] = [q[k] EXCEPT !.left = q[k].left - n]
  BY <1>t, <1>1 DEF Aged
<1>3. ASSUME NEW k \in 1 .. Len(q)
      PROVE  r[k] \in Entries /\ r[k].left = q[k].left - n /\ r[k].run_time = q[k].run_time
  <2>1. PICK e \in Entries, x \in Int : e = q[k] /\ x = q[k].left - n
    BY <1>t
  <2>2. r[k] = [e EXCEPT !.left = x]
    BY <1>2, <2>1
  <2>. QED BY <2>1, <2>2 DEF Entries
<1>4. r \in Seq(Entries) /\ Len(r) = Len(q)
  <2>1. r = [k \in 1 .. Len(q) |-> r[k]]
    BY <1>t DEF Aged
  <2>2. r \in [1 .. Len(q) -> Entries]
    BY <1>3, <2>1, Zenon
  <2>. QED BY <1>t, <2>2
<1>5. ASSUME NEW k \in 1 .. Len(q) PROVE Timed(r[k], TimeAdd(t, n))
  <2>1. PICK x \in Int : x = q[k].left
    BY <1>t
  <2>2. Near(x) /\ Near(x - n)
    BY <1>1, <2>1 DEF Near
  <2>3. TimeAdd(t, x) = TimeAdd(TimeAdd(t, n), x - n)
    BY <2>2, TimesMove
  <2>. QED BY <1>1, <1>3, <2>1, <2>2, <2>3 DEF Timed
<1>6. Ordered(r)
  <2>1. SUFFICES ASSUME NEW i \in 1 .. Len(q), NEW j \in 1 .. Len(q), i < j
                 PROVE  q[i].left - n <= q[j].left - n
    BY <1>3, <1>4 DEF Ordered
  <2>2. q[i].left <= q[j].left
    BY <2>1 DEF QueueInv, Ordered
  <2>. QED BY <1>t, <2>2
<1>. QED BY <1>4, <1>5, <1>6 DEF QueueInv

-----------------------------------------------------------------------------
\* The timer.
LEMMA TimesRange ==
  ASSUME NEW a \in Times, NEW b \in Times
  PROVE  TimeAdd(a, b) \in Times /\ TimeSubtract(a, b) \in Times
<1>1. a + b \in Int /\ a - b \in Int /\ b - a \in Int /\ TimeMod \in Nat \ {0}
  BY TimeFacts DEF Times
<1>2. \A x \in Int : x % TimeMod \in 0 .. TimeMod - 1
  BY <1>1
<1>3. (a + b) % TimeMod \in Times /\ (a - b) % TimeMod \in Times /\ (b - a) % TimeMod \in Times
  BY <1>1, <1>2 DEF Times
<1>. QED BY <1>3 DEF TimeAdd, TimeSubtract

\* Started for the time l of the first alarm, the timer runs and does not wake
\* the loop up later than that, whatever it was set to before.
LEMMA TimerArmed ==
  ASSUME timer \in Times, timer_stop \in Times, started \in BOOLEAN, NEW l \in 1 .. HALF - 1,
         TimerStart(l)
  PROVE  /\ timer' = timer /\ started' = TRUE /\ timer_stop' \in Times
         /\ TimeGe(timer_stop', timer) => TimeSubtract(timer_stop', timer) <= l
<1>t. TimeMod \in Nat \ {0} /\ HALF \in Nat /\ 2 * HALF < TimeMod /\ l \in Int /\ 0 < l /\ l < HALF
  BY TimeFacts
<1>0. TimeAdd(timer, 0) = timer
  BY TimeFacts DEF TimeAdd, Times
<1>1. CASE timer_stop' = TimeAdd(timer, l) /\ started' = TRUE
  <2>1. TimeAdd(timer, l) \in Times /\ TimeSubtract(TimeAdd(timer, l), TimeAdd(timer, 0)) = l
    <3>1. 0 \in Int /\ - HALF < l /\ - HALF < 0 /\ 0 < HALF /\ - HALF < l - 0 /\ l - 0 < HALF
          /\ l >= 0 /\ l - 0 = l
      BY <1>t
    <3>. QED BY <1>t, <3>1, TimesFromNow
  <2>. QED BY <1>t, <1>0, <1>1, <2>1 DEF TimerStart
<1>2. CASE /\ started /\ TimeGe(TimeAdd(timer, l), timer_stop) /\ TimeGe(timer_stop, timer)
           /\ UNCHANGED <<timer_stop, started>>
  <2>1. PICK d \in Int : d = timer_stop - timer
    BY DEF Times
  <2>2. - TimeMod < d /\ d < TimeMod /\ timer \in 0 .. TimeMod - 1 /\ timer_stop = timer + d
    BY <1>t, <2>1 DEF Times
  <2>3. PICK s \in Int : s = d % TimeMod /\ s = IF d < 0 THEN d + TimeMod ELSE d
    <3>1. d % TimeMod = IF d < 0 THEN d + TimeMod ELSE IF d < TimeMod THEN d ELSE d - TimeMod
      <4>1. - TimeMod <= d /\ d < 2 * TimeMod
        BY <1>t, <2>2
      <4>. QED BY <1>t, <4>1, OneWrap
    <3>. QED BY <1>t, <2>2, <3>1
  <2>4. 0 <= s /\ s < HALF
    BY <1>2, <1>t, <2>1, <2>2, <2>3 DEF TimeGe
  <2>5. TimeAdd(timer, s) = timer_stop
    <3>1. PICK z \in Int : z = timer + s
      BY <2>2
    <3>2. timer_stop \in 0 .. TimeMod - 1 /\ z \in {timer_stop, timer_stop + TimeMod}
      BY <1>t, <2>2, <2>3, <3>1 DEF Times
    <3>3. z % TimeMod = timer_stop
      BY <1>t, <3>2
    <3>. QED BY <3>1, <3>3 DEF TimeAdd
  <2>6. l >= s
    <3>1. - HALF < l /\ - HALF < s /\ - HALF < l - s /\ l - s < HALF
      BY <1>t, <2>4
    <3>2. TimeGe(TimeAdd(timer, l), TimeAdd(timer, s)) <=> l >= s
      BY <1>t, <2>4, <3>1, TimesFromNow
    <3>. QED BY <1>2, <2>5, <3>2
  <2>7. TimeSubtract(timer_stop, timer) = s
    BY <2>1, <2>3, <2>4 DEF TimeSubtract
  <2>. QED BY <1>2, <2>6, <2>7 DEF TimerStart
<1>. QED BY <1>1, <1>2 DEF TimerStart

-----------------------------------------------------------------------------
\* The inductive invariant.
LoopTypes ==
  /\ timer \in Times /\ timer_stop \in Times
  /\ started \in BOOLEAN /\ did_something \in BOOLEAN
  /\ phase \in {"cbs", "alarms", "alarm", "idle"}
  /\ tm_freelist \in Nat
  /\ cur \in Entries \cup {NoAlarm} /\ (phase = "alarm" => cur \in Entries)

AlarmInv ==
  /\ QueueInv(tm_queue, timer) /\ LoopTypes
  /\ EntriesConserved /\ CalledInTime /\ NoOversleep

LEMMA QueueLen == AlarmInv => Len(tm_queue) \in Nat
BY LenProperties DEF AlarmInv, QueueInv

LEMMA AlarmInit == TmInit => AlarmInv
<1>. SUFFICES ASSUME TmInit PROVE AlarmInv
  OBVIOUS
<1>1. tm_queue \in Seq(Entries) /\ Len(tm_queue) = 0 /\ 1 .. 0 = {}
  BY DEF TmInit
<1>2. QueueInv(tm_queue, timer)
  BY <1>1 DEF QueueInv, Ordered
<1>3. LoopTypes
  <2>1. 0 \in Times /\ TmSize \in Nat
    BY TimeFacts, TimeAssumption DEF Times
  <2>2. tm_freelist \in Nat /\ timer \in Times /\ timer_stop \in Times
    BY <2>1 DEF TmInit
  <2>. QED BY <2>2, Zenon DEF TmInit, LoopTypes
<1>4. EntriesConserved /\ CalledInTime /\ NoOversleep
  BY <1>1, TimeAssumption DEF TmInit, EntriesConserved, CalledInTime, NoOversleep
<1>. QED BY <1>2, <1>3, <1>4 DEF AlarmInv

\* What the stack does in a callback or in an alarm that is called.
LEMMA ScheduleStep ==
  ASSUME AlarmInv, NEW f \in Funcs, NEW p \in Params, NEW d \in Delays, ScheduleAlarm(f, p, d)
  PROVE  AlarmInv'
<1>. DEFINE e == Alarm(f, p, TimeAdd(timer, d), d)
            at == Head(tm_queue').run_time
<1>t. QueueInv(tm_queue, timer) /\ LoopTypes /\ Len(tm_queue) \in Nat
  BY QueueLen DEF AlarmInv
<1>g. /\ phase \in {"cbs", "alarm"} /\ phase' = phase /\ cur' = cur /\ did_something' = TRUE
      /\ tm_freelist > 0 /\ tm_freelist' = tm_freelist - 1
      /\ tm_queue' = Insert(tm_queue, e)
  BY DEF ScheduleAlarm, FromStack
<1>1. d \in Nat /\ Near(d) /\ d \in Times
  BY TimeFacts DEF Near, Times
<1>2. e \in Entries /\ Timed(e, timer) /\ e.left = d
  <2>1. TimeAdd(timer, d) \in 0 .. TimeMod - 1
    BY <1>t, <1>1, TimesRange DEF LoopTypes, Times
  <2>. QED BY <1>1, <2>1 DEF Alarm, Entries, Timed
<1>. HIDE DEF e
<1>3. /\ QueueInv(tm_queue', timer) /\ Len(tm_queue') = Len(tm_queue) + 1
      /\ \A k \in 1 .. Len(tm_queue) + 1 :
            tm_queue'[k] = e \/ \E j \in 1 .. Len(tm_queue) : tm_queue'[k] = tm_queue[j]
  BY <1>t, <1>g, <1>2, InsertKeeps DEF LoopTypes
<1>4. timer' = timer /\ timer_stop' \in Times /\ started' \in BOOLEAN
  <2>1. tm_queue' # << >>
    BY <1>t, <1>3
  <2>2. at \in Times
    <3>1. PICK r : r = tm_queue'
      OBVIOUS
    <3>2. Head(r) \in Entries
      BY <1>3, <2>1, <3>1, TailKeeps
    <3>. QED BY <3>1, <3>2 DEF Entries, Times
  <2>. HIDE DEF at
  <2>3. CASE TimerStart(TimeSubtract(at, timer))
    <3>1. TimeAdd(timer, TimeSubtract(at, timer)) \in Times
      BY <1>t, <2>2, TimesRange DEF LoopTypes
    <3>. QED BY <1>t, <2>3, <3>1 DEF TimerStart, LoopTypes
  <2>4. CASE UNCHANGED timerVars
    BY <1>t, <2>4 DEF timerVars, LoopTypes
  <2>. QED BY <2>3, <2>4 DEF ScheduleAlarm, at
<1>5. LoopTypes'
  BY <1>t, <1>g, <1>4 DEF LoopTypes
<1>6. EntriesConserved'
  BY <1>t, <1>g, <1>3 DEF EntriesConserved, AlarmInv, LoopTypes
<1>7. CalledInTime'
  <2>1. SUFFICES ASSUME phase = "alarm"
                 PROVE  /\ cur.left <= 0
                        /\ \A k \in 1 .. Len(tm_queue) + 1 : cur.left <= tm_queue'[k].left
    BY <1>g, <1>3 DEF CalledInTime
  <2>2. cur.left \in Int /\ cur.left <= 0 /\ \A k \in 1 .. Len(tm_queue) : cur.left <= tm_queue[k].left
    BY <1>t, <2>1 DEF AlarmInv, CalledInTime, LoopTypes, Entries
  <2>3. cur.left <= e.left
    BY <1>1, <1>2, <2>2
  <2>. QED BY <1>3, <2>2, <2>3
<1>8. NoOversleep'
  BY <1>g DEF NoOversleep
<1>9. QueueInv(tm_queue, timer)'
  BY <1>3, <1>4 DEF QueueInv, Timed, Ordered
<1>. QED BY <1>5, <1>6, <1>7, <1>8, <1>9 DEF AlarmInv

LEMMA CancelStep ==
  ASSUME AlarmInv, NEW f, NEW p, AlarmCancel(f, p)
  PROVE  AlarmInv'
<1>. DEFINE o == Cancelled(tm_queue, f, p)
<1>t. QueueInv(tm_queue, timer) /\ LoopTypes /\ Len(tm_queue) \in Nat
  BY QueueLen DEF AlarmInv
<1>g. /\ phase \in {"cbs", "alarm"} /\ phase' = phase /\ cur' = cur /\ did_something' = TRUE
      /\ tm_queue' = o /\ tm_freelist' = tm_freelist + (Len(tm_queue) - Len(o))
      /\ UNCHANGED <<timer, timer_stop, started>>
  BY DEF AlarmCancel, FromStack, timerVars
<1>1. /\ QueueInv(o, timer) /\ Len(o) <= Len(tm_queue) /\ Len(o) \in Nat
      /\ \A k \in 1 .. Len(o) : \E j \in 1 .. Len(tm_queue) : o[k] = tm_queue[j]
  BY <1>t, CancelKeeps
<1>. HIDE DEF o
<1>2. LoopTypes'
  <2>1. tm_freelist' \in Nat
    BY <1>t, <1>g, <1>1 DEF LoopTypes
  <2>. QED BY <1>t, <1>g, <2>1 DEF LoopTypes
<1>3. EntriesConserved'
  BY <1>t, <1>g, <1>1 DEF EntriesConserved, AlarmInv, LoopTypes
<1>4. CalledInTime'
  BY <1>g, <1>1 DEF AlarmInv, CalledInTime
<1>5. NoOversleep'
  BY <1>g DEF NoOversleep
<1>6. QueueInv(tm_queue, timer)'
  BY <1>g, <1>1 DEF QueueInv, Timed, Ordered
<1>. QED BY <1>2, <1>3, <1>4, <1>5, <1>6 DEF AlarmInv

LEMMA AlarmStartStep ==
  ASSUME AlarmInv, AlarmCalls
  PROVE  AlarmInv'
<1>t. QueueInv(tm_queue, timer) /\ LoopTypes /\ tm_queue # << >>
  BY DEF AlarmInv, AlarmCalls, Due
<1>g. /\ phase = "alarms" /\ TimeGe(timer, Head(tm_queue).run_time)
      /\ phase' = "alarm" /\ cur' = Head(tm_queue) /\ tm_queue' = Tail(tm_queue)
      /\ did_something' = TRUE /\ UNCHANGED <<tm_freelist, timer, timer_stop, started>>
  BY DEF AlarmCalls, Due, timerVars
<1>1. PICK r, h : r = Tail(tm_queue) /\ h = Head(tm_queue)
  OBVIOUS
<1>2. /\ QueueInv(r, timer) /\ Len(r) = Len(tm_queue) - 1 /\ Len(tm_queue) \in Nat
      /\ h \in Entries /\ Timed(h, timer)
      /\ \A k \in 1 .. Len(tm_queue) : h.left <= tm_queue[k].left
      /\ \A k \in 1 .. Len(tm_queue) - 1 : r[k] = tm_queue[k + 1]
  BY <1>t, <1>1, TailKeeps
<1>3. h.left <= 0
  BY <1>t, <1>g, <1>1, <1>2, TimedNow DEF LoopTypes
<1>4. LoopTypes'
  BY <1>t, <1>g, <1>1, <1>2 DEF LoopTypes
<1>5. EntriesConserved'
  <2>1. tm_freelist \in Nat /\ tm_freelist + Len(tm_queue) + 0 = TmSize
    BY <1>g, <1>t DEF AlarmInv, EntriesConserved, LoopTypes
  <2>2. tm_freelist + (Len(tm_queue) - 1) + 1 = TmSize
    BY <1>2, <2>1
  <2>3. Len(tm_queue') = Len(tm_queue) - 1
    BY <1>g, <1>1, <1>2
  <2>. QED BY <1>g, <2>2, <2>3 DEF EntriesConserved
<1>6. CalledInTime'
  <2>1. \A k \in 1 .. Len(r) : h.left <= r[k].left
    <3>1. \A k \in 1 .. Len(tm_queue) - 1 : k + 1 \in 1 .. Len(tm_queue)
      BY <1>2
    <3>. QED BY <1>2, <3>1
  <2>. QED BY <1>g, <1>1, <1>3, <2>1 DEF CalledInTime
<1>7. NoOversleep'
  BY <1>g DEF NoOversleep
<1>8. QueueInv(tm_queue, timer)'
  <2>1. tm_queue' = r /\ timer' = timer
    BY <1>g, <1>1
  <2>. QED BY <1>2, <2>1 DEF QueueInv, Timed, Ordered
<1>. QED BY <1>4, <1>5, <1>6, <1>7, <1>8 DEF AlarmInv

LEMMA AlarmReturnStep ==
  ASSUME AlarmInv, AlarmReturns
  PROVE  AlarmInv'
<1>g. /\ phase = "alarm" /\ phase' = "alarms" /\ cur' = NoAlarm /\ tm_freelist' = tm_freelist + 1
      /\ UNCHANGED <<tm_queue, timer, timer_stop, started, did_something>>
  BY DEF AlarmReturns, timerVars
<1>1. LoopTypes'
  BY <1>g DEF AlarmInv, LoopTypes
<1>2. EntriesConserved'
  BY <1>g, QueueLen DEF AlarmInv, EntriesConserved, LoopTypes
<1>3. CalledInTime' /\ NoOversleep'
  BY <1>g DEF CalledInTime, NoOversleep
<1>4. QueueInv(tm_queue, timer)'
  BY <1>g DEF AlarmInv, QueueInv, Timed, Ordered
<1>. QED BY <1>1, <1>2, <1>3, <1>4 DEF AlarmInv

\* Before the loop may sleep the timer is armed for the first alarm.
LEMMA AlarmsDoneStep ==
  ASSUME AlarmInv, AlarmsDone
  PROVE  AlarmInv'
<1>t. QueueInv(tm_queue, timer) /\ LoopTypes
  BY DEF AlarmInv
<1>g. /\ phase = "alarms" /\ phase' \in {"cbs", "idle"} /\ did_something' = FALSE
      /\ UNCHANGED <<tm_queue, tm_freelist, cur>>
  BY DEF AlarmsDone
<1>1. ASSUME tm_queue # << >>
      PROVE  timer' = timer /\ timer_stop' \in Times /\ started' \in BOOLEAN /\ NoOversleep'
  <2>1. PICK h : h = Head(tm_queue)
    OBVIOUS
  <2>2. h \in Entries /\ Timed(h, timer)
    BY <1>t, <1>1, <2>1, TailKeeps
  <2>3. ~TimeGe(timer, h.run_time) /\ TimerStart(TimeSubtract(h.run_time, timer))
    BY <1>1, <2>1 DEF AlarmsDone, Due
  <2>4. h.left > 0 /\ TimeSubtract(h.run_time, timer) = h.left /\ h.left \in 1 .. HALF - 1
    <3>1. h.left \in Int /\ ~(h.left <= 0)
      BY <1>t, <2>2, <2>3, TimedNow DEF LoopTypes, Entries
    <3>2. h.left \in 1 .. HALF - 1
      BY <2>2, <3>1, TimeFacts DEF Timed, Near
    <3>. QED BY <1>t, <2>2, <3>1, <3>2, TimedNow DEF LoopTypes
  <2>5. /\ timer' = timer /\ started' = TRUE /\ timer_stop' \in Times
        /\ TimeGe(timer_stop', timer) => TimeSubtract(timer_stop', timer) <= h.left
    <3>1. PICK l \in 1 .. HALF - 1 : l = h.left
      BY <2>4
    <3>2. TimerStart(l)
      BY <2>3, <2>4, <3>1
    <3>. QED BY <1>t, <3>1, <3>2, TimerArmed DEF LoopTypes
  <2>6. NoOversleep'
    <3>1. Armed' => SelectTimeout' <= h.left
      BY <2>5 DEF Armed, SelectTimeout, TimeGe, TimeSubtract
    <3>. QED BY <1>g, <2>1, <2>4, <2>5, <3>1 DEF NoOversleep
  <2>. QED BY <2>5, <2>6
<1>2. ASSUME tm_queue = << >>
      PROVE  timer' = timer /\ timer_stop' \in Times /\ started' \in BOOLEAN /\ NoOversleep'
  <2>1. started' = FALSE /\ UNCHANGED <<timer, timer_stop>>
    BY <1>2 DEF AlarmsDone
  <2>. QED BY <1>t, <1>g, <1>2, <2>1 DEF NoOversleep, LoopTypes
<1>3. timer' = timer /\ timer_stop' \in Times /\ started' \in BOOLEAN /\ NoOversleep'
  BY <1>1, <1>2
<1>4. LoopTypes'
  BY <1>t, <1>g, <1>3 DEF LoopTypes
<1>5. EntriesConserved' /\ CalledInTime'
  BY <1>g DEF AlarmInv, EntriesConserved, CalledInTime
<1>6. QueueInv(tm_queue, timer)'
  BY <1>t, <1>g, <1>3 DEF QueueInv, Timed, Ordered
<1>. QED BY <1>3, <1>4, <1>5, <1>6 DEF AlarmInv

\* A sleep is no longer than what is left until the first alarm and the
\* overshoot, or than the default timeout and the overshoot.
LEMMA SleepStep ==
  ASSUME AlarmInv, NEW n \in 0 .. HALF, Sleep(n)
  PROVE  AlarmInv'
<1>t. QueueInv(tm_queue, timer) /\ LoopTypes
  BY DEF AlarmInv
<1>g. /\ phase = "idle" /\ phase' = "cbs" /\ n <= SelectTimeout + Overshoot
      /\ timer' = IF started THEN TimeAdd(timer, n) ELSE timer
      /\ UNCHANGED <<tm_freelist, timer_stop, started, did_something, cur>>
  BY DEF Sleep
<1>1. tm_queue' = Aged(tm_queue, n)
  BY DEF Sleep, Aged
<1>2. tm_queue # << >> => started /\ Head(tm_queue).left - n > - MaxSleep
  <2>1. SUFFICES ASSUME tm_queue # << >> PROVE started /\ Head(tm_queue).left - n > - MaxSleep
    OBVIOUS
  <2>2. PICK l \in Int : l = Head(tm_queue).left
    BY <1>t, <2>1, TailKeeps DEF Entries
  <2>3. started /\ l > 0 /\ (Armed => SelectTimeout <= l)
    BY <1>g, <2>1, <2>2 DEF AlarmInv, NoOversleep
  <2>4. SelectTimeout \in Int
    BY <1>t, TimesRange, TimeFacts DEF SelectTimeout, LoopTypes, Times
  <2>5. CASE Armed
    BY <1>g, <2>2, <2>3, <2>4, <2>5, TimeFacts
  <2>6. CASE ~Armed
    <3>1. SelectTimeout = DefaultTimeout
      BY <2>6 DEF SelectTimeout
    <3>. QED BY <1>g, <2>2, <2>3, <3>1, TimeFacts
  <2>. QED BY <2>3, <2>5, <2>6
<1>3. QueueInv(tm_queue', TimeAdd(timer, n)) /\ Len(tm_queue') = Len(tm_queue)
  BY <1>t, <1>1, <1>2, SleepKeeps DEF LoopTypes
<1>4. timer' \in Times
  <2>1. n \in Times
    BY TimeFacts DEF Times
  <2>2. TimeAdd(timer, n) \in Times /\ timer \in Times
    BY <1>t, <2>1, TimesRange DEF LoopTypes
  <2>. QED BY <1>g, <2>2
<1>5. LoopTypes'
  BY <1>t, <1>g, <1>4 DEF LoopTypes
<1>6. EntriesConserved' /\ CalledInTime' /\ NoOversleep'
  BY <1>g, <1>3 DEF AlarmInv, EntriesConserved, CalledInTime, NoOversleep
<1>7. QueueInv(tm_queue, timer)'
  <2>1. CASE tm_queue # << >>
    <3>1. timer' = TimeAdd(timer, n)
      BY <1>g, <1>2, <2>1
    <3>. QED BY <1>3, <3>1 DEF QueueInv, Timed, Ordered
  <2>2. CASE tm_queue = << >>
    <3>1. Len(tm_queue') = 0 /\ tm_queue' \in Seq(Entries)
      BY <1>3, <2>2 DEF QueueInv
    <3>. QED BY <3>1 DEF QueueInv, Ordered
  <2>. QED BY <2>1, <2>2
<1>. QED BY <1>5, <1>6, <1>7 DEF AlarmInv

LEMMA AlarmNext == AlarmInv /\ [TmNext]_tmVars => AlarmInv'
<1>. SUFFICES ASSUME AlarmInv, [TmNext]_tmVars PROVE AlarmInv'
  OBVIOUS
<1>1. CASE CallbacksEnd
  <2>1. /\ phase = "cbs" /\ phase' = "alarms"
        /\ UNCHANGED <<tm_queue, tm_freelist, timer, timer_stop, started, did_something, cur>>
    BY <1>1 DEF CallbacksEnd, timerVars
  <2>2. LoopTypes'
    BY <2>1 DEF AlarmInv, LoopTypes
  <2>3. EntriesConserved' /\ CalledInTime' /\ NoOversleep'
    BY <2>1 DEF AlarmInv, EntriesConserved, CalledInTime, NoOversleep
  <2>4. QueueInv(tm_queue, timer)'
    BY <2>1 DEF AlarmInv, QueueInv, Timed, Ordered
  <2>. QED BY <2>2, <2>3, <2>4 DEF AlarmInv
<1>2. CASE UNCHANGED tmVars
  <2>1. UNCHANGED <<tm_queue, tm_freelist, timer, timer_stop, started, did_something, cur, phase>>
    BY <1>2 DEF tmVars, timerVars
  <2>2. LoopTypes' /\ EntriesConserved' /\ CalledInTime' /\ NoOversleep'
    BY <2>1 DEF AlarmInv, LoopTypes, EntriesConserved, CalledInTime, NoOversleep,
                Armed, SelectTimeout, TimeGe, TimeSubtract
  <2>3. QueueInv(tm_queue, timer)'
    BY <2>1 DEF AlarmInv, QueueInv, Timed, Ordered
  <2>. QED BY <2>2, <2>3 DEF AlarmInv
<1>. QED BY <1>1, <1>2, ScheduleStep, CancelStep, AlarmStartStep, AlarmReturnStep, AlarmsDoneStep,
            SleepStep DEF TmNext

LEMMA AlarmInvariant == TmSpec => []AlarmInv
BY AlarmInit, AlarmNext, PTL DEF TmSpec

\* The queue of zb_schedule_alarm and zb_schedule_alarm_cancel stays ordered by
\* the time that really is left across every wrap of the clock, and no entry is
\* lost or used twice, for every range of the clock and every set of delays less
\* than half of it (the condition of zb_time.h:119).
THEOREM AlarmQueue == TmSpec => []QueueSound
<1>1. AlarmInv => TmTypeOK
  <2>1. SUFFICES ASSUME AlarmInv PROVE TmTypeOK
    OBVIOUS
  <2>2. tm_freelist \in 0 .. TmSize
    BY <2>1, QueueLen, TimeAssumption DEF AlarmInv, LoopTypes, EntriesConserved
  <2>. QED BY <2>1, <2>2 DEF AlarmInv, LoopTypes, QueueInv, TmTypeOK, Times
<1>2. AlarmInv => QueueOrder /\ EntriesConserved
  BY DEF AlarmInv, QueueInv, QueueOrder, Ordered, Timed
<1>3. AlarmInv => QueueSound
  BY <1>1, <1>2 DEF QueueSound
<1>. QED BY <1>3, AlarmInvariant, PTL

\* zb_sched_loop_iteration calls no alarm before its time or before one that is
\* due earlier, never asks for a sleep past the first alarm because of the timer
\* (zb_timer_start), and is late by less than the longest sleep.
THEOREM AlarmsInTime == TmSpec => []InTime
<1>1. AlarmInv => LateBounded
  BY DEF AlarmInv, QueueInv, LateBounded, Timed, Near
<1>2. AlarmInv => InTime
  BY <1>1 DEF AlarmInv, InTime
<1>. QED BY <1>2, AlarmInvariant, PTL
=============================================================================
