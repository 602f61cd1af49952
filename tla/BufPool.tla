------------------------------ MODULE BufPool ------------------------------
(***************************************************************************)
(* The packet buffer pool (common/zb_bufpool.c) together with what it      *)
(* shares state with: the immediate callback queue of the scheduler        *)
(* (common/zb_scheduler.c) and the receive step of the MAC main loop       *)
(* (mac/mac.c).  All of it runs in one cooperative thread: the loop        *)
(* receives a frame, runs the queued callbacks, runs the expired alarms,   *)
(* and starts again.  A callback keeps its queue entry until it returns.   *)
(* Callbacks are the stack above: while one runs it may take, free, pass   *)
(* on or keep buffers.                                                     *)
(***************************************************************************)
EXTENDS Naturals, Sequences, FiniteSets

CONSTANTS Bufs,       \* ZG->bpool.pool
          CbQSize,    \* ZB_SCHEDULER_Q_SIZE, capacity of cb_q
          BufQSize,   \* ZB_BUF_Q_SIZE, entries for delayed requests
          Requests,   \* callbacks that ask for a buffer with zb_get_buf_delayed
          Other,      \* any other callback
          Parse,      \* zb_mac_parse_recv_data
          NoBuf       \* a parameter that is not a buffer

ASSUME BufsAssumption == IsFiniteSet(Bufs) /\ Cardinality(Bufs) >= 2
ASSUME SizesAssumption == CbQSize \in Nat \ {0} /\ BufQSize \in Nat \ {0}
ASSUME NamesAssumption ==
  NoBuf \notin Bufs /\ Other \notin Requests /\ Parse \notin Requests /\ Other # Parse

Dirs == {"in", "out"}

\* ZB_BUFS_LIMIT: the pool is divided into halves.
Limit == Cardinality(Bufs) \div 2

VARIABLES ns_build,     \* ZB_NS_BUILD: frames are parsed inside the MAC loop
          part,         \* "free", or the half of the pool a buffer is counted in
          allocated,    \* bpool.bufs_allocated
          waiting,      \* inbuf_queue and outbuf_queue
          buf_freelist, \* number of free entries for delayed requests
          cb_q,         \* the immediate callback queue
          pc,           \* where the loop iteration is
          held,         \* buffers the stack above owns
          lost,         \* history: buffers nobody refers to any more
          trans_int,    \* the transceiver raised its interrupt
          rx_pending,   \* a received frame waits in the transceiver
          rx_need_buf,  \* MAC_CTX().rx_need_buf
          recv_buf      \* MAC_CTX().recv_buf

poolVars == <<part, allocated>>
reqVars == <<waiting, buf_freelist>>
rxVars == <<ns_build, trans_int, rx_pending, rx_need_buf, recv_buf>>
vars == <<poolVars, reqVars, cb_q, pc, held, lost, rxVars>>

Entry(f, p) == [func |-> f, param |-> p]

\* Between iterations, in one of the two inner loops, or inside a function
\* called from the loop.
Phases == {"mac", "parse", "cbs", "cb", "alarms", "alarm"}
Running == pc \in {"cb", "alarm"}

\* zb_init_buffers and zb_sched_init on zeroed globals, in either build.
Init ==
  /\ ns_build \in BOOLEAN
  /\ part = [b \in Bufs |-> "free"]
  /\ allocated = [d \in Dirs |-> 0]
  /\ waiting = [d \in Dirs |-> << >>]
  /\ buf_freelist = BufQSize
  /\ cb_q = << >>
  /\ pc = "mac"
  /\ held = {} /\ lost = {}
  /\ trans_int = FALSE /\ rx_pending = FALSE /\ rx_need_buf = FALSE
  /\ recv_buf = NoBuf

-----------------------------------------------------------------------------

\* zb_schedule_callback, its result ignored as the stack does: a full queue
\* loses the call, and with it the buffer the call would have carried.
Schedule(f, b) ==
  IF Len(cb_q) < CbQSize
    THEN cb_q' = Append(cb_q, Entry(f, b)) /\ UNCHANGED lost
    ELSE lost' = lost \cup ({b} \ {NoBuf}) /\ UNCHANGED cb_q

CanGet(d) == allocated[d] < Limit /\ \E b \in Bufs : part[b] = "free"

\* zb_get_buf when it returns buffer b.  Which free buffer heads the list does
\* not matter to any property: any of them may.
TakeBuf(d, b) ==
  /\ CanGet(d)
  /\ part[b] = "free"
  /\ part' = [part EXCEPT ![b] = d]
  /\ allocated' = [allocated EXCEPT ![d] = @ + 1]

\* Mutation: while the receiver is short of a buffer nobody is served.
ServesUnlessRx(b) == waiting[part[b]] # << >> /\ ~rx_need_buf

\* Mutation: requests for in buffers are not looked at.
ServesOutOnly(b) == waiting[part[b]] # << >> /\ part[b] = "out"

\* zb_free_buf serves the first delayed request of the buffer's half, but an in
\* buffer is kept for the receiver when the receiver is short of one.
Serves(b) ==
  /\ waiting[part[b]] # << >>
  /\ part[b] = "in" => ~rx_need_buf

\* Mutation: the freed buffer is given to the request and kept on the free list.
FreeBufTwice(b) ==
  /\ part' = [part EXCEPT ![b] = "free"]
  /\ allocated' = [allocated EXCEPT ![part[b]] = @ - 1]
  /\ IF Serves(b)
       THEN /\ waiting' = [waiting EXCEPT ![part[b]] = Tail(@)]
            /\ buf_freelist' = buf_freelist + 1
            /\ Schedule(Head(waiting[part[b]]), b)
       ELSE UNCHANGED <<reqVars, cb_q, lost>>

\* zb_free_buf.  The buffer is pushed on the free list first, so the zb_get_buf
\* that serves a request pops the same buffer and the counters end as before.
FreeBuf(b) ==
  IF Serves(b)
    THEN /\ waiting' = [waiting EXCEPT ![part[b]] = Tail(@)]
         /\ buf_freelist' = buf_freelist + 1
         /\ Schedule(Head(waiting[part[b]]), b)
         /\ UNCHANGED poolVars
    ELSE /\ part' = [part EXCEPT ![b] = "free"]
         /\ allocated' = [allocated EXCEPT ![part[b]] = @ - 1]
         /\ UNCHANGED <<reqVars, cb_q, lost>>

-----------------------------------------------------------------------------
\* What a function called from the loop may do, any number of times.

\* zb_get_in_buf, zb_get_out_buf
AppGet(d) ==
  /\ Running
  /\ \E b \in Bufs : TakeBuf(d, b) /\ held' = held \cup {b}
  /\ UNCHANGED <<reqVars, cb_q, pc, lost, rxVars>>

\* zb_get_in_buf_delayed, zb_get_out_buf_delayed when a buffer is there
AppGetDelayedNow(d, r) ==
  /\ Running
  /\ \E b \in Bufs : TakeBuf(d, b) /\ Schedule(r, b)
  /\ UNCHANGED <<reqVars, pc, held, rxVars>>

\* Mutation: the request is queued without looking at the pool first.
AppGetDelayedAlwaysQueues(d, r) ==
  /\ Running
  /\ buf_freelist > 0
  /\ buf_freelist' = buf_freelist - 1
  /\ waiting' = [waiting EXCEPT ![d] = Append(@, r)]
  /\ UNCHANGED <<poolVars, cb_q, pc, held, lost, rxVars>>

\* ... and when none is there: the request is queued.  With no entry left the
\* call answers RET_ERROR and nothing changes.
AppGetDelayedWait(d, r) ==
  /\ Running
  /\ ~CanGet(d)
  /\ buf_freelist > 0
  /\ buf_freelist' = buf_freelist - 1
  /\ waiting' = [waiting EXCEPT ![d] = Append(@, r)]
  /\ UNCHANGED <<poolVars, cb_q, pc, held, lost, rxVars>>

\* zb_free_buf on a buffer the stack owns.  Parsing frees the frame it was
\* given when it drops the frame, and no other buffer.
AppFree(b) ==
  /\ Running \/ (pc = "parse" /\ b = recv_buf)
  /\ b \in held
  /\ FreeBuf(b)
  /\ held' = held \ {b}
  /\ UNCHANGED <<pc, rxVars>>

\* ZB_SCHEDULE_CALLBACK with a buffer the stack owns; so does parsing, with the
\* frame for the handler of its type or with a stored poll request
AppPass(b) ==
  /\ Running \/ pc = "parse"
  /\ b \in held
  /\ Schedule(Other, b)
  /\ held' = held \ {b}
  /\ UNCHANGED <<poolVars, reqVars, pc, rxVars>>

\* ZB_SCHEDULE_CALLBACK without a buffer
AppCall ==
  /\ Running
  /\ Schedule(Other, NoBuf)
  /\ UNCHANGED <<poolVars, reqVars, pc, held, rxVars>>

\* zb_mac_parse_recv_data has no case for the frame's type: it returns and
\* nobody owns the frame's buffer any more.
ParseForgets(b) ==
  /\ \/ pc = "parse" /\ b = recv_buf
     \/ pc = "cb" /\ Head(cb_q) = Entry(Parse, b)
  /\ b \in held
  /\ held' = held \ {b}
  /\ lost' = lost \cup {b}
  /\ UNCHANGED <<poolVars, reqVars, cb_q, pc, rxVars>>

-----------------------------------------------------------------------------
\* The loop iteration.

\* The break of both inner loops: let the MAC take the frame in first.
RxFirst == trans_int /\ allocated["in"] < Limit

\* zb_mac_main_loop, receive step: a frame and a buffer for it.  The frame is
\* parsed at once, or by a callback; the receiver's need is cleared after that.
Receive ==
  \E b \in Bufs :
    /\ TakeBuf("in", b)
    /\ rx_pending' = FALSE
    /\ UNCHANGED reqVars
    /\ IF ns_build
         THEN /\ pc' = "parse"
              /\ recv_buf' = b
              /\ held' = held \cup {b}
              /\ UNCHANGED <<cb_q, lost, rx_need_buf>>
         ELSE /\ pc' = "cbs"
              /\ Schedule(Parse, b)
              /\ rx_need_buf' = FALSE
              /\ UNCHANGED <<held, recv_buf>>

\* ... a frame and no buffer
ReceiveLater ==
  /\ ~CanGet("in")
  /\ rx_pending' = TRUE
  /\ rx_need_buf' = TRUE
  /\ pc' = "cbs"
  /\ UNCHANGED <<poolVars, reqVars, cb_q, held, lost, recv_buf>>

\* zb_mac_main_loop: read the interrupt status, which may also report the end
\* of a transmission, then serve the receiver.
MacLoop ==
  /\ pc = "mac"
  /\ trans_int' = FALSE
  /\ UNCHANGED ns_build
  /\ \E rxirq \in {FALSE, trans_int} :
       IF rx_pending \/ rxirq
         THEN Receive \/ ReceiveLater
         ELSE pc' = "cbs" /\ UNCHANGED <<poolVars, reqVars, cb_q, held, lost,
                                         rx_pending, rx_need_buf, recv_buf>>

\* zb_mac_recv_data returns to the MAC loop after parsing.
ParseReturn ==
  /\ pc = "parse"
  /\ pc' = "cbs"
  /\ rx_need_buf' = FALSE
  /\ recv_buf' = NoBuf
  /\ UNCHANGED <<poolVars, reqVars, cb_q, held, lost, ns_build, trans_int, rx_pending>>

\* Call the oldest callback; it owns the buffer it is called with.
CallbackStart ==
  /\ pc = "cbs"
  /\ cb_q # << >>
  /\ ~RxFirst
  /\ pc' = "cb"
  /\ held' = held \cup ({Head(cb_q).param} \ {NoBuf})
  /\ UNCHANGED <<poolVars, reqVars, cb_q, lost, rxVars>>

\* The callback returns; only now its entry is removed.
CallbackReturn ==
  /\ pc = "cb"
  /\ pc' = "cbs"
  /\ cb_q' = Tail(cb_q)
  /\ UNCHANGED <<poolVars, reqVars, held, lost, rxVars>>

CallbacksDone ==
  /\ pc = "cbs"
  /\ cb_q = << >> \/ RxFirst
  /\ pc' = "alarms"
  /\ UNCHANGED <<poolVars, reqVars, cb_q, held, lost, rxVars>>

\* An expired alarm is called; alarms carry buffers only as stored references.
AlarmStart ==
  /\ pc = "alarms"
  /\ ~RxFirst
  /\ pc' = "alarm"
  /\ UNCHANGED <<poolVars, reqVars, cb_q, held, lost, rxVars>>

AlarmReturn ==
  /\ pc = "alarm"
  /\ pc' = "alarms"
  /\ UNCHANGED <<poolVars, reqVars, cb_q, held, lost, rxVars>>

IterationEnds ==
  /\ pc = "alarms"
  /\ pc' = "mac"
  /\ UNCHANGED <<poolVars, reqVars, cb_q, held, lost, rxVars>>

\* The transceiver has a frame: an interrupt at any time, or, in the build with
\* the network simulator, a read from the pipe between two iterations.
FrameArrives ==
  /\ IF ns_build
       THEN pc = "mac" /\ rx_pending' = TRUE /\ UNCHANGED trans_int
       ELSE trans_int' = TRUE /\ UNCHANGED rx_pending
  /\ UNCHANGED <<poolVars, reqVars, cb_q, pc, held, lost, ns_build,
                 rx_need_buf, recv_buf>>

App ==
  \/ \E d \in Dirs : AppGet(d)
  \/ \E d \in Dirs, r \in Requests : AppGetDelayedNow(d, r) \/ AppGetDelayedWait(d, r)
  \/ \E b \in Bufs : AppFree(b) \/ AppPass(b) \/ ParseForgets(b)
  \/ AppCall

Loop ==
  \/ MacLoop
  \/ ParseReturn
  \/ CallbackStart
  \/ CallbackReturn
  \/ CallbacksDone
  \/ AlarmStart
  \/ AlarmReturn
  \/ IterationEnds

Next == App \/ Loop \/ FrameArrives

Spec == Init /\ [][Next]_vars

-----------------------------------------------------------------------------
TypeOK ==
  /\ ns_build \in BOOLEAN
  /\ part \in [Bufs -> Dirs \cup {"free"}]
  /\ allocated \in [Dirs -> Nat]
  /\ waiting \in [Dirs -> Seq(Requests)]
  /\ buf_freelist \in 0 .. BufQSize
  /\ cb_q \in Seq([func : Requests \cup {Other, Parse}, param : Bufs \cup {NoBuf}])
  /\ Len(cb_q) <= CbQSize
  /\ pc \in Phases
  /\ held \subseteq Bufs /\ lost \subseteq Bufs
  /\ trans_int \in BOOLEAN /\ rx_pending \in BOOLEAN /\ rx_need_buf \in BOOLEAN
  /\ recv_buf \in Bufs \cup {NoBuf}

\* The buffers of one half.
Half(d) == {b \in Bufs : part[b] = d}

\* zb_bufpool.c:118 "Do not allow one part to eat entire another part": the
\* counters are exact and bounded, so whatever the other half does, a half
\* below its limit can always take a buffer.
HalvesIndependent ==
  \A d \in Dirs :
    /\ allocated[d] = Cardinality(Half(d))
    /\ allocated[d] <= Limit
    /\ allocated[d] < Limit => CanGet(d)

\* The queue entries whose callback has not been called: the buffer of the
\* entry belongs to the entry.  A running callback's entry is still in the queue.
Pending == {i \in 1 .. Len(cb_q) : pc = "cb" => i > 1}

\* Every buffer outside the free list has exactly one owner: one pending queue
\* entry, the stack, or nobody for ever; and a buffer on the free list has none.
OneOwner ==
  /\ \A i, j \in Pending :
       i # j /\ cb_q[i].param = cb_q[j].param => cb_q[i].param = NoBuf
  /\ \A i \in Pending : cb_q[i].param \notin held \cup lost
  /\ held \cap lost = {}
  /\ \A b \in Bufs :
       part[b] # "free" <=> \/ b \in held \cup lost
                            \/ \E i \in Pending : cb_q[i].param = b

\* No lost wake-up for senders: a delayed request for an out buffer waits only
\* while the out half is exhausted.
OutWaitsOnlyIfExhausted ==
  waiting["out"] # << >> => allocated["out"] = Limit

\* In the build that parses in a callback, a delayed request for an in buffer
\* always has somebody who will wake it (zb_bufpool.c:222): an in buffer with an
\* owner who frees it, or the receiver about to take one in; or an in buffer was
\* lost before.
InWaitHasWaker ==
  ~ns_build /\ waiting["in"] # << >> =>
    \/ Half("in") # {}
    \/ rx_need_buf /\ rx_pending

\* Request entries are neither lost nor duplicated.
RequestEntries ==
  buf_freelist + Len(waiting["in"]) + Len(waiting["out"]) = BufQSize

\* What the pool promises whoever uses it (zb_bufpool.c:110-249): exact counters
\* of two halves that cannot eat each other, one owner for every buffer and no
\* request entry lost, whatever order buffers and requests come and go in.
PoolSound == TypeOK /\ HalvesIndependent /\ OneOwner /\ RequestEntries

-----------------------------------------------------------------------------
\* The loop never stops (the main program calls it for ever), a called function
\* returns, and the transceiver does not interrupt every single iteration before
\* its first callback.  Of the stack above it is assumed that the alarms of one
\* iteration come to an end and that whoever owns a buffer frees it in one of
\* the calls it gets.
Fairness ==
  /\ WF_vars(MacLoop) /\ SF_vars(CallbackStart) /\ WF_vars(CallbacksDone)
  /\ WF_vars(ParseReturn) /\ WF_vars(CallbackReturn) /\ WF_vars(AlarmReturn)
  /\ SF_vars(IterationEnds)
  /\ \A b \in Bufs : SF_vars(AppFree(b))

LiveSpec == Spec /\ Fairness

OutWaits(r) == \E i \in 1 .. Len(waiting["out"]) : waiting["out"][i] = r

\* zb_bufpool.h:308 "schedule callback later, when buffer will be available": as
\* long as alarms keep being called, a request that waits for an out buffer is
\* served in the end, unless every out buffer has been lost.
OutRequestServed ==
  []<>(pc = "alarm") =>
    \A r \in Requests :
      OutWaits(r) ~> \/ ~OutWaits(r)
                     \/ Cardinality(Half("out") \cap lost) = Limit
=============================================================================
