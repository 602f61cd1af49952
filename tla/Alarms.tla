------------------------------- MODULE Alarms -------------------------------
(***************************************************************************)
(* Delayed callbacks: the alarm queue of the scheduler                     *)
(* (common/zb_scheduler.c), the timer it arms (common/zb_time.c) and the   *)
(* sleep of the loop that moves the clock (the select() of                 *)
(* osif/unix/zb_mac_transport_linux_pipes.c).  Time is counted in beacon   *)
(* intervals modulo TimeMod and compared with ZB_TIME_GE.  This is the     *)
(* build with the network simulator: no transceiver interrupt breaks the   *)
(* loops, and the clock moves only while the loop sleeps.                  *)
(***************************************************************************)
EXTENDS Integers, SequencesExt

CONSTANTS Funcs,           \* callbacks that are scheduled as alarms
          Params,          \* their parameters
          AnyParam,        \* ZB_ALARM_ANY_PARAM
          AllCb,           \* ZB_ALARM_ALL_CB
          TmSize,          \* ZB_SCHEDULER_Q_SIZE, alarm entries
          TimeMod,         \* 2^16, the range of zb_time_t
          Delays,          \* values of run_after
          DefaultTimeout,  \* ZB_LINUX_PIPE_TRANSPORT_TIMEOUT
          Overshoot        \* how much longer than asked a sleep may take

HALF == (TimeMod - 1) \div 2
MaxSleep == DefaultTimeout + Overshoot
MaxLate == HALF           \* bound of the history: later than this is not told apart

\* zb_time.h:119 "difference between a and b can't be > 1/2 of the overall time
\* values diapason".
ASSUME TimeAssumption ==
  /\ TmSize \in Nat \ {0} /\ TimeMod \in Nat \ {0}
  /\ DefaultTimeout \in Nat \ {0} /\ Overshoot \in Nat
  /\ Delays \subseteq Nat
  /\ \A d \in Delays : d + MaxSleep < HALF
ASSUME ParamAssumption == AnyParam \notin Params /\ AllCb \notin Params /\ AnyParam # AllCb

VARIABLES tm_queue,      \* scheduled alarms; left is history: time to go, really
          tm_freelist,   \* number of free entries
          timer,         \* ZB_TIMER_GET()
          timer_stop,    \* when the timer is to stop
          started,       \* the timer runs
          phase,            \* where the loop iteration is
          did_something, \* the iteration called something
          cur            \* the alarm being called

timerVars == <<timer, timer_stop, started>>
tmVars == <<tm_queue, tm_freelist, timerVars, phase, did_something, cur>>

Alarm(f, p, at, l) == [func |-> f, param |-> p, run_time |-> at, left |-> l]
NoAlarm == << >>

\* zb_sched_init on zeroed globals.
TmInit ==
  /\ tm_queue = << >>
  /\ tm_freelist = TmSize
  /\ timer = 0 /\ timer_stop = 0 /\ started = FALSE
  /\ phase = "cbs"
  /\ did_something = FALSE
  /\ cur = NoAlarm

-----------------------------------------------------------------------------

\* ZB_TIME_ADD
TimeAdd(a, b) == (a + b) % TimeMod

\* ZB_TIME_GE
TimeGe(a, b) == (a - b) % TimeMod < HALF

\* ZB_TIME_SUBTRACT
TimeSubtract(a, b) ==
  IF (a - b) % TimeMod < HALF THEN (a - b) % TimeMod ELSE (b - a) % TimeMod

\* Mutation: the comparison of the 8051 build.
TimerStartLater(timeout) ==
  LET t == TimeAdd(timer, timeout) IN
  /\ UNCHANGED timer
  /\ started' = TRUE
  /\ timer_stop' = IF ~started \/ TimeGe(t, timer_stop) THEN t ELSE timer_stop

\* zb_timer_start: the timer is set if it is not running, or to stop earlier
\* than it would, or if it should have stopped already.
TimerStart(timeout) ==
  LET t == TimeAdd(timer, timeout)
      sets == \/ ~started
              \/ ~TimeGe(t, timer_stop)
              \/ ~TimeGe(timer_stop, timer)
  IN  /\ UNCHANGED timer
      /\ IF sets THEN timer_stop' = t /\ started' = TRUE
                 ELSE UNCHANGED <<timer_stop, started>>

\* The position search of zb_schedule_alarm.  The predecessor of the head is
\* the tail, so a search that stops at the head appends too.
Insert(q, new) ==
  IF q = << >> \/ TimeGe(Head(q).run_time, new.run_time)
    THEN <<new>> \o q
    ELSE LET i == SelectInSeq(q, LAMBDA e : ~TimeGe(new.run_time, e.run_time))
         IN  IF i > 1 THEN InsertAt(q, i, new) ELSE Append(q, new)

\* Called by the stack from an immediate callback, then the iteration did
\* something, or from an alarm.
FromStack ==
  /\ phase \in {"cbs", "alarm"}
  /\ did_something' = TRUE
  /\ UNCHANGED <<phase, cur>>

\* zb_schedule_alarm.  Without a free entry it answers RET_OVERFLOW.
ScheduleAlarm(f, p, run_after) ==
  /\ FromStack
  /\ tm_freelist > 0
  /\ tm_freelist' = tm_freelist - 1
  /\ tm_queue' = Insert(tm_queue, Alarm(f, p, TimeAdd(timer, run_after), run_after))
  /\ LET at == Head(tm_queue').run_time IN
       IF at # timer /\ TimeGe(at, timer)
         THEN TimerStart(TimeSubtract(at, timer))
         ELSE UNCHANGED timerVars

\* The queue without the entries of f.
Without(q, f) ==
  LET rest[n \in 0 .. Len(q)] ==
        IF n = 0 THEN << >>
        ELSE IF q[n].func = f THEN rest[n - 1] ELSE Append(rest[n - 1], q[n])
  IN  rest[Len(q)]

\* The queue after zb_schedule_alarm_cancel: all entries of f go, or the first
\* one with the parameter.
Cancelled(q, f, p) ==
  IF p = AllCb
    THEN Without(q, f)
    ELSE RemoveFirstMatch(q, LAMBDA e : e.func = f /\ p \in {AnyParam, e.param})

\* Mutation: a cancelled entry is not given back.
AlarmCancelLeaks(f, p) ==
  /\ FromStack
  /\ tm_queue' = Cancelled(tm_queue, f, p)
  /\ UNCHANGED <<tm_freelist, timerVars>>

\* zb_schedule_alarm_cancel.  The timer is left as it is.
AlarmCancel(f, p) ==
  /\ FromStack
  /\ tm_queue' = Cancelled(tm_queue, f, p)
  /\ tm_freelist' = tm_freelist + (Len(tm_queue) - Len(tm_queue'))
  /\ UNCHANGED timerVars

-----------------------------------------------------------------------------
\* The loop iteration.

CallbacksEnd ==
  /\ phase = "cbs"
  /\ phase' = "alarms"
  /\ UNCHANGED <<tm_queue, tm_freelist, timerVars, did_something, cur>>

Due == tm_queue # << >> /\ TimeGe(timer, Head(tm_queue).run_time)

\* The head leaves the queue and is called; its entry is not free meanwhile.
AlarmCalls ==
  /\ phase = "alarms"
  /\ Due
  /\ phase' = "alarm"
  /\ cur' = Head(tm_queue)
  /\ tm_queue' = Tail(tm_queue)
  /\ did_something' = TRUE
  /\ UNCHANGED <<tm_freelist, timerVars>>

AlarmReturns ==
  /\ phase = "alarm"
  /\ phase' = "alarms"
  /\ cur' = NoAlarm
  /\ tm_freelist' = tm_freelist + 1
  /\ UNCHANGED <<tm_queue, timerVars, did_something>>

\* Mutation: the timer is stopped although alarms wait.
AlarmsDoneStops ==
  /\ phase = "alarms"
  /\ ~Due
  /\ started' = FALSE /\ UNCHANGED <<timer, timer_stop>>
  /\ phase' = IF did_something THEN "cbs" ELSE "idle"
  /\ did_something' = FALSE
  /\ UNCHANGED <<tm_queue, tm_freelist, cur>>

\* No alarm is due: arm the timer for the first one or stop it
\* (zb_timer_stop_async), and start again, or sleep after an iteration that did
\* nothing.
AlarmsDone ==
  /\ phase = "alarms"
  /\ ~Due
  /\ IF tm_queue # << >>
       THEN TimerStart(TimeSubtract(Head(tm_queue).run_time, timer))
       ELSE started' = FALSE /\ UNCHANGED <<timer, timer_stop>>
  /\ phase' = IF did_something THEN "cbs" ELSE "idle"
  /\ did_something' = FALSE
  /\ UNCHANGED <<tm_queue, tm_freelist, cur>>

\* The timer says when to wake up.
Armed == started /\ timer_stop # timer /\ TimeGe(timer_stop, timer)

SelectTimeout ==
  IF Armed THEN TimeSubtract(timer_stop, timer) ELSE DefaultTimeout

\* zb_mac_wait_for_ext_event: sleep in select() until data arrives or the
\* timeout is over; the clock moves only if the timer runs.
Sleep(n) ==
  /\ phase = "idle"
  /\ n <= SelectTimeout + Overshoot
  /\ timer' = IF started THEN TimeAdd(timer, n) ELSE timer
  /\ tm_queue' = [i \in DOMAIN tm_queue |-> 
                     [tm_queue[i] EXCEPT !.left = Max({@ - n, - MaxLate})]]
  /\ phase' = "cbs"
  /\ UNCHANGED <<tm_freelist, timer_stop, started, did_something, cur>>

TmNext ==
  \/ \E f \in Funcs, p \in Params, d \in Delays : ScheduleAlarm(f, p, d)
  \/ \E f \in Funcs, p \in Params \cup {AnyParam, AllCb} : AlarmCancel(f, p)
  \/ CallbacksEnd
  \/ AlarmCalls
  \/ AlarmReturns
  \/ AlarmsDone
  \/ \E n \in 0 .. HALF : Sleep(n)

TmSpec == TmInit /\ [][TmNext]_tmVars

-----------------------------------------------------------------------------
Entries == [func : Funcs, param : Params, run_time : 0 .. TimeMod - 1, left : Int]

TmTypeOK ==
  /\ tm_queue \in Seq(Entries)
  /\ tm_freelist \in 0 .. TmSize
  /\ timer \in 0 .. TimeMod - 1 /\ timer_stop \in 0 .. TimeMod - 1
  /\ started \in BOOLEAN /\ did_something \in BOOLEAN
  /\ phase \in {"cbs", "alarms", "alarm", "idle"}
  /\ cur \in Entries \cup {NoAlarm}

\* zb_scheduler.c:276-360: across every wrap of the 16-bit clock the queue stays
\* ordered by the time the alarms really have to go, and the clock of the stack
\* moves with it.
QueueOrder ==
  /\ \A i, j \in 1 .. Len(tm_queue) : i < j => tm_queue[i].left <= tm_queue[j].left
  /\ \A i \in 1 .. Len(tm_queue) :
       tm_queue[i].run_time = TimeAdd(timer, tm_queue[i].left)

\* zb_scheduler.h:228 "will be called via scheduler after timeout expired": no
\* alarm is called early, nor before one that expired earlier.
CalledInTime ==
  phase = "alarm" => /\ cur.left <= 0
                  /\ \A i \in 1 .. Len(tm_queue) : cur.left <= tm_queue[i].left

\* Every entry is free, queued or being called.
EntriesConserved ==
  tm_freelist + Len(tm_queue) + (IF phase = "alarm" THEN 1 ELSE 0) = TmSize

\* Whatever was cancelled or inserted since the timer was armed, the loop never
\* asks for a sleep that ends after the first alarm because of the timer, and
\* with an alarm to wait for the clock runs.
NoOversleep ==
  phase = "idle" /\ tm_queue # << >> =>
    /\ started
    /\ Head(tm_queue).left > 0
    /\ Armed => SelectTimeout <= Head(tm_queue).left

\* An alarm is late by less than the longest sleep.
LateBounded ==
  \A i \in 1 .. Len(tm_queue) : tm_queue[i].left > - MaxSleep

\* The queue of zb_schedule_alarm and zb_schedule_alarm_cancel
\* (zb_scheduler.c:266-390): ordered, and made of exactly the entries that are
\* neither free nor being called, whatever is cancelled while an alarm runs.
QueueSound == TmTypeOK /\ QueueOrder /\ EntriesConserved

\* Never early, never put to sleep past the first alarm, and late by less than
\* the longest sleep (zb_scheduler.c:128-153, zb_time.c:59-92).
InTime == CalledInTime /\ NoOversleep /\ LateBounded

-----------------------------------------------------------------------------
\* The main program calls the loop for ever, a called function returns, and time
\* goes by while the loop sleeps.
TmFairness ==
  /\ WF_tmVars(CallbacksEnd) /\ WF_tmVars(AlarmCalls) /\ WF_tmVars(AlarmReturns)
  /\ WF_tmVars(AlarmsDone)
  /\ SF_tmVars(\E n \in 1 .. HALF : Sleep(n))

TmLiveSpec == TmSpec /\ TmFairness

Scheduled(f, p) ==
  \E i \in 1 .. Len(tm_queue) : tm_queue[i].func = f /\ tm_queue[i].param = p

Called(f, p) == phase = "alarm" /\ cur.func = f /\ cur.param = p

\* As long as the loop keeps coming to rest and cancels come to an end, every
\* scheduled alarm is called or cancelled in the end.  (With a zero run_after a
\* callback that schedules itself again keeps the alarm loop busy for ever.)
AlarmCalled ==
  \A f \in Funcs, p \in Params :
    []<>(phase = "idle") /\ <>[][\A q \in {p, AnyParam, AllCb} : ~AlarmCancel(f, q)]_tmVars =>
      (Scheduled(f, p) ~> Called(f, p) \/ ~Scheduled(f, p))
=============================================================================
