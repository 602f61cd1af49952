---------------------------- MODULE BoundedFifo ----------------------------
(***************************************************************************)
(* What every fixed-size queue of the stack promises (the immediate        *)
(* callback queue, the transmit queue, the APS acknowledgement and group   *)
(* queues): entries are served in the order they were put, at most         *)
(* Capacity entries are kept, and the entry being served keeps its place   *)
(* and its value until it has been served, whatever the code that serves   *)
(* it puts into the queue meanwhile.                                       *)
(***************************************************************************)
EXTENDS Naturals, Sequences

CONSTANTS Capacity,   \* the most entries the queue holds
          Values,     \* what an entry may hold
          Nobody      \* "no entry is being served"

VARIABLES queue,      \* the entries, oldest first
          serving     \* the entry being served, or Nobody

fifoVars == <<queue, serving>>

FifoInit == queue = << >> /\ serving = Nobody

FifoPut(v) ==
  /\ Len(queue) < Capacity
  /\ queue' = Append(queue, v)
  /\ UNCHANGED serving

FifoBegin ==
  /\ serving = Nobody
  /\ queue # << >>
  /\ serving' = Head(queue)
  /\ UNCHANGED queue

FifoEnd ==
  /\ serving # Nobody
  /\ serving = Head(queue)
  /\ queue' = Tail(queue)
  /\ serving' = Nobody

FifoNext ==
  \/ \E v \in Values : FifoPut(v)
  \/ FifoBegin
  \/ FifoEnd

FifoSpec == FifoInit /\ [][FifoNext]_fifoVars
=============================================================================
