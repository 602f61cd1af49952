----------------------------- MODULE ApsRetrans -----------------------------
(***************************************************************************)
(* Acknowledged transmission in the APS layer (aps/aps_main.c): the table  *)
(* of frames waiting for an APS ACK, the confirms of the NWK layer, the    *)
(* ACKs and the timer that retransmits.  One node sends to one peer; the   *)
(* NWK layer and the air between them lose, repeat, delay and reorder      *)
(* frames.  Addresses, endpoints and clusters identify the peer and are    *)
(* left out: an entry matches an ACK by its APS counter, and its addr is   *)
(* -1 exactly while it is free.  A frame that waits at the peer for a      *)
(* buffer for its ACK (ack_q) is still in the air here.                    *)
(***************************************************************************)
EXTENDS Naturals, Sequences, FiniteSets, FiniteSetsExt

CONSTANTS Bufs,         \* buffers the node sends from
          Sizes,        \* values of ZB_N_APS_RETRANS_ENTRIES
          MaxRetries,   \* ZB_N_APS_MAX_FRAME_ENTRIES
          MaxRequests,  \* bound: requests made, below the range of the counter
          RepeatedAcks, \* a second ACK may overtake the NWK confirm
          NoBuf         \* buffer reference -1

ASSUME SizeAssumption ==
  /\ Sizes \subseteq Nat \ {0} /\ Sizes # {} /\ MaxRetries \in Nat \ {0}
  /\ MaxRequests \in Nat \ {0} /\ RepeatedAcks \in BOOLEAN
ASSUME NoBufAssumption == NoBuf \notin Bufs /\ IsFiniteSet(Bufs)

Counters == 0 .. MaxRequests - 1

\* A data frame with and without ACK request, and an APS command.
Kinds == {"data", "noack", "cmd"}
Frames == [type : Kinds, ctr : Counters]
Acks == [type : {"ack"}, of : Kinds, ctr : Counters]

VARIABLES
  hash,               \* retrans.hash, the entries waiting for an ACK
  alarms,             \* pending zb_aps_ack_timer_cb alarms of each entry
  aps_counter,        \* counter of the next frame
  buf,                \* what each buffer holds: frame, status
  free, nwk, up,      \* how often a buffer is free, with NWK, in data_confirm
  air,                \* frames between the nodes
  passed,             \* counters of the frames the peer passed up
  handed              \* history: NLDE requests of each frame

tableVars == <<hash, alarms>>
sendVars == <<tableVars, aps_counter, buf, free, nwk, up, handed>>
vars == <<sendVars, air, passed>>

Entries == DOMAIN hash
NEntries == Cardinality(Entries)

FreeEntry == [state |-> "FREE", buf |-> NoBuf, ctr |-> 0, retries |-> 0]

\* zb_aps_init on zeroed globals; the counter starts anywhere, here at 0.
Init ==
  /\ \E n \in Sizes : hash = [i \in 0 .. n - 1 |-> FreeEntry]
  /\ alarms = [i \in Entries |-> 0]
  /\ aps_counter = 0
  /\ buf = [b \in Bufs |-> [frame |-> [type |-> "noack", ctr |-> 0], status |-> "OK"]]
  /\ free = [b \in Bufs |-> 1]
  /\ nwk = [b \in Bufs |-> 0]
  /\ up = [b \in Bufs |-> 0]
  /\ air = {}
  /\ handed = [c \in Counters |-> 0]
  /\ passed = {}

-----------------------------------------------------------------------------
\* First entry that satisfies P, or NEntries: the search loops of aps_main.c.
FirstEntry(P(_)) == Min({i \in Entries : P(hash[i])} \cup {NEntries})

FreeSlot == FirstEntry(LAMBDA e : e.state = "FREE")

\* Fill entry i for buffer b.
Filled(i, b) == [hash EXCEPT ![i] = [state |-> "NOT_CONFIRMED", buf |-> b,
                                     ctr |-> aps_counter, retries |-> MaxRetries]]

\* The caller takes a free buffer and APS writes the header into it.
Compose(b, kind, status) ==
  /\ aps_counter < MaxRequests
  /\ free[b] > 0
  /\ free' = [free EXCEPT ![b] = @ - 1]
  /\ buf' = [buf EXCEPT ![b] = [frame |-> [type |-> kind, ctr |-> aps_counter],
                               status |-> status]]
  /\ aps_counter' = aps_counter + 1

PassToNwk(b, c) ==
  /\ nwk' = [nwk EXCEPT ![b] = @ + 1]
  /\ handed' = [handed EXCEPT ![c] = @ + 1]

\* zb_apsde_data_request without ACK request.
DataRequestNoAck(b) ==
  /\ Compose(b, "noack", buf[b].status)
  /\ PassToNwk(b, aps_counter)
  /\ UNCHANGED <<tableVars, up, air, passed>>

\* Mutation: an entry is saved without its alarm.
DataRequestNoAlarm(b) ==
  /\ Compose(b, "data", buf[b].status)
  /\ FreeSlot < NEntries - 1
  /\ hash' = Filled(FreeSlot, b)
  /\ PassToNwk(b, aps_counter)
  /\ UNCHANGED <<alarms, up, air, passed>>

\* zb_apsde_data_request with ACK request: save_ack_data finds a slot, and
\* answers with ref 0 when there is none.
DataRequest(b) ==
  /\ Compose(b, "data", buf[b].status)
  /\ FreeSlot # NEntries - 1
  /\ IF FreeSlot < NEntries
       THEN /\ hash' = Filled(FreeSlot, b)
            /\ alarms' = [alarms EXCEPT ![FreeSlot] = @ + 1]
       ELSE /\ hash' = hash
            /\ alarms' = [alarms EXCEPT ![0] = @ + 1]
  /\ PassToNwk(b, aps_counter)
  /\ UNCHANGED <<up, air, passed>>

\* The same when the slot found is the last one: the table is reported full
\* after the slot was filled.
DataRequestTableFull(b) ==
  /\ Compose(b, "data", "TABLE_FULL")
  /\ FreeSlot = NEntries - 1
  /\ hash' = Filled(FreeSlot, b)
  /\ up' = [up EXCEPT ![b] = @ + 1]
  /\ UNCHANGED <<alarms, nwk, handed, air, passed>>

\* zb_aps_send_command to a device: with a full table it is sent untracked.
SendCommand(b) ==
  /\ Compose(b, "cmd", buf[b].status)
  /\ \/ /\ FreeSlot < NEntries
        /\ hash' = Filled(FreeSlot, b)
        /\ alarms' = [alarms EXCEPT ![FreeSlot] = @ + 1]
     \/ /\ FreeSlot = NEntries
        /\ UNCHANGED tableVars
  /\ PassToNwk(b, aps_counter)
  /\ UNCHANGED <<up, air, passed>>

-----------------------------------------------------------------------------
\* NWK and MAC: while they hold a buffer they may send its frame, any number
\* of times.
Transmit(b) ==
  /\ nwk[b] > 0
  /\ air' = air \cup {buf[b].frame}
  /\ UNCHANGED <<sendVars, passed>>

\* A counter that stops at zero.
Lowered(n) == IF n = 0 THEN 0 ELSE n - 1

\* Mutation: the alarm of a finished entry stays.
DoneNoCancel(i, kind, status, pending) ==
  LET b == hash[i].buf IN
  /\ hash' = [hash EXCEPT ![i].state = "FREE", ![i].buf = NoBuf]
  /\ alarms' = pending
  /\ IF kind = "cmd" THEN free' = [free EXCEPT ![b] = @ + 1] /\ up' = up
                     ELSE up' = [up EXCEPT ![b] = @ + 1] /\ free' = free
  /\ buf' = [buf EXCEPT ![b].status = status]

\* done_with_this_ack, where pending are the alarms before it cancels one.
DoneWithThisAck(i, kind, status, pending) ==
  LET b == hash[i].buf IN
  /\ hash' = [hash EXCEPT ![i].state = "FREE", ![i].buf = NoBuf]
  /\ alarms' = [pending EXCEPT ![i] = Lowered(@)]
  /\ IF kind = "cmd" THEN free' = [free EXCEPT ![b] = @ + 1] /\ up' = up
                     ELSE up' = [up EXCEPT ![b] = @ + 1] /\ free' = free
  /\ buf' = [buf EXCEPT ![b].status = status]

EntryOf(b) == FirstEntry(LAMBDA e : e.buf = b)

\* zb_nlde_data_confirm of a frame sent without ACK request.
NldeConfirmNoAck(b) ==
  /\ nwk[b] > 0 /\ buf[b].frame.type = "noack"
  /\ nwk' = [nwk EXCEPT ![b] = @ - 1]
  /\ up' = [up EXCEPT ![b] = @ + 1]
  /\ UNCHANGED <<tableVars, aps_counter, buf, free, handed, air, passed>>

\* zb_nlde_data_confirm of a frame to be acknowledged.  With a confirmed entry
\* the assertion at its line 543 stops the node: no step.
NldeConfirm(b) ==
  /\ nwk[b] > 0 /\ buf[b].frame.type # "noack"
  /\ nwk' = [nwk EXCEPT ![b] = @ - 1]
  /\ \/ /\ EntryOf(b) < NEntries
        /\ hash[EntryOf(b)].state = "ACKED"
        /\ DoneWithThisAck(EntryOf(b), buf[b].frame.type, "OK", alarms)
     \/ /\ EntryOf(b) < NEntries
        /\ hash[EntryOf(b)].state = "NOT_CONFIRMED"
        /\ hash' = [hash EXCEPT ![EntryOf(b)].state = "CONFIRMED"]
        /\ UNCHANGED <<alarms, buf, free, up>>
     \/ /\ EntryOf(b) = NEntries
        /\ free' = [free EXCEPT ![b] = @ + 1]
        /\ UNCHANGED <<tableVars, buf, up>>
  /\ UNCHANGED <<aps_counter, handed, air, passed>>

\* Mutation: any ACK from the peer finishes the first entry.
AckedAnything(a) == FirstEntry(LAMBDA e : e.state # "FREE")

\* Entry that an ACK answers.
AckedEntry(a) == FirstEntry(LAMBDA e : e.state # "FREE" /\ e.ctr = a.ctr)

\* aps_ack_frame_handle.
AckFrameHandle(a) ==
  LET i == AckedEntry(a) IN
  /\ air' = air \ {a}
  /\ \/ /\ i = NEntries
        /\ UNCHANGED <<tableVars, buf, free, up>>
     \/ /\ i < NEntries /\ hash[i].state = "NOT_CONFIRMED"
        /\ hash' = [hash EXCEPT ![i].state = "ACKED"]
        /\ UNCHANGED <<alarms, buf, free, up>>
     \/ /\ i < NEntries /\ hash[i].state # "NOT_CONFIRMED"
        /\ hash[i].state = "ACKED" => RepeatedAcks
        /\ DoneWithThisAck(i, a.of, "OK", alarms)
  /\ UNCHANGED <<aps_counter, nwk, handed, passed>>

\* aps_retries after the alarm of entry i.
TimerRetries(i) == Lowered(hash[i].retries)

\* zb_aps_ack_timer_cb: give up, retransmit, or wait for the NWK confirm.
AckTimerCb(i) ==
  LET b == hash[i].buf
      rest == [alarms EXCEPT ![i] = @ - 1]
      gaveUp == TimerRetries(i) = 0 /\ hash[i].state = "CONFIRMED"
  IN
  /\ i \in Entries /\ alarms[i] > 0
  /\ \/ /\ gaveUp
        /\ DoneWithThisAck(i, buf[b].frame.type, "NO_ACK", rest)
        /\ UNCHANGED <<nwk, handed>>
     \/ /\ ~gaveUp /\ hash[i].state = "CONFIRMED"
        /\ hash' = [hash EXCEPT ![i].state = "NOT_CONFIRMED", ![i].retries = TimerRetries(i)]
        /\ PassToNwk(b, hash[i].ctr)
        /\ UNCHANGED <<alarms, buf, free, up>>
     \/ /\ hash[i].state # "CONFIRMED"
        /\ hash' = [hash EXCEPT ![i].retries = TimerRetries(i)]
        /\ UNCHANGED <<alarms, nwk, handed, buf, free, up>>
  /\ UNCHANGED <<aps_counter, air, passed>>

\* zb_apsde_data_confirm: the upper layer takes the status and the buffer.
DataConfirm(b) ==
  /\ up[b] > 0
  /\ up' = [up EXCEPT ![b] = @ - 1]
  /\ free' = [free EXCEPT ![b] = @ + 1]
  /\ UNCHANGED <<tableVars, aps_counter, buf, nwk, handed, air, passed>>

-----------------------------------------------------------------------------
Ack(f) == [type |-> "ack", of |-> f.type, ctr |-> f.ctr]

\* The peer: zb_nlde_data_indication, which acknowledges a frame that asks for
\* it unless ack_q is full, and zb_nlde_data_indication_continue, which passes
\* a frame up unless it is a duplicate of one passed up before.
PeerIndication(f) ==
  /\ passed' = passed \cup {f.ctr}
  /\ \/ air' = air \ {f}
     \/ f.type # "noack" /\ air' = (air \ {f}) \cup {Ack(f)}
  /\ UNCHANGED sendVars

-----------------------------------------------------------------------------
Request(b) ==
  \/ DataRequestNoAck(b) \/ DataRequest(b) \/ DataRequestTableFull(b) \/ SendCommand(b)

Next ==
  \/ \E b \in Bufs : Request(b) \/ Transmit(b) \/ NldeConfirmNoAck(b)
                     \/ NldeConfirm(b) \/ DataConfirm(b)
  \/ \E i \in Entries : AckTimerCb(i)
  \/ \E f \in air \cap Frames : PeerIndication(f)
  \/ \E a \in air \cap Acks : AckFrameHandle(a)

Spec == Init /\ [][Next]_vars

\* The scheduler calls what is scheduled and what is due, and NWK confirms
\* every request; nothing is assumed of the air or of the peer.
Fairness ==
  /\ \A b \in Bufs : /\ WF_vars(NldeConfirm(b)) /\ WF_vars(NldeConfirmNoAck(b))
                     /\ WF_vars(DataConfirm(b))
  /\ \A i \in 0 .. Max(Sizes) - 1 : WF_vars(AckTimerCb(i))

LiveSpec == Spec /\ Fairness

-----------------------------------------------------------------------------
Statuses == {"OK", "NO_ACK", "TABLE_FULL"}
Upto(n) == 0 .. n

TypeOK ==
  /\ hash \in [Entries -> [state : {"FREE", "NOT_CONFIRMED", "ACKED", "CONFIRMED"},
                           buf : Bufs \cup {NoBuf}, ctr : Counters,
                           retries : Upto(MaxRetries)]]
  /\ alarms \in [Entries -> Nat]
  /\ aps_counter \in Upto(MaxRequests)
  /\ buf \in [Bufs -> [frame : Frames, status : Statuses]]
  /\ free \in [Bufs -> Nat] /\ nwk \in [Bufs -> Nat] /\ up \in [Bufs -> Nat]
  /\ air \subseteq (Frames \cup Acks)
  /\ passed \subseteq Counters
  /\ handed \in [Counters -> Nat]

Waiting(b) == {i \in Entries : hash[i].state # "FREE" /\ hash[i].buf = b}
Confirmed(b) == {i \in Waiting(b) : hash[i].state = "CONFIRMED"}

\* With more entries than buffers the table is never full.  A table that is
\* full is mishandled (DataRequest, DataRequestTableFull): alarms and entries do
\* not belong together any more then, and an entry may wait for a buffer that
\* went back to its sender.
Roomy == NEntries > Cardinality(Bufs)

\* Every buffer is in one place: free, with NWK, kept by a confirmed entry for
\* a retransmission, or on its way up in zb_apsde_data_confirm (no leak, no
\* second free, no send of a buffer somebody else has), full table or not.  Of a
\* table that is never full an entry waits for a frame that is with NWK or that
\* it keeps itself.
OneHolder ==
  \A b \in Bufs :
    /\ free[b] + nwk[b] + up[b] + Cardinality(Confirmed(b)) = 1
    /\ Roomy => /\ Cardinality(Waiting(b)) <= 1
                /\ Waiting(b) # {} => free[b] = 0 /\ up[b] = 0

\* An entry has one running alarm exactly while it waits: zb_aps_ack_timer_cb
\* is never lost for a waiting frame, and never called for a free entry.
AlarmPerEntry ==
  Roomy => \A i \in Entries : alarms[i] = IF hash[i].state = "FREE" THEN 0 ELSE 1

\* A confirm with status RET_OK of an acknowledged frame is only given when the
\* peer passed that frame up, full table or not.
OkMeansDelivered ==
  \A b \in Bufs :
    up[b] > 0 /\ buf[b].frame.type = "data" /\ buf[b].status = "OK"
      => buf[b].frame.ctr \in passed

\* A frame is handed to NWK at most ZB_N_APS_MAX_FRAME_ENTRIES times, however
\* confirms, ACKs and alarms interleave.
SendsBounded == \A c \in Counters : handed[c] <= MaxRetries

\* A buffer that waits for its ACK comes back to its sender, acknowledged or
\* given up, whatever the air and the peer do.
RequestConfirmed == \A b \in Bufs : (Roomy /\ free[b] = 0) ~> (free[b] > 0)

\* The structure of the table: types, one holder per buffer, one alarm per
\* waiting entry, and the bound on retransmissions.
TableSound == TypeOK /\ OneHolder /\ AlarmPerEntry /\ SendsBounded
=============================================================================
