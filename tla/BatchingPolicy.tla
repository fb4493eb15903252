--------------------------- MODULE BatchingPolicy ---------------------------
(***************************************************************************)
(* aethon::runtime::BatchingPolicy (src/runtime/batching_policy.cpp):      *)
(* packets are collected in one open batch that closes by count, bytes,    *)
(* age, deadline or priority, and before a packet that must not join it.   *)
(*                                                                         *)
(* Abstracted: an envelope is its device, sequence number, payload size,   *)
(* arrival, deadline (0: none), priority, the priority inferred from the   *)
(* packet, and whether the packet is control-like.  open_ without value    *)
(* and a batch without packets are the same state.  The statistics and the *)
(* last arrival are only rendered.                                         *)
(***************************************************************************)
EXTENDS Integers, Sequences

CONSTANTS
    MaxBatchPackets, MaxBatchBytes, MaxAge, DeadlineSlack,  \* BatchingPolicyConfig
    FlushThreshold, IsolateControl, PreserveOrder           \* BatchingPolicyConfig

VARIABLE open       \* open_

Low == 0
Normal == 1

-----------------------------------------------------------------------------
EmptyBatch == [packets |-> << >>, first |-> 0, deadline |-> 0, bytes |-> 0, priority |-> Low,
               reason |-> "none"]

Aged(b, now) == b.first # 0 /\ now >= b.first /\ now - b.first >= MaxAge

Pressing(b, now) == b.deadline # 0 /\ now + DeadlineSlack >= b.deadline

\* mutant: time is not looked at
InferCloseReasonAgeless(b, now) ==
    IF b.packets = << >> THEN "none"
    ELSE IF Len(b.packets) >= MaxBatchPackets THEN "max_packets"
    ELSE IF b.bytes >= MaxBatchBytes THEN "max_payload_bytes"
    ELSE "none"

\* the first reason that applies
InferCloseReason(b, now) ==
    IF b.packets = << >> THEN "none"
    ELSE IF Len(b.packets) >= MaxBatchPackets THEN "max_packets"
    ELSE IF b.bytes >= MaxBatchBytes THEN "max_payload_bytes"
    ELSE IF Aged(b, now) THEN "max_age"
    ELSE IF Pressing(b, now) THEN "deadline"
    ELSE IF b.priority >= FlushThreshold THEN "priority_flush"
    ELSE "none"

ConflictsWithDeviceOrder(b, e) ==
    \E i \in DOMAIN b.packets :
        b.packets[i].device = e.device /\ b.packets[i].sequence > e.sequence

\* evaluate(): why e may not join the batch, "none" if it may
Refusal(b, e, now) ==
    IF b.packets = << >> THEN "none"
    ELSE IF Len(b.packets) >= MaxBatchPackets THEN "max_packets"
    ELSE IF b.bytes + e.size > MaxBatchBytes THEN "max_payload_bytes"
    ELSE IF Aged(b, now) THEN "max_age"
    ELSE IF Pressing(b, now) THEN "deadline"
    ELSE IF PreserveOrder /\ ConflictsWithDeviceOrder(b, e) THEN "manual_flush"
    ELSE IF IsolateControl /\ b.packets[1].control # e.control THEN "priority_flush"
    ELSE "none"

-----------------------------------------------------------------------------
(* The result of a call: the open batch and the batches returned as ready. *)
(* A call works on such a pair s.                                          *)

Closed(s, reason) ==
    IF reason = "none" THEN s
    ELSE [open |-> EmptyBatch, ready |-> Append(s.ready, [s.open EXCEPT !.reason = reason])]

FlushDue(s, now) == Closed(s, InferCloseReason(s.open, now))

MakeRoom(s, e, now) == Closed(s, Refusal(s.open, e, now))

IsolateFrom(s, e) ==
    Closed(s, IF IsolateControl /\ e.control /\ s.open.packets # << >>
              THEN "priority_flush" ELSE "none")

EarlierDeadline(b, e) ==
    IF e.deadline = 0 THEN b.deadline
    ELSE IF b.deadline = 0 \/ e.deadline < b.deadline THEN e.deadline ELSE b.deadline

\* append() with update_window()
Added(s, e) ==
    LET b == s.open
    IN  [s EXCEPT !.open = [packets  |-> Append(b.packets, e),
                            first    |-> IF b.first = 0 THEN e.arrival ELSE b.first,
                            deadline |-> EarlierDeadline(b, e),
                            bytes    |-> b.bytes + e.size,
                            priority |-> IF e.priority > b.priority THEN e.priority ELSE b.priority,
                            reason   |-> "none"]]

WithPriority(e) == IF e.priority = Normal THEN [e EXCEPT !.priority = e.inferred] ELSE e

NothingClosed == [open |-> open, ready |-> << >>]

-----------------------------------------------------------------------------
\* mutant: the packet is added before the batch it may not join is closed
OfferJoining(envelope, now) ==
    LET e == WithPriority(envelope)
    IN  FlushDue(Added(FlushDue(NothingClosed, now), e), now)

\* offer(); offer_many() repeats it.  The last test of offer(), the priority
\* alone, is part of InferCloseReason.
Offer(envelope, now) ==
    LET e    == WithPriority(envelope)
        kept == MakeRoom(FlushDue(NothingClosed, now), e, now)
    IN  FlushDue(Added(IsolateFrom(kept, e), e), now)

\* flush()
FlushBatch == Closed(NothingClosed, IF open.packets # << >> THEN "manual_flush" ELSE "none")

\* tick()
TickBatch(now) == FlushDue(NothingClosed, now)

\* reset() gives the open batch up
ResetBatch == [open |-> EmptyBatch, ready |-> << >>]

InitBatch == open = EmptyBatch
=============================================================================
