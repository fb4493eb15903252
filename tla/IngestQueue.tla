----------------------------- MODULE IngestQueue -----------------------------
(***************************************************************************)
(* aethon::runtime::IngestQueue (src/runtime/ingest_queue.cpp): a bounded  *)
(* queue of received packets with an overflow policy, a drain order, byte  *)
(* and per-device accounting, and event callbacks.                         *)
(*                                                                         *)
(* push() publishes "ingest packet accepted" after the packet is queued    *)
(* and before the accepted and high-water counters are updated; the        *)
(* handler may call back into the queue, also push() again, and may throw. *)
(* The model stops push() at that point (`pushing` calls are there, one    *)
(* within the other) and lets the handler do any operation before the rest *)
(* of the innermost push() runs, or an exception ends it.  pop() publishes *)
(* when it has done everything, so a handler that throws then costs the    *)
(* caller the packet but the queue nothing.  drain(n) and                  *)
(* drain_payload_budget(n) are loops of pop().                             *)
(*                                                                         *)
(* Abstracted: a packet is its device, kind, route priority, sequence and  *)
(* payload size; sources, messages and the returned admission are left     *)
(* out.                                                                    *)
(***************************************************************************)
EXTENDS Integers, Sequences, FiniteSetsExt, Functions

CONSTANTS
    Senders,                \* the devices packets come from
    Envelopes,              \* the IngestEnvelope values callers push; route -1 stands for none
    MaxPackets, MaxPayloadBytes, MaxPacketPayloadBytes,     \* IngestQueueConfig
    RejectEmptyPayload, PublishEvents,                      \* IngestQueueConfig
    MaxAccepted,            \* bound on packets that enter the queue
    MaxPushDepth,           \* bound on push() calls within one another
    MaxRejected             \* bound on rejected packets

Policies == {"reject_new", "drop_oldest", "drop_lowest_priority", "replace_same_device"}

DrainModes == {"fifo", "highest_priority_first", "earliest_deadline_first"}

IngestEnvelope ==
    [device : Senders, kind : STRING, route : Int, sequence : Nat, size : Nat, arrival : Nat,
     deadline : Nat, priority : 0..3]

ASSUME QueueAssumption ==
    /\ MaxPackets \in Nat /\ MaxPayloadBytes \in Nat /\ MaxPacketPayloadBytes \in Nat
    /\ MaxAccepted \in Nat /\ MaxRejected \in Nat /\ MaxPushDepth \in Nat
    /\ RejectEmptyPayload \in BOOLEAN /\ PublishEvents \in BOOLEAN
    /\ Envelopes \subseteq IngestEnvelope

VARIABLES
    config,     \* overflow_policy and drain_mode, fixed at construction
    queue,      \* queue_
    bytes,      \* stats_.queued_payload_bytes
    devices,    \* devices_ : device -> [packets, bytes, newest, last, priority]
    qstats,     \* the other counters of stats_
    closed,     \* closed_
    pushing,    \* push() calls that are in the accepted callback
    emptied,    \* history: packets dropped by clear()
    uncounted   \* history: push() calls that a handler's exception ended

queueVars == <<config, queue, bytes, devices, qstats, closed, pushing, emptied, uncounted>>

-----------------------------------------------------------------------------
ZeroQueueStats == [accepted |-> 0, rejected |-> 0, evicted |-> 0, drained |-> 0,
              high_packets |-> 0, high_bytes |-> 0]

SumOfSizes(positions) == SumFunctionOnSet([i \in DOMAIN queue |-> queue[i].size], positions)

PositionsOf(d) == {i \in DOMAIN queue : queue[i].device = d}

\* std::min_element and std::max_element: the first position nothing beats
First(positions, Beats(_, _)) ==
    CHOOSE i \in positions :
        \A j \in positions : ~Beats(j, i) /\ (j < i => Beats(i, j))

InferPriority(e) ==
    CASE e.route >= 200 -> 3
      [] e.route < 200 /\ e.route >= 128 -> 2
      [] e.route < 128 /\ e.kind = "control" -> 3
      [] e.route < 128 /\ e.kind \in {"heartbeat", "capabilities"} -> 2
      [] OTHER -> 1

WithPriority(e) == IF e.priority = 1 THEN [e EXCEPT !.priority = InferPriority(e)] ELSE e

WouldExceedCapacity(e) == Len(queue) >= MaxPackets \/ bytes + e.size > MaxPayloadBytes

Earlier(i, j) == queue[i].arrival < queue[j].arrival

LowerPriority(i, j) ==
    IF queue[i].priority # queue[j].priority THEN queue[i].priority < queue[j].priority
                                             ELSE Earlier(i, j)

HigherPriority(i, j) ==
    IF queue[i].priority # queue[j].priority THEN queue[i].priority > queue[j].priority
                                             ELSE Earlier(i, j)

DeadlineLess(i, j) ==
    queue[i].deadline # 0 /\ (queue[j].deadline = 0 \/ queue[i].deadline < queue[j].deadline)

SoonerDeadline(i, j) == DeadlineLess(i, j) \/ (~DeadlineLess(j, i) /\ Earlier(i, j))

\* the position of the packet select_overflow_victim() gives up, if any
Victims(e) ==
    LET mine == PositionsOf(e.device)
    IN  CASE queue = << >> \/ config.policy = "reject_new" -> {}
          [] queue # << >> /\ config.policy = "drop_oldest" -> {1}
          [] queue # << >> /\ config.policy = "drop_lowest_priority" ->
                {First(DOMAIN queue, LowerPriority)}
          [] queue # << >> /\ config.policy = "replace_same_device" ->
                IF mine = {} THEN {} ELSE {First(mine, Earlier)}

SelectNext ==
    CASE config.drain = "fifo" -> 1
      [] config.drain = "highest_priority_first" -> First(DOMAIN queue, HigherPriority)
      [] config.drain = "earliest_deadline_first" -> First(DOMAIN queue, SoonerDeadline)

-----------------------------------------------------------------------------
(* Per-device state.  remove_at() subtracts the packet while it is still   *)
(* in queue_, so that a rebuild counts it again.                           *)

Greater(a, b) == IF a > b THEN a ELSE b

Put(f, d, r) == [e \in DOMAIN f \cup {d} |-> IF e = d THEN r ELSE f[e]]

Dropping(f, d) == [e \in DOMAIN f \ {d} |-> f[e]]

Monus(a, b) == IF a >= b THEN a - b ELSE 0

AddDeviceState(f, e) ==
    LET s == IF e.device \in DOMAIN f THEN f[e.device]
             ELSE [packets |-> 0, bytes |-> 0, newest |-> 0, last |-> 0, priority |-> 0]
    IN  Put(f, e.device, [packets  |-> s.packets + 1,
                          bytes    |-> s.bytes + e.size,
                          newest   |-> Greater(s.newest, e.sequence),
                          last     |-> Greater(s.last, e.arrival),
                          priority |-> Greater(s.priority, e.priority)])

Rebuilt(d) ==
    LET mine == PositionsOf(d)
        most(Field(_)) == Max({0} \cup {Field(queue[i]) : i \in mine})
    IN  [packets  |-> Cardinality(mine),
         bytes    |-> SumOfSizes(mine),
         newest   |-> most(LAMBDA e : e.sequence),
         last     |-> most(LAMBDA e : e.arrival),
         priority |-> most(LAMBDA e : e.priority)]

\* mutant: the device entry goes with the first of its packets
SubtractDeviceEntry(e) == Dropping(devices, e.device)

SubtractDeviceState(e) ==
    LET s == devices[e.device]
        left == [s EXCEPT !.packets = @ - 1, !.bytes = Monus(@, e.size)]
    IN  IF e.device \notin DOMAIN devices THEN devices
        ELSE IF left.packets = 0 THEN Dropping(devices, e.device)
        ELSE IF s.priority = e.priority \/ s.newest = e.sequence \/ s.last = e.arrival
             THEN Put(devices, e.device, Rebuilt(e.device))
             ELSE Put(devices, e.device, left)

-----------------------------------------------------------------------------
(* push(), up to the accepted callback.                                    *)

\* Calls come from outside or, when events are published, from a handler.
MayCall == pushing = 0 \/ PublishEvents

MayPush ==
    /\ MayCall /\ pushing < MaxPushDepth
    /\ qstats.accepted + pushing + uncounted < MaxAccepted

Refused(e) ==
    \/ closed
    \/ RejectEmptyPayload /\ e.size = 0
    \/ e.size > MaxPacketPayloadBytes
    \/ WouldExceedCapacity(WithPriority(e)) /\ Victims(WithPriority(e)) = {}

PushRefused(e) ==
    /\ MayCall /\ Refused(e)
    /\ qstats.rejected < MaxRejected
    /\ qstats' = [qstats EXCEPT !.rejected = @ + 1]
    /\ UNCHANGED <<config, queue, bytes, devices, closed, pushing, emptied, uncounted>>

PushRoom(e) ==
    LET x == WithPriority(e)
    IN  /\ MayPush /\ ~Refused(e)
        /\ ~WouldExceedCapacity(x)
        /\ bytes' = bytes + x.size
        /\ devices' = AddDeviceState(devices, x)
        /\ queue' = Append(queue, x)
        /\ pushing' = pushing + 1
        /\ UNCHANGED <<config, qstats, closed, emptied, uncounted>>

Removed(i) == SubSeq(queue, 1, i - 1) \o SubSeq(queue, i + 1, Len(queue))

PushEvict(e) ==
    LET x == WithPriority(e)
    IN  /\ MayPush /\ ~Refused(e)
        /\ WouldExceedCapacity(x)
        /\ \E v \in Victims(x) :
              /\ bytes' = Monus(bytes, queue[v].size) + x.size
              /\ devices' = AddDeviceState(SubtractDeviceState(queue[v]), x)
              /\ queue' = Append(Removed(v), x)
        /\ qstats' = [qstats EXCEPT !.evicted = @ + 1]
        /\ pushing' = pushing + 1
        /\ UNCHANGED <<config, closed, emptied, uncounted>>

\* the rest of push(), after the handlers returned
PushEnd ==
    /\ pushing > 0
    /\ pushing' = pushing - 1
    /\ qstats' = [qstats EXCEPT !.accepted = @ + 1,
                              !.high_packets = Greater(@, Len(queue)),
                              !.high_bytes = Greater(@, bytes)]
    /\ UNCHANGED <<config, queue, bytes, devices, closed, emptied, uncounted>>

\* A handler's exception passes publish(), insert() and push(): the packet stays queued and
\* is never counted as accepted.  What called this push() may catch it.
PushThrows ==
    /\ pushing > 0 /\ PublishEvents
    /\ pushing' = pushing - 1
    /\ uncounted' = uncounted + 1
    /\ UNCHANGED <<config, queue, bytes, devices, qstats, closed, emptied>>

Pop ==
    /\ MayCall /\ queue # << >>
    /\ LET e == queue[SelectNext]
       IN  /\ bytes' = Monus(bytes, e.size)
           /\ devices' = SubtractDeviceState(e)
           /\ queue' = Removed(SelectNext)
    /\ qstats' = [qstats EXCEPT !.drained = @ + 1]
    /\ UNCHANGED <<config, closed, pushing, emptied, uncounted>>

ClearQueue ==
    /\ MayCall
    /\ queue' = << >> /\ devices' = << >> /\ bytes' = 0
    /\ emptied' = emptied + Len(queue)
    /\ UNCHANGED <<config, qstats, closed, pushing, uncounted>>

Close ==
    /\ MayCall /\ closed' = TRUE
    /\ UNCHANGED <<config, queue, bytes, devices, qstats, pushing, emptied, uncounted>>

Reopen ==
    /\ MayCall /\ closed' = FALSE
    /\ UNCHANGED <<config, queue, bytes, devices, qstats, pushing, emptied, uncounted>>

-----------------------------------------------------------------------------
InitQueue ==
    /\ config \in [policy : Policies, drain : DrainModes]
    /\ queue = << >> /\ bytes = 0 /\ devices = << >>
    /\ qstats = ZeroQueueStats
    /\ closed = FALSE /\ pushing = 0 /\ emptied = 0 /\ uncounted = 0

NextQueue ==
    \/ \E e \in Envelopes : PushRefused(e)
    \/ \E e \in Envelopes : PushRoom(e)
    \/ \E e \in Envelopes : PushEvict(e)
    \/ PushEnd
    \/ PushThrows
    \/ Pop
    \/ ClearQueue
    \/ Close
    \/ Reopen

QueueSpec == InitQueue /\ [][NextQueue]_queueVars

-----------------------------------------------------------------------------
(* Properties.                                                             *)

\* queued_payload_bytes is the sum of the payloads in the queue after any mix of
\* pushes, evictions, pops and clears, also inside the accepted callback: the
\* clamping subtractions never hide a drift.
BytesExact == bytes = SumOfSizes(DOMAIN queue)

\* The queue never holds more than max_packets packets, and with reject_new never
\* more than max_payload_bytes bytes.  (The evicting policies remove one packet
\* for each one they add, so they do not keep the byte budget.)
WithinCapacity ==
    /\ Len(queue) <= MaxPackets
    /\ config.policy = "reject_new" => bytes <= MaxPayloadBytes

\* Every packet that entered the queue is in it or was counted once as evicted
\* or drained, or was dropped by clear().  Those that entered are the accepted
\* ones, one for each push() whose callback runs, and for good one for each
\* push() whose handler threw: no other packet is missing from stats_.accepted.
PacketConservation ==
    qstats.accepted + pushing + uncounted
        = Len(queue) + qstats.evicted + qstats.drained + emptied

\* The per-device count never falls below the number of packets the device has
\* queued and exceeds it by at most one: the rebuild that counts the packet
\* being removed does not accumulate, and no device with packets disappears
\* from devices().
DeviceCountWithinOne ==
    \A d \in Senders :
        LET actual == Cardinality(PositionsOf(d))
            count  == IF d \in DOMAIN devices THEN devices[d].packets ELSE 0
        IN  actual <= count /\ count <= actual + 1

\* The statistics describe the queue after any mix of pushes, evictions, pops and
\* clears, also inside the accepted callback and after one that threw: packets,
\* bytes and devices.
QueueAccounts == BytesExact /\ WithinCapacity /\ PacketConservation /\ DeviceCountWithinOne
=============================================================================
