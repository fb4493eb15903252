------------------------------- MODULE Uplink -------------------------------
(***************************************************************************)
(* BackpressureController and BatchingPolicy around one upload path.       *)
(*                                                                         *)
(* One thread asks decide() for every packet at hand, offers the admitted  *)
(* ones to the batcher and uploads the batches it gets back; it reports    *)
(* the end of an upload to note_batch_completed(), and from time to time   *)
(* the load to observe_queue() or observe_sample().  A packet that is      *)
(* delayed or rejected goes back to its sender; of downsampled packets the *)
(* thread keeps the ones it likes.  Uploads end in any order.              *)
(***************************************************************************)
EXTENDS BackpressureController, BatchingPolicy, FiniteSetsExt, Functions

CONSTANTS
    Packets,            \* what devices send: an envelope without arrival, with its time to live
    MaxTime,            \* bound on the clock
    MaxSubmitTime,      \* bound on the time of the last packet
    MaxOffered,         \* bound on the packets offered to the batcher
    MaxHeldBack         \* bound on the packets not admitted

ASSUME UplinkAssumption ==
    /\ MaxTime \in Nat /\ MaxSubmitTime \in Nat /\ MaxOffered \in Nat
    /\ MaxHeldBack \in Nat
    /\ MinDelay \in Nat /\ PressureMaxDelay \in Nat /\ MinDelay <= PressureMaxDelay
    /\ MaxDownsample \in Nat
    /\ QueueCapacity \in Nat /\ PayloadCapacity \in Nat
    /\ MaxBatchPackets \in Nat /\ MaxBatchBytes \in Nat /\ MaxAge \in Nat
    /\ IsolateControl \in BOOLEAN /\ PreserveOrder \in BOOLEAN /\ ProtectControl \in BOOLEAN
    /\ \A p \in Packets : /\ p.size \in Nat /\ p.priority \in 0..3 /\ p.ttl \in Nat
                          /\ p.sequence \in Nat /\ p.control \in BOOLEAN

VARIABLES
    clock,
    uploads,    \* the batches under way
    counts      \* history: packets offered, packets that left in a batch and held back

vars == <<pressureVars, open, clock, uploads, counts>>

-----------------------------------------------------------------------------
PacketsOf(batches) == SumFunction([b \in batches |-> Len(b.packets)])

BytesOf(batches) == SumFunction([b \in batches |-> b.bytes])

NoCounts == [offered |-> 0, left |-> 0, held |-> 0]

Outstanding == uploads \cup {open}

\* a call of the batcher ends with result s; what it returned is uploaded
Batched(s, offered) ==
    /\ open' = s.open
    /\ uploads' = uploads \cup Range(s.ready)
    /\ counts' = [counts EXCEPT !.offered = @ + offered, !.left = @ + PacketsOf(Range(s.ready))]

EnvelopeOf(p) ==
    [device |-> p.device, sequence |-> p.sequence, size |-> p.size, control |-> p.control,
     priority |-> p.priority, inferred |-> p.inferred, arrival |-> clock,
     deadline |-> IF p.ttl = 0 THEN 0 ELSE clock + p.ttl, number |-> counts.offered + 1]

ActionFor(p) == MakeDecision(p.control, StateOf(p.device), clock).action

Admit(p) ==
    /\ clock <= MaxSubmitTime /\ counts.offered < MaxOffered
    /\ ActionFor(p) \in {"accept", "downsample"}
    /\ Decide(p.device, p.control, clock)
    /\ Batched(Offer(EnvelopeOf(p), clock), 1)
    /\ UNCHANGED clock

HoldBack(p) ==
    /\ clock <= MaxSubmitTime
    /\ ActionFor(p) \in {"downsample", "delay", "reject"}
    /\ counts.held < MaxHeldBack
    /\ counts' = [counts EXCEPT !.held = @ + 1]
    /\ Decide(p.device, p.control, clock)
    /\ UNCHANGED <<open, clock, uploads>>

Report(stalled) ==
    /\ ObserveSample([packets |-> PacketsOf(Outstanding), bytes |-> BytesOf(Outstanding),
                      inflight |-> Cardinality(uploads), stalled |-> stalled])
    /\ UNCHANGED <<open, clock, uploads, counts>>

ReportQueue ==
    /\ ObserveQueue(PacketsOf(Outstanding), BytesOf(Outstanding))
    /\ UNCHANGED <<open, clock, uploads, counts>>

UploadDone(b) ==
    /\ uploads' = uploads \ {b}
    /\ NoteBatchCompleted(Len(b.packets), b.bytes)
    /\ UNCHANGED <<open, clock, counts>>

Poll == Batched(TickBatch(clock), 0) /\ UNCHANGED <<pressureVars, clock>>

Flush == Batched(FlushBatch, 0) /\ UNCHANGED <<pressureVars, clock>>

Forget(d) == ResetDevice(d) /\ UNCHANGED <<open, clock, uploads, counts>>

\* both objects start anew; uploads under way are given up
Restart ==
    /\ ResetController /\ open' = ResetBatch.open
    /\ uploads' = {} /\ counts' = NoCounts
    /\ UNCHANGED clock

Tick ==
    /\ clock < MaxTime
    /\ clock' = clock + 1
    /\ UNCHANGED <<pressureVars, open, uploads, counts>>

-----------------------------------------------------------------------------
Init ==
    /\ InitController /\ InitBatch
    /\ clock = 1 /\ uploads = {} /\ counts = NoCounts

Next ==
    \/ \E p \in Packets : Admit(p)
    \/ \E p \in Packets : HoldBack(p)
    \/ \E stalled \in {0, 1} : Report(stalled)
    \/ ReportQueue
    \/ \E b \in uploads : UploadDone(b)
    \/ Poll
    \/ Flush
    \/ \E d \in DOMAIN pressure : Forget(d)
    \/ Restart
    \/ Tick

\* The thread polls the batcher again and again, and time passes.
Fairness == WF_vars(Poll) /\ WF_vars(Tick)

Spec == Init /\ [][Next]_vars /\ Fairness

-----------------------------------------------------------------------------
(* Properties.                                                             *)

InDeviceOrder(s) ==
    \A i, j \in DOMAIN s : (i < j /\ s[i].device = s[j].device) => s[i].sequence <= s[j].sequence

\* All the rules for a batch at once: the limits on packets and bytes (one packet
\* may exceed them alone), exact byte count and earliest deadline, control packets
\* alone, and for each device no packet behind one with a higher sequence number.
KeepsRules(b) ==
    /\ Len(b.packets) >= 1
    /\ Len(b.packets) > 1 => Len(b.packets) <= MaxBatchPackets /\ b.bytes <= MaxBatchBytes
    /\ b.bytes = SumFunction([i \in DOMAIN b.packets |-> b.packets[i].size])
    /\ IsolateControl =>
          ((\E i \in DOMAIN b.packets : b.packets[i].control) => Len(b.packets) = 1)
    /\ PreserveOrder => InDeviceOrder(b.packets)
    /\ LET dated == {b.packets[i].deadline : i \in DOMAIN b.packets} \ {0}
       IN  b.deadline = IF dated = {} THEN 0 ELSE Min(dated)

\* Every batch handed out keeps the rules, whichever of them closed it.
BatchesSound == \A b \in uploads : KeepsRules(b)

Consecutive(s, from) == \A i \in DOMAIN s : s[i].number = from + i

\* No packet is lost, doubled or overtaken between offer() and the batches,
\* although one call may close two: the batches hold the packets in the order
\* they were offered, and the open batch exactly those that have not left.
PacketsInOrder ==
    /\ Len(open.packets) = counts.offered - counts.left
    /\ Consecutive(open.packets, counts.left)
    /\ \A b \in uploads : Consecutive(b.packets, b.packets[1].number - 1)
    /\ \A b, c \in uploads : b # c =>
          {b.packets[i].number : i \in DOMAIN b.packets}
              \cap {c.packets[i].number : i \in DOMAIN c.packets} = {}

\* A packet does not stay in the open batch: when the thread keeps polling, the
\* age limit empties it in the end even if nothing else arrives.
BatchesLeave == (open.packets # << >>) ~> (open.packets = << >>)

\* The controller never sees pressure that is not there: between two reports its
\* estimate, from which completed batches are subtracted one by one, stays
\* below what is really outstanding.
NoPhantomPressure ==
    /\ sample.packets <= PacketsOf(Outstanding)
    /\ sample.bytes <= BytesOf(Outstanding)

\* No device has to wait longer than max_delay_ns from now, however often it
\* asked inside its window and however the pressure changed: windows neither
\* add up nor outlive the configured limit.
WaitBounded ==
    \A d \in DOMAIN pressure : pressure[d].next_admit <= clock + PressureMaxDelay

\* Batches keep every rule at once and lose, double or reorder no packet.
BatchesExact == BatchesSound /\ PacketsInOrder

\* The controller neither imagines pressure nor makes a device wait beyond its
\* limit.
PressureSound == NoPhantomPressure /\ WaitBounded
=============================================================================
