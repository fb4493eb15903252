----------------------------- MODULE PacketViews -----------------------------
(* What the consumers of packets make of them: PacketPipeline                  *)
(* (src/runtime/pipeline.cpp), LinkMonitor (src/stream/link_monitor.cpp),      *)
(* ObservationWindow (src/telemetry/window.cpp) and FleetRegistry              *)
(* (src/runtime/fleet_registry.cpp).  Notes and messages are left out; of an   *)
(* observation only its time is kept, its statistics are floating point.       *)
EXTENDS Integers, Sequences, FiniteSets, SequencesExt, FiniteSetsExt

(* PacketPipeline.  A step gets the packet by reference and may change it.     *)
PayloadLimitStep(limit) == [kind |-> "limit", limit |-> limit, devices |-> {}]

DeviceAllowlistStep(devices) == [kind |-> "allow", limit |-> 0, devices |-> devices]

\* Steps of a caller: one that cuts the payload, one that is satisfied and stops.
TrimStep(limit) == [kind |-> "trim", limit |-> limit, devices |-> {}]

StopStep == [kind |-> "stop", limit |-> 0, devices |-> {}]

StepResult(step, packet) ==
    IF \/ step.kind = "limit" /\ packet.payload > step.limit
       \/ step.kind = "allow" /\ packet.device \notin step.devices
    THEN "drop"
    ELSE IF step.kind = "stop" THEN "stop" ELSE "continue"

StepEffect(step, packet) ==
    IF step.kind = "trim" THEN [packet EXCEPT !.payload = Min({@, step.limit})] ELSE packet

RunStep(state, step) ==
    IF state.result # "continue" THEN state
    ELSE [packet |-> StepEffect(step, state.packet), result |-> StepResult(step, state.packet)]

PipelineRun(steps, packet) == FoldLeft(RunStep, [packet |-> packet, result |-> "continue"], steps)

PipelineAccepts(steps, packet) == PipelineRun(steps, packet).result # "drop"

\* A packet passes unless some step drops it before any step stops, and the payload a step sees
\* is the smallest any earlier one left.
PipelineExact(steps, packets) ==
    \A p \in packets :
        LET payloadAt(i) == Min({p.payload} \cup {steps[j].limit : j \in {k \in 1..(i - 1) : steps[k].kind = "trim"}})
            drops(i) == StepResult(steps[i], [p EXCEPT !.payload = payloadAt(i)]) = "drop"
        IN  PipelineAccepts(steps, p) <=>
            \A i \in DOMAIN steps : drops(i) => \E j \in 1..(i - 1) : steps[j].kind = "stop"

-----------------------------------------------------------------------------
(* LinkMonitor.  Samples are kept in the order of the calls and sorted by      *)
(* arrival for the report.                                                     *)
LinkSample(packet, arrival) == [device |-> packet.device, arrival |-> arrival, sequence |-> packet.sequence]

DeltaFinding(device, delta, jitterWarning, idleWarning) ==
    IF delta > idleWarning THEN <<[device |-> device, code |-> "link.idle_gap"]>>
    ELSE IF delta > jitterWarning THEN <<[device |-> device, code |-> "link.jitter"]>>
    ELSE <<>>

\* mutant: a packet that comes twice is no regression
RegressionFindingStrict(device, earlier, later) ==
    IF later.sequence < earlier.sequence THEN <<[device |-> device, code |-> "link.sequence_regression"]>> ELSE <<>>

RegressionFinding(device, earlier, later) ==
    IF later.sequence <= earlier.sequence THEN <<[device |-> device, code |-> "link.sequence_regression"]>> ELSE <<>>

DeviceFindings(samples, device, jitterWarning, idleWarning) ==
    LET mine == SortSeq(SelectSeq(samples, LAMBDA s : s.device = device), LAMBDA a, b : a.arrival < b.arrival)
        findingsAt(i) == DeltaFinding(device, mine[i].arrival - mine[i - 1].arrival, jitterWarning, idleWarning)
                         \o RegressionFinding(device, mine[i - 1], mine[i])
    IN  FlattenSeq([i \in 1..(Len(mine) - 1) |-> findingsAt(i + 1)])

\* The devices in the order of the map.
LinkReport(samples, jitterWarning, idleWarning) ==
    LET devices == SetToSortSeq({s.device : s \in Range(samples)}, <)
    IN  [samples |-> Len(samples),
         findings |-> FlattenSeq([i \in DOMAIN devices |-> DeviceFindings(samples, devices[i], jitterWarning, idleWarning)])]

\* Two packets of one device are compared exactly when none lies between them in time, whatever
\* order they were observed in; and when no two share an instant the report does not depend on
\* that order at all.
LinkReportExact(samples, jitterWarning, idleWarning) ==
    LET report == LinkReport(samples, jitterWarning, idleWarning)
        distinct == \A i, j \in DOMAIN samples :
            i # j => samples[i].device # samples[j].device \/ samples[i].arrival # samples[j].arrival
        nextTo(i, j) ==
            /\ samples[i].device = samples[j].device /\ samples[i].arrival < samples[j].arrival
            /\ ~\E k \in DOMAIN samples :
                 /\ samples[k].device = samples[i].device
                 /\ samples[k].arrival > samples[i].arrival /\ samples[k].arrival < samples[j].arrival
        pairs == {p \in (DOMAIN samples) \X (DOMAIN samples) : nextTo(p[1], p[2])}
        found(device, code) == Len(SelectSeq(report.findings, LAMBDA f : f.device = device /\ f.code = code))
    IN  /\ report.samples = Len(samples)
        /\ distinct =>
            /\ report = LinkReport(Reverse(samples), jitterWarning, idleWarning)
            /\ \A d \in {s.device : s \in Range(samples)} :
                LET mine == {p \in pairs : samples[p[1]].device = d}
                    late(limit) == {p \in mine : samples[p[2]].arrival - samples[p[1]].arrival > limit}
                IN  /\ found(d, "link.idle_gap") = Cardinality(late(idleWarning))
                    /\ found(d, "link.jitter") = Cardinality(late(jitterWarning) \ late(idleWarning))
                    /\ found(d, "link.sequence_regression")
                        = Cardinality({p \in mine : samples[p[2]].sequence <= samples[p[1]].sequence})

-----------------------------------------------------------------------------
(* ObservationWindow: a deque of times.                                        *)
ExpireBefore(entries, time) ==
    LET fresh == {i \in DOMAIN entries : entries[i] >= time}
    IN  IF fresh = {} THEN <<>> ELSE SubSeq(entries, Min(fresh), Len(entries))

EnforceLimits(entries, maxObservations) ==
    IF Len(entries) > maxObservations
    THEN SubSeq(entries, Len(entries) - maxObservations + 1, Len(entries)) ELSE entries

WindowAdd(entries, time, width, maxObservations) ==
    LET appended == Append(entries, time)
        fresh == IF width # 0 /\ time >= width THEN ExpireBefore(appended, time - width) ELSE appended
    IN  EnforceLimits(fresh, maxObservations)

WindowSnapshot(entries) ==
    IF entries = <<>> THEN [start |-> 0, end |-> 0, observations |-> 0]
    ELSE [start |-> Head(entries), end |-> Last(entries), observations |-> Len(entries)]

\* The window is the end of what was added.  What left it was crowded out, too old for an
\* observation that came later, or older than a caller's cut.  What opens it is not too old for
\* the last one, unless one in front of it was not either and left all the same.  A cut is
\* [after, time]: expire_before(time) once that many had been added.
WindowExact(entries, added, cuts, width, maxObservations) ==
    /\ IsSuffix(entries, added)
    /\ Len(entries) <= maxObservations
    /\ \A i \in 1..(Len(added) - Len(entries)) :
        \/ Len(added) - i >= maxObservations
        \/ width # 0 /\ \E j \in (i + 1)..Len(added) : added[i] + width < added[j]
        \/ \E c \in cuts : i <= c.after /\ added[i] < c.time
    /\ entries # <<>> /\ width # 0 =>
        \E i \in 1..(Len(added) - Len(entries) + 1) : added[i] + width >= Last(added)
    /\ WindowSnapshot(entries).end = IF entries = <<>> THEN 0 ELSE Last(added)

-----------------------------------------------------------------------------
(* FleetRegistry: what is known of each device.  A registry is a function      *)
(* from the devices that have a record; its operations yield the new function. *)
(* A record of device 0 looks like one that was just created, in every call.   *)
(* Serial numbers and the owner's team and contact are left out, capabilities  *)
(* are one value.                                                              *)

Lifecycles == {"unknown", "provisioned", "active", "quarantined", "retired"}

\* What records_[device] creates.
BlankRecord ==
    [device |-> 0, lifecycle |-> "unknown", site |-> "", capabilities |-> "none",
     first_seen |-> 0, last_seen |-> 0, packets |-> 0, labels |-> <<>>]

RecordAt(registry, device) == IF device \in DOMAIN registry THEN registry[device] ELSE BlankRecord

WithRecord(registry, device, record) ==
    [d \in DOMAIN registry \cup {device} |-> IF d = device THEN record ELSE registry[d]]

Upserted(registry, record) == WithRecord(registry, record.device, record)

Erased(registry, device) == [d \in DOMAIN registry \ {device} |-> registry[d]]

UpdateSeenFields(record, now) ==
    [record EXCEPT !.first_seen = IF @ = 0 THEN now ELSE @, !.last_seen = now, !.packets = @ + 1]

MarkSeen(registry, packet, now) ==
    LET known == RecordAt(registry, packet.device)
        named == IF known.device = 0 THEN [known EXCEPT !.device = packet.device, !.lifecycle = "active"] ELSE known
        capable == IF packet.capabilities = {} THEN named
                   ELSE [named EXCEPT !.capabilities = CHOOSE c \in packet.capabilities : TRUE]
    IN  WithRecord(registry, packet.device, UpdateSeenFields(capable, now))

\* mutant: the record created for a device does not get its id
SetLifecycleUnnamed(registry, device, lifecycle) ==
    WithRecord(registry, device, [RecordAt(registry, device) EXCEPT !.lifecycle = lifecycle])

SetLifecycle(registry, device, lifecycle) ==
    WithRecord(registry, device, [RecordAt(registry, device) EXCEPT !.device = device, !.lifecycle = lifecycle])

AddLabel(registry, device, label) ==
    WithRecord(registry, device,
         [RecordAt(registry, device) EXCEPT !.device = device, !.labels = IF Contains(@, label) THEN @ ELSE Append(@, label)])

ByLifecycle(registry, lifecycle) == {d \in DOMAIN registry : registry[d].lifecycle = lifecycle}

BySite(registry, site) == {d \in DOMAIN registry : registry[d].site = site}

Summary(registry) ==
    [total |-> Cardinality(DOMAIN registry),
     active |-> Cardinality(ByLifecycle(registry, "active")),
     quarantined |-> Cardinality(ByLifecycle(registry, "quarantined")),
     retired |-> Cardinality(ByLifecycle(registry, "retired")),
     packets |-> SumFunctionOnSet([d \in DOMAIN registry |-> registry[d].packets], DOMAIN registry)]

-----------------------------------------------------------------------------
(* The same, read off the list of calls.  Each call is                         *)
(* [op, device, arg, time]: arg is the record, the capabilities, the lifecycle *)
(* or the label.                                                               *)
CallsOn(calls, device) == {i \in DOMAIN calls : calls[i].device = device}

\* The call that last replaced or erased the record, 0 if none did.
LastReplaced(calls, device) ==
    Max({0} \cup {i \in CallsOn(calls, device) : calls[i].op \in {"upsert", "erase"}})

WasUpserted(calls, device) ==
    LastReplaced(calls, device) # 0 /\ calls[LastReplaced(calls, device)].op = "upsert"

\* The calls since then, and what the record started from.
Since(calls, device) == {i \in CallsOn(calls, device) : i > LastReplaced(calls, device)}

StartRecord(calls, device) ==
    IF WasUpserted(calls, device) THEN calls[LastReplaced(calls, device)].arg ELSE BlankRecord

HasRecord(calls, device) == Since(calls, device) # {} \/ WasUpserted(calls, device)

Positions(calls, device, op) == {i \in Since(calls, device) : calls[i].op = op}

\* A device that was first heard of through a packet is active until it is told otherwise; one
\* that was labelled or upserted first keeps the lifecycle it was given; device 0 is active after
\* every packet.
Activations(calls, device) ==
    {i \in Positions(calls, device, "seen") :
        device = 0 \/ (~WasUpserted(calls, device) /\ \A j \in Since(calls, device) : i <= j)}

ExpectedLifecycle(calls, device) ==
    LET sets == Positions(calls, device, "lifecycle")
        last == Max({0} \cup sets \cup Activations(calls, device))
    IN  IF last = 0 THEN StartRecord(calls, device).lifecycle
        ELSE IF last \in sets THEN calls[last].arg ELSE "active"

RecordExact(calls, device, record) ==
    LET start == StartRecord(calls, device)
        seen == Positions(calls, device, "seen")
        stamped == {i \in seen : calls[i].time # 0}
        capable == {i \in seen : calls[i].arg # {}}
    IN  /\ record.lifecycle = ExpectedLifecycle(calls, device)
        /\ record.packets = start.packets + Cardinality(seen)
        /\ record.first_seen = IF start.first_seen # 0 \/ stamped = {} THEN start.first_seen
                               ELSE calls[Min(stamped)].time
        /\ record.last_seen = IF seen = {} THEN start.last_seen ELSE calls[Max(seen)].time
        /\ record.capabilities = IF capable = {} THEN start.capabilities
                                 ELSE CHOOSE c \in calls[Max(capable)].arg : TRUE
        /\ record.site = start.site
        /\ ToSet(record.labels) = ToSet(start.labels) \cup {calls[i].arg : i \in Positions(calls, device, "label")}
        /\ IsInjective(start.labels) => IsInjective(record.labels)

RegistryExact(registry, calls) ==
    /\ DOMAIN registry = {d \in {calls[i].device : i \in DOMAIN calls} : HasRecord(calls, d)}
    /\ \A d \in DOMAIN registry : RecordExact(calls, d, registry[d])
    /\ Summary(registry).total >= Summary(registry).active + Summary(registry).quarantined + Summary(registry).retired
    /\ UNION {BySite(registry, registry[d].site) : d \in DOMAIN registry} = DOMAIN registry
=============================================================================
