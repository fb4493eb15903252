---------------------------- MODULE ArchiveUpkeep ----------------------------
(* What maintenance decides about archive files and what it writes:          *)
(* rotation (archive_rotation.cpp), compaction (compaction.cpp), audit and    *)
(* repair (archive_audit.cpp, archive_repair_plan.cpp, repair.cpp).  A file   *)
(* system is a function from the paths that exist to their files.            *)
EXTENDS ArchiveFile

CONSTANT CorruptTime        \* what a damaged capture time reads as

-----------------------------------------------------------------------------
(* Rotation.  A projection names a record by its file and offset.            *)
EmptyShard == [records |-> <<>>, payload |-> 0, bytes |-> HeaderBytes, first |-> 0, last |-> 0, reason |-> "none"]

SpanAfter(shard, r) == Max({shard.last, r.time}) - Min({shard.first, r.time})

BoundaryReason(policy, shard, r) ==
    LET Limited(limit, excess) == limit # 0 /\ excess
    IN  IF shard.records = <<>> THEN "none"
        ELSE IF Limited(policy.max_records, Len(shard.records) >= policy.max_records) THEN "max_records"
        ELSE IF Limited(policy.max_payload, shard.payload + r.payload > policy.max_payload) THEN "max_payload_bytes"
        ELSE IF Limited(policy.max_span, SpanAfter(shard, r) > policy.max_span) THEN "max_span_ns"
        ELSE IF Limited(policy.max_bytes, shard.bytes + EstimatedBytes(r) > policy.max_bytes) THEN "max_file_bytes"
        ELSE IF Limited(policy.idle_gap, r.time - shard.last > policy.idle_gap) THEN "idle_gap"
        ELSE "none"

\* The shard as if its first and last time were those of the record just appended.
AppendToShardLastOnly(shard, p) ==
    [shard EXCEPT !.records = Append(@, p), !.payload = @ + p.record.payload,
        !.bytes = @ + EstimatedBytes(p.record), !.first = p.record.time, !.last = p.record.time]

AppendToShard(shard, p) ==
    [shard EXCEPT !.records = Append(@, p), !.payload = @ + p.record.payload,
        !.bytes = @ + EstimatedBytes(p.record),
        !.first = IF shard.records = <<>> THEN p.record.time ELSE Min({@, p.record.time}),
        !.last = IF shard.records = <<>> THEN p.record.time ELSE Max({@, p.record.time})]

\* "input" tells apart what is projected twice when an input is named twice.
Projections(input, path, file) ==
    {[input |-> input, path |-> path, offset |-> OffsetOf(file, i), record |-> file.slots[i].record] :
        i \in 1..IntactSlots(file)}

\* All records of the inputs, a sequence of paths, by time, path and offset.
CollectInputs(files, inputs, pathOrder) ==
    LET found == UNION {Projections(n, inputs[n], files[inputs[n]]) : n \in DOMAIN inputs}
        NotAfter(a, b) == \/ a.record.time < b.record.time
                          \/ /\ a.record.time = b.record.time
                             /\ \/ PathBefore(pathOrder, a.path, b.path)
                                \/ a.path = b.path /\ a.offset < b.offset
                                \/ a.path = b.path /\ a.offset = b.offset /\ a.input <= b.input
    IN  [k \in 1..Cardinality(found) |->
            CHOOSE p \in found : Cardinality({q \in found : NotAfter(q, p)}) = k]

\* One record of the planning loop: close the current shard first when a limit says so.
PlaceRecord(policy, plan, p) ==
    LET reason == BoundaryReason(policy, plan.current, p.record)
    IN  IF reason = "none"
        THEN [plan EXCEPT !.current = AppendToShard(@, p)]
        ELSE [closed |-> Append(plan.closed, [plan.current EXCEPT !.reason = reason]),
              current |-> AppendToShard([EmptyShard EXCEPT !.reason = reason], p)]

\* The shards of a rotation, each with the reason it was closed for.
PlanRotation(policy, projections) ==
    LET plan == FoldLeft(LAMBDA acc, p : PlaceRecord(policy, acc, p),
                         [closed |-> <<>>, current |-> EmptyShard], projections)
    IN  IF plan.current.records # <<>> \/ policy.keep_empty
        THEN Append(plan.closed, [plan.current EXCEPT !.reason = "none"])
        ELSE plan.closed

\* execute_archive_rotation, one shard: each record is read again where the plan saw it; an
\* exception ends the copying and the rotation.
CopyRecord(files, copy, p) ==
    CASE copy.failed -> copy
      [] ~copy.failed /\ (p.path \notin DOMAIN files \/ ReadThrows(files[p.path], p.offset)) ->
            [copy EXCEPT !.failed = TRUE]
      [] OTHER ->
            IF RecordAt(files[p.path], p.offset) = {}
            THEN [copy EXCEPT !.skipped = @ + 1]
            ELSE [copy EXCEPT !.records = Append(@, CHOOSE r \in RecordAt(files[p.path], p.offset) : TRUE)]

CopyShard(files, shard) ==
    FoldLeft(LAMBDA copy, p : CopyRecord(files, copy, p),
             [records |-> <<>>, skipped |-> 0, failed |-> FALSE], shard.records)

-----------------------------------------------------------------------------
(* Compaction. *)
LatestSequence(records, device) == Max({0} \cup {r.sequence : r \in {x \in Range(records) : x.device = device}})

\* The latest sequence only of the records that come before: a later one supersedes nothing.
SupersededSoFar(records, i) ==
    records[i].sequence < LatestSequence(SubSeq(records, 1, i), records[i].device)

Superseded(records, i) == records[i].sequence < LatestSequence(records, records[i].device)

\* Why a record is dropped, "none" when it is copied.
CompactionDrop(records, i, options) ==
    CASE ~MatchesQuery(records[i], options.query) -> "query"
      [] MatchesQuery(records[i], options.query) /\ options.drop_empty /\ records[i].payload = 0 -> "empty"
      [] OTHER -> IF options.keep_latest /\ Superseded(records, i) THEN "superseded" ELSE "none"

CompactArchive(file, options) ==
    LET records == Records(file)
    IN  WriteArchive(Kept(records, {i \in DOMAIN records : CompactionDrop(records, i, options) = "none"}))

-----------------------------------------------------------------------------
(* Audit. *)
Finding(severity, check) == [severity |-> severity, check |-> check]

RecordFindings(records, options) ==
    LET Backwards(i) == \E j \in 1..i - 1 : /\ records[j].device = records[i].device
                                            /\ records[j].sequence > records[i].sequence
    IN  When(options.time_order /\ \E i \in 2..Len(records) : records[i].time < records[i - 1].time,
             Finding("error", "ordered_timestamps"))
        \cup When(options.sequence_order /\ \E i \in DOMAIN records : Backwards(i),
                  Finding("warning", "monotonic_device_sequences"))
        \cup When(\E r \in Range(records) : options.min_payload # 0 /\ r.payload < options.min_payload,
                  Finding("warning", "payload_bounds"))
        \cup When(\E r \in Range(records) : options.max_payload # 0 /\ r.payload > options.max_payload,
                  Finding("error", "payload_bounds"))

HeaderFindings(header, seen) ==
    When(header.record_count # seen.record_count, Finding("error", "header_matches_records"))
        \cup When(/\ seen.record_count # 0
                  /\ header.first_time # seen.first_time \/ header.last_time # seen.last_time,
                  Finding("warning", "header_matches_records"))

SparseFindings(manifest, options) ==
    When(\E d \in manifest.devices :
            \/ options.sparse_records # 0 /\ d.summary.record_count < options.sparse_records
            \/ options.sparse_payload # 0 /\ d.payload < options.sparse_payload,
         Finding("info", "sparse_devices"))

\* Damage is met while scanning: the findings so far stay, the ones on the whole file are missing.
AuditArchive(file, options) ==
    LET records == Records(file)
        manifest == BuildManifest(file)
    IN  [readable |-> Readable(file), records_scanned |-> Len(records),
         findings |-> RecordFindings(records, options) \cup
            (IF Readable(file)
             THEN HeaderFindings(file.header, manifest.summary)
                    \cup When(manifest.warnings # {}, Finding("warning", "manifest_consistency"))
                    \cup SparseFindings(manifest, options)
             ELSE {Finding("error", "readable")})]

HasCheck(audit, check) == \E f \in audit.findings : f.check = check

HasError(audit) == \E f \in audit.findings : f.severity = "error"

AuditOk(audit) == audit.readable /\ ~HasError(audit)

DefaultAudit == [time_order |-> TRUE, sequence_order |-> FALSE, min_payload |-> 0, max_payload |-> 0,
                 sparse_records |-> 0, sparse_payload |-> 0]

-----------------------------------------------------------------------------
(* Repair.  The scanner finds every frame that decodes, wherever it is; the   *)
(* time in front of it is used when the length next to it fits the frame.     *)
InferredTime(slot) ==
    CASE slot.damage = "length" -> 0
      [] slot.damage = "time" -> CorruptTime
      [] OTHER -> slot.record.time

Salvageable(slot) == slot.damage \notin {"frame", "torn"}

\* The scan as if it ended at the first frame that does not decode.
SalvageUntilDamage(file) ==
    Kept(file.slots, {i \in DOMAIN file.slots : \A j \in 1..i : Salvageable(file.slots[j])})

Salvage(file) == Kept(file.slots, {i \in DOMAIN file.slots : Salvageable(file.slots[i])})

\* write_repaired_archive: the packet's own time stamp where no time is known.
RepairedRecord(slot) ==
    [slot.record EXCEPT !.time = IF InferredTime(slot) = 0 THEN slot.record.stamp ELSE InferredTime(slot)]

RepairAction(audit, file, options) ==
    LET readable == audit.records_scanned
        salvaged == IF options.allow_salvage /\ (~audit.readable \/ HasError(audit)) THEN Len(Salvage(file)) ELSE 0
        rewrite == \/ options.rewrite_header /\ HasCheck(audit, "header_matches_records")
                   \/ options.rewrite_unordered /\ HasCheck(audit, "ordered_timestamps")
    IN  CASE AuditOk(audit) -> "no_op"
          [] ~AuditOk(audit) /\ salvaged > readable -> "rebuild_from_salvage"
          [] ~AuditOk(audit) /\ salvaged <= readable /\ rewrite /\ audit.readable -> "rewrite_from_readable_records"
          [] OTHER -> IF options.quarantine THEN "quarantine_file" ELSE "no_op"

PlanRepair(file, options) == RepairAction(AuditArchive(file, DefaultAudit), file, options)

RepairedFile(file, action) ==
    CASE action = "rebuild_from_salvage" ->
            WriteArchive([i \in DOMAIN Salvage(file) |-> RepairedRecord(Salvage(file)[i])])
      [] action = "rewrite_from_readable_records" -> WriteArchive(Records(file))
      [] action = "quarantine_file" -> file
=============================================================================
