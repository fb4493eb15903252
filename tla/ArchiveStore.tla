----------------------------- MODULE ArchiveStore -----------------------------
(* A directory of archives under maintenance: files are written, rotated shard  *)
(* by shard, compacted, damaged and repaired, while a catalog and a collection  *)
(* built earlier keep describing them.  Each operation of the storage library   *)
(* is an action; the process may crash while a rotation writes a shard.        *)
EXTENDS ArchiveUpkeep, ArchiveCatalog, ArchiveCollection

CONSTANTS
    PathOrder,          \* every path that may occur, in lexicographic order
    ShardPath,          \* rotation_output_path: shard index -> path
    RepairedPath, QuarantinePath,   \* output_for: path -> path
    Inputs,             \* the sequences of paths that are rotated or collected
    Contents,           \* path -> the record sequences its archive may hold at first
    Policies,           \* rotation policies
    CompactionTargets, CompactionOptions, RepairOptions,
    Queries,            \* what is asked of catalog and collection
    Damages,            \* kinds of damage that happen
    RangeBounds,        \* bounds of the time ranges added
    MaxSteps            \* bound on the number of operations

IsRecord(r) ==
    /\ r = Record(r.time, r.device, r.sequence, r.kind, r.payload, r.stamp)
    /\ r.time \in Nat /\ r.stamp \in Nat

\* Times are std::uint64_t; inputs are lists, and what an archive holds at first is a
\* list of records.
StoreAssumption ==
    /\ TimeModulus \in Nat \ {0}
    /\ RangeBounds \subseteq 0..(TimeModulus - 1)
    /\ CorruptTime \in Nat
    /\ \A inputs \in Inputs : inputs \in Seq(Range(inputs))
    /\ \A p \in DOMAIN Contents : \A records \in Contents[p] :
        records \in Seq(Range(records)) /\ \A r \in Range(records) : IsRecord(r)

ASSUME StoreAssumption

VARIABLES
    files,          \* the file system: path -> file
    job,            \* the rotation being executed
    report,         \* what the last completed operation reported
    catalog,        \* ArchiveCatalog::entries_
    collection,     \* an ArchiveCollection built earlier
    ranges,         \* TimeRangeSet::ranges_
    added,          \* the time ranges added to it
    steps           \* operations so far

vars == <<files, job, report, catalog, collection, ranges, added, steps>>

NoLimits == [max_records |-> 0, max_payload |-> 0, max_span |-> 0, max_bytes |-> 0, idle_gap |-> 0, keep_empty |-> FALSE]

\* "seen" are the records planned for, "quiet" whether no one else touched the files since.
Idle == [inputs |-> <<>>, shards |-> <<>>, seen |-> <<>>, policy |-> NoLimits, overwrite |-> FALSE,
         next |-> 1, skipped |-> 0, quiet |-> TRUE]

NoReport == [operation |-> "none"]

NoCollection == [paths |-> <<>>, manifests |-> <<>>, refs |-> <<>>]

Replaced(path, file) ==
    [p \in DOMAIN files \cup {path} |-> IF p = path THEN file ELSE files[p]]

Init ==
    /\ files \in {[p \in DOMAIN Contents |-> WriteArchive(choice[p])] :
                    choice \in {c \in [DOMAIN Contents -> UNION {Contents[p] : p \in DOMAIN Contents}] :
                                    \A p \in DOMAIN Contents : c[p] \in Contents[p]}}
    /\ job = Idle
    /\ report = NoReport
    /\ catalog = <<>>
    /\ collection = NoCollection
    /\ ranges = <<>>
    /\ added = {}
    /\ steps = 0

Busy == job.shards # <<>>

Step == steps < MaxSteps /\ steps' = steps + 1

Disturb == job' = [job EXCEPT !.quiet = ~Busy]

views == <<catalog, collection>>

-----------------------------------------------------------------------------
(* plan_archive_rotation: an unreadable input is an exception.                *)
StartRotation(inputs, policy, overwrite) ==
    /\ Step
    /\ ~Busy
    /\ \A p \in Range(inputs) : p \in DOMAIN files /\ Readable(files[p])
    /\ LET projections == CollectInputs(files, inputs, PathOrder)
       IN  /\ PlanRotation(policy, projections) # <<>>
           /\ job' = [Idle EXCEPT !.inputs = inputs, !.policy = policy, !.overwrite = overwrite,
                        !.shards = PlanRotation(policy, projections),
                        !.seen = [i \in DOMAIN projections |-> projections[i].record]]
    /\ report' = NoReport
    /\ UNCHANGED <<files, views, ranges, added>>

\* ensure_output_available removes the output's old file, even when it is one of the inputs.
OutputFree == job.overwrite \/ ShardPath[job.next] \notin DOMAIN files

WithoutOutput == [p \in DOMAIN files \ {ShardPath[job.next]} |-> files[p]]

RotationReport(outcome, skipped) ==
    [operation |-> "rotation", outcome |-> outcome, skipped |-> skipped, inputs |-> job.inputs,
     shards |-> job.shards, seen |-> job.seen, policy |-> job.policy, quiet |-> job.quiet]

\* An existing output is an exception before anything of the shard is written.
RefuseOutput ==
    /\ Busy
    /\ ~OutputFree
    /\ report' = RotationReport("failed", job.skipped)
    /\ job' = Idle
    /\ UNCHANGED <<files, views, ranges, added, steps>>

\* One shard; a failed copy closes the writer on its way out and ends the rotation.
WriteShard ==
    /\ Busy
    /\ OutputFree
    /\ LET copy == CopyShard(WithoutOutput, job.shards[job.next])
           finished == job.next = Len(job.shards)
       IN  /\ files' = Replaced(ShardPath[job.next], WriteArchive(copy.records))
           /\ IF copy.failed \/ finished
              THEN /\ report' = RotationReport(IF copy.failed THEN "failed" ELSE "done", job.skipped + copy.skipped)
                   /\ job' = Idle
              ELSE /\ job' = [job EXCEPT !.next = @ + 1, !.skipped = @ + copy.skipped]
                   /\ UNCHANGED report
    /\ UNCHANGED <<views, ranges, added, steps>>

\* The process dies while it writes a shard: a prefix of its records is there, the last one torn.
CrashInShard ==
    /\ Busy
    /\ OutputFree
    /\ LET copy == CopyShard(WithoutOutput, job.shards[job.next])
       IN  \E n \in 0..Len(copy.records), d \in {"none", "torn"} :
                files' = Replaced(ShardPath[job.next], AbandonedArchive(SubSeq(copy.records, 1, n), d))
    /\ report' = NoReport
    /\ job' = Idle
    /\ UNCHANGED <<views, ranges, added, steps>>

-----------------------------------------------------------------------------
\* compact_archive; a damaged source is an exception, before the output exists when the latest
\* sequences are collected first, and after the readable records are copied otherwise.
Compact(source, target, options) ==
    /\ Step
    /\ source \in DOMAIN files
    /\ source # target
    /\ options.keep_latest => Readable(files[source])
    /\ files[source].opens
    /\ files' = Replaced(target, CompactArchive(files[source], options))
    /\ report' = [operation |-> "compaction", source |-> files[source], target |-> files'[target], options |-> options]
    /\ Disturb
    /\ UNCHANGED <<views, ranges, added>>

\* plan_archive_repair and execute_archive_repair_plan; an existing output is an exception unless
\* it may be overwritten.
Repair(path, options, overwrite) ==
    \E action \in {PlanRepair(files[path], options)} :
        LET target == IF action = "quarantine_file" THEN QuarantinePath[path] ELSE RepairedPath[path]
        IN
        /\ Step
        /\ action # "no_op" => overwrite \/ target \notin DOMAIN files
        /\ files' = CASE action = "no_op" -> files
                      [] action = "quarantine_file" ->
                            [p \in (DOMAIN files \ {path}) \cup {target} |->
                                IF p = target THEN files[path] ELSE files[p]]
                      [] OTHER -> Replaced(target, RepairedFile(files[path], action))
        /\ report' = [operation |-> "repair", action |-> action, options |-> options, source |-> files[path],
                      output |-> IF action = "no_op" THEN files[path] ELSE files'[target]]
        /\ Disturb
        /\ UNCHANGED <<views, ranges, added>>

\* The disk damages one slot, or the start of the file.
DamageSlot(path, i, damage) ==
    /\ Step
    /\ i \in DOMAIN files[path].slots
    /\ damage = "torn" => i = Len(files[path].slots)
    /\ files' = [files EXCEPT ![path].slots[i].damage = damage]
    /\ report' = NoReport
    /\ Disturb
    /\ UNCHANGED <<views, ranges, added>>

DamageStart(path) ==
    /\ Step
    /\ files[path].opens
    /\ files' = [files EXCEPT ![path].opens = FALSE]
    /\ report' = NoReport
    /\ Disturb
    /\ UNCHANGED <<views, ranges, added>>

-----------------------------------------------------------------------------
CatalogAdd(path) ==
    /\ Step
    /\ Readable(files[path])
    /\ catalog' = CatalogWith(catalog, path, BuildManifest(files[path]), PathOrder)
    /\ UNCHANGED <<files, job, report, collection, ranges, added>>

CatalogRemove(path) ==
    /\ Step
    /\ \E e \in Range(catalog) : e.path = path
    /\ catalog' = CatalogWithout(catalog, path)
    /\ UNCHANGED <<files, job, report, collection, ranges, added>>

Collect(paths) ==
    /\ Step
    /\ \A p \in Range(paths) : p \in DOMAIN files /\ Readable(files[p])
    /\ collection' = BuildCollection(files, paths)
    /\ UNCHANGED <<files, job, report, catalog, ranges, added>>

AddTimeRange(range) ==
    /\ Step
    /\ ranges' \in AddRange(ranges, range)
    /\ added' = added \cup {Normal(range)}
    /\ UNCHANGED <<files, job, report, views>>

Next ==
    \/ \E i \in Inputs, p \in Policies, overwrite \in BOOLEAN : StartRotation(i, p, overwrite)
    \/ RefuseOutput
    \/ WriteShard
    \/ CrashInShard
    \/ \E s \in DOMAIN files, t \in CompactionTargets, o \in CompactionOptions : Compact(s, t, o)
    \/ \E p \in DOMAIN files \cap DOMAIN RepairedPath, o \in RepairOptions, w \in BOOLEAN : Repair(p, o, w)
    \/ \E p \in DOMAIN files, d \in Damages : \E i \in DOMAIN files[p].slots : DamageSlot(p, i, d)
    \/ \E p \in DOMAIN files : DamageStart(p)
    \/ \E p \in DOMAIN files : CatalogAdd(p)
    \/ \E p \in DOMAIN files : CatalogRemove(p)
    \/ \E i \in Inputs : Collect(i)
    \/ \E a, b \in RangeBounds : AddTimeRange([start |-> a, end |-> b])

Spec == Init /\ [][Next]_vars

-----------------------------------------------------------------------------
SumOver(s, Of(_)) == FoldLeft(LAMBDA acc, x : acc + Of(x), 0, s)

WithinLimits(policy, records) ==
    LET times == {r.time : r \in Range(records)}
    IN  /\ policy.max_records # 0 => Len(records) <= policy.max_records
        /\ policy.max_payload # 0 => SumOver(records, LAMBDA r : r.payload) <= policy.max_payload
        /\ policy.max_span # 0 => Max(times) - Min(times) <= policy.max_span
        /\ policy.max_bytes # 0 => HeaderBytes + SumOver(records, EstimatedBytes) <= policy.max_bytes
        /\ policy.idle_gap # 0 => \A i \in 2..Len(records) : records[i].time - records[i - 1].time <= policy.idle_gap

(* execute_archive_rotation: a rotation that finished, whose outputs are none *)
(* of its inputs and during which no one else wrote, has put every input      *)
(* record into exactly one shard, in order of time; every shard of several    *)
(* records keeps all limits at once, no record would still have fitted into   *)
(* the shard before, and each shard passes the audit.  So it is too when an   *)
(* earlier attempt crashed and its outputs are overwritten.                   *)
RotationExact ==
    report.operation = "rotation" =>
        LET n == Len(report.shards)
            Out(i) == Records(files[ShardPath[i]])
            apart == \A i \in 1..n : ShardPath[i] \notin Range(report.inputs)
        IN  report.outcome = "done" /\ report.quiet /\ apart =>
                /\ report.skipped = 0
                /\ FlattenSeq([i \in 1..n |-> Out(i)]) = report.seen
                /\ \A p \in Range(report.inputs) : \A r \in Range(Records(files[p])) : r \in Range(report.seen)
                /\ Len(report.seen) = SumOver(report.inputs, LAMBDA p : Len(Records(files[p])))
                /\ \A i \in 1..n :
                    /\ AuditOk(AuditArchive(files[ShardPath[i]], DefaultAudit))
                    /\ Len(Out(i)) > 1 => WithinLimits(report.policy, Out(i))
                    /\ i < n => ~WithinLimits(report.policy, Append(Out(i), Out(i + 1)[1]))

Rules == [min_records |-> 0, max_devices |-> 9, max_device_percent |-> 100, min_average_payload |-> 0]

Ordered(records) == \A i \in 2..Len(records) : records[i - 1].time <= records[i].time

(* execute_archive_repair_plan: whatever was damaged, the output of a repair  *)
(* holds every record that was readable, in order and with its time (of a     *)
(* salvaged record of time zero, its packet's), and each later one whose      *)
(* frame is whole; its header is true, and the audit passes exactly when its  *)
(* times are in order, as do the manifest's warnings in the health report.    *)
(* Nothing is done only when the audit passes or quarantine is not wanted; a  *)
(* file is put in quarantine unchanged, and when salvage is allowed only if   *)
(* its whole frames were all readable already.                                *)
RepairFaithful ==
    report.operation = "repair" =>
        LET before == report.source
            whole == Cardinality({i \in DOMAIN before.slots : before.slots[i].damage \notin {"frame", "torn"}})
            out == Records(report.output)
        IN  /\ report.action = "no_op" => AuditOk(AuditArchive(before, DefaultAudit)) \/ ~report.options.quarantine
            /\ report.action = "quarantine_file" =>
                report.output = before /\ (report.options.allow_salvage => whole <= IntactSlots(before))
            /\ report.action \in {"rebuild_from_salvage", "rewrite_from_readable_records"} =>
                /\ Len(out) = whole
                /\ \A i \in 1..IntactSlots(before) :
                    before.slots[i].record.time # 0 \/ report.action = "rewrite_from_readable_records"
                        => SameRecord(out[i], before.slots[i].record)
                /\ Readable(report.output)
                /\ AuditOk(AuditArchive(report.output, DefaultAudit)) <=> Ordered(out)
                /\ ("manifest.warning" \in AnalyzeHealth(BuildManifest(report.output), Rules)) <=> ~Ordered(out)

Deltas(entries, kinds, field) == MapThenSumSet(LAMBDA e : IF e.kind \in kinds THEN e[field] ELSE 0, entries)

(* compact_archive, diff_archive_manifests: compaction to the latest records  *)
(* leaves exactly the records that no other of their device supersedes and    *)
(* that pass the filters, in order; compacting the result changes nothing;    *)
(* and the difference of the manifests accounts for every record dropped, by  *)
(* device and by kind.                                                        *)
CompactionExact ==
    report.operation = "compaction" =>
        LET source == Records(report.source)
            target == Records(report.target)
            diff == DiffManifests(BuildManifest(report.source), BuildManifest(report.target))
            reverse == DiffManifests(BuildManifest(report.target), BuildManifest(report.source))
            ofDevice == {"device_added", "device_removed", "device_changed"}
            ofKind == {"kind_added", "kind_removed", "kind_changed"}
            dropped == Len(source) - Len(target)
        IN  /\ CompactArchive(report.target, report.options) = report.target
            /\ report.options.keep_latest =>
                \A r \in Range(source) :
                    r \in Range(target) <=>
                        /\ MatchesQuery(r, report.options.query)
                        /\ ~(report.options.drop_empty /\ r.payload = 0)
                        /\ \A other \in Range(source) : other.device = r.device => other.sequence <= r.sequence
            /\ diff.record_delta = -dropped
            /\ Deltas(diff.entries, ofDevice, "record_delta") = -dropped
            /\ Deltas(diff.entries, ofKind, "record_delta") = -dropped
            /\ Deltas(diff.entries, ofDevice, "payload_delta") = diff.payload_delta
            /\ Cardinality(EntriesByKind(diff, "device_removed")) = -diff.device_delta
            /\ Cardinality(diff.entries) = Cardinality(reverse.entries)

-----------------------------------------------------------------------------
(* ArchiveCatalog: one entry per path, in order; as far as an entry still      *)
(* describes its file, selecting misses no archive that holds a record asked   *)
(* for, some archive covers the time of each record, each record's segment     *)
(* lists its archive, and the forecast starts from all the payload there is    *)
(* when the archives' spans do not nest.                                       *)
Fresh(e) == e.path \in DOMAIN files /\ Readable(files[e.path]) /\ BuildManifest(files[e.path]) = e.manifest

CatalogComplete ==
    LET entries == Range(catalog)
        summary == CatalogSummary(catalog)
        segments == PlanSegments(catalog, 2)
        forecast == ForecastCapacity(CapacitySamples(catalog), 2, 0)
        total == SumOver(catalog, LAMBDA e : ManifestPayload(e.manifest))
        Before(i, j) == catalog[i].manifest.summary.last_time < catalog[j].manifest.summary.last_time
    IN  /\ \A i, j \in DOMAIN catalog : i # j => catalog[i].path # catalog[j].path
        /\ \A e \in entries : Fresh(e) =>
            /\ \A q \in Queries, r \in Range(Records(files[e.path])) :
                q.limit = 0 /\ MatchesQuery(r, q) => e \in Range(CatalogSelect(catalog, q))
            /\ \A r \in Range(Records(files[e.path])) :
                /\ FindCoveringTime(catalog, r.time) # <<>>
                /\ summary.first_time <= r.time /\ r.time <= summary.last_time
                /\ \E g \in segments : g.range = SegmentForTime(r.time, 2) /\ e.path \in g.sources
        /\ catalog # <<>> =>
            /\ forecast.projected >= forecast.current
            /\ (\A i, j \in DOMAIN catalog : i < j => Before(i, j)) => forecast.current = total

(* decide_retention, simulate_retention: of two archives above the floors the *)
(* older one is never treated more gently, an archive's treatment never gets   *)
(* gentler as the thresholds age, and every record is planned for once.        *)
Severity == [action \in {"keep", "compact", "archive", "delete"} |->
                CASE action = "keep" -> 0 [] action = "compact" -> 1 [] action = "archive" -> 2 [] OTHER -> 3]

Thresholds == {0, 4, 6}

RetentionMonotone ==
    Len(catalog) > 1 => \A k, c, a, d \in Thresholds :
        LET policy == [keep_after |-> k, compact_before |-> c, archive_before |-> a, delete_before |-> d,
                       min_records |-> 1, min_payload |-> 0]
            simulation == SimulateRetention(catalog, policy, [steps |-> 2, step |-> 1, age |-> TRUE])
        IN  /\ \A s \in DOMAIN simulation :
                \A i, j \in DOMAIN simulation[s] :
                    LET x == simulation[s][i]
                        y == simulation[s][j]
                    IN  x.records > 0 /\ y.records > 0 /\ x.last <= y.last => Severity[x.action] >= Severity[y.action]
            /\ \A i \in DOMAIN catalog :
                Severity[simulation[1][i].action] <= Severity[simulation[2][i].action]
            /\ MapThenSumSet(LAMBDA act : PlannedRecords(simulation[1], act), DOMAIN Severity)
                    = CatalogSummary(catalog).record_count

-----------------------------------------------------------------------------
CollectionFresh ==
    /\ \A p \in Range(collection.paths) : p \in DOMAIN files /\ Readable(files[p])
    /\ BuildCollection(files, collection.paths) = collection

EarliestFrom(time) ==
    UNION {{e.record.time : e \in FindAtOrAfter(BuildIndex(files[p]), time)} : p \in Range(collection.paths)}

(* search_archive_collection: while the files are those the collection was     *)
(* built from, a search returns exactly the matching records of all archives,  *)
(* in order of time; once they have changed, it returns records that are the   *)
(* ones indexed, or ends in an exception.                                      *)
SearchSound ==
    /\ CollectionFresh => \A t \in RangeBounds :
        {r.record.time : r \in Range(AtOrAfter(collection, t))}
            = IF EarliestFrom(t) = {} THEN {} ELSE {Min(EarliestFrom(t))}
    /\ collection # NoCollection => \A q \in Queries :
        LET found == SearchCollection(files, collection, [query |-> q, load_records |-> TRUE])
            all == FlattenSeq([i \in DOMAIN collection.paths |-> QueryArchive(files[collection.paths[i]], q).records])
        IN  /\ ~found.failed =>
                /\ Ordered(found.records)
                /\ found.matched = Len(found.refs)
                /\ \A r \in Range(found.records) : \E ref \in Range(found.refs) : SameRecord(r, ref.record)
            /\ CollectionFresh =>
                /\ ~found.failed
                /\ Len(found.records) = Len(found.refs)
                /\ q.limit = 0 => /\ Len(found.records) = Len(all)
                                  /\ Range(found.records) = Range(all)
                /\ q.limit = 0 => \A p \in Range(collection.paths) :
                        Range(QueryArchive(files[p], q).records)
                            \subseteq {e.record : e \in Range(FilterIndex(BuildIndex(files[p]), q))}
                /\ q.limit # 0 => Len(found.records) = Min({q.limit, Len(SearchCollection(files, collection,
                                        [query |-> [q EXCEPT !.limit = 0], load_records |-> FALSE]).refs)})

SampleOptions ==
    [mode : {"first_n", "every_nth", "time_bucket_first", "deterministic_hash", "payload_extremes"},
     limit : {0, 2}, stride : {2}, bucket : {2}, modulus : {2}, remainder : {1}]

(* sample_archive_collection, build_archive_statistics_report: a sample        *)
(* accounts for every reference and keeps to its limit, strides and buckets    *)
(* take the first of each, extremes the smallest and largest payload; buckets, *)
(* rankings, coverage and payload bins count every record once; a gap holds no *)
(* record of its device; an overlap holds some record; and percentiles are     *)
(* ordered.                                                                    *)
CollectionAccounts ==
    LET refs == collection.refs
        n == Len(refs)
        payloads == {r.record.payload : r \in Range(refs)}
    IN  collection # NoCollection =>
        /\ \A o \in SampleOptions :
            LET sample == SampleCollection(collection, o, AnyRecord)
            IN  /\ sample.selected + sample.rejected = sample.seen /\ sample.seen = n
                /\ Cardinality(Range(sample.refs)) = sample.selected
                /\ o.limit # 0 => sample.selected <= o.limit
                /\ n > 0 /\ o.mode # "deterministic_hash" => sample.selected > 0
                /\ n > 0 /\ o.mode \in {"every_nth", "time_bucket_first"} => refs[1] \in Range(sample.refs)
                /\ n > 1 /\ o.mode = "payload_extremes" =>
                    {Min(payloads), Max(payloads)} \subseteq {r.record.payload : r \in Range(sample.refs)}
        /\ MapThenSumSet(LAMBDA b : b.count, TimeBuckets(collection, 2)) = n
        /\ MapThenSumSet(LAMBDA b : b.count, PayloadDistribution(collection, 2)) = n
        /\ MapThenSumSet(LAMBDA b : b.count, RankByPayload(collection)) = n
        /\ MapThenSumSet(LAMBDA b : b.record_count, DeviceCoverage(collection)) = n
        /\ CollectionFresh => MapThenSumSet(LAMBDA c : c.count, DeviceKindMatrix(files, collection)) = n
        /\ \A g \in DetectGaps(collection, 1) : \A r \in Range(refs) :
                r.record.device = g.device => r.record.time <= g.previous \/ r.record.time >= g.next
        /\ \A o \in DetectOverlaps(collection) : o.left_records + o.right_records > 0
        /\ DetectAnomalies(collection) = {} =>
            \A x, y \in Range(refs) : /\ x # y /\ x.record.device = y.record.device
                                      => x.record.sequence # y.record.sequence
        /\ n > 0 => /\ Min(payloads) <= PayloadPercentile(collection, 50)
                    /\ PayloadPercentile(collection, 50) <= PayloadPercentile(collection, 90)
                    /\ PayloadPercentile(collection, 99) <= Max(payloads)

(* TimeRangeSet: a time is contained, and a range overlapped, exactly when     *)
(* some added range says so; the ranges are in order and apart, unless one     *)
(* reaches the last representable time.                                        *)
RangesExact ==
    /\ \A t \in RangeBounds :
        RangesContain(ranges, t) <=> \E r \in added : r.start <= t /\ t <= r.end
    /\ \A a, b \in RangeBounds :
        RangesOverlap(ranges, [start |-> a, end |-> b]) <=>
            \E r \in added : r.start <= Max({a, b}) /\ Min({a, b}) <= r.end
    /\ \/ \E r \in added : r.end = TimeModulus - 1
       \/ \A i \in 2..Len(ranges) : ranges[i - 1].end + 1 < ranges[i].start

\* What is decided from manifests alone is right about the files they describe:
\* selection misses nothing, and retention treats no older archive more gently.
CatalogSound == CatalogComplete /\ RetentionMonotone
=============================================================================
