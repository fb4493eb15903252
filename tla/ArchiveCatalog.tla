---------------------------- MODULE ArchiveCatalog ----------------------------
(* What is decided from manifests alone: the catalog (catalog.cpp), segment    *)
(* plans (segment.cpp), retention and its simulation (retention.cpp,           *)
(* retention_simulator.cpp), the capacity forecast (capacity_forecast.cpp),    *)
(* archive health (archive_health.cpp), and sets of time ranges                *)
(* (range_set.cpp).                                                            *)
EXTENDS ArchiveFile

CONSTANT TimeModulus        \* times are 64-bit: 2^64

-----------------------------------------------------------------------------
(* ArchiveCatalog: a sequence of [path, manifest].                            *)
CatalogSorted(entries, pathOrder) ==
    SortSeq(entries, LAMBDA a, b : \/ a.manifest.summary.first_time < b.manifest.summary.first_time
                                   \/ /\ a.manifest.summary.first_time = b.manifest.summary.first_time
                                      /\ PathBefore(pathOrder, a.path, b.path))

CatalogWithout(entries, path) == SelectSeq(entries, LAMBDA e : e.path # path)

CatalogWith(entries, path, manifest, pathOrder) ==
    CatalogSorted(Append(CatalogWithout(entries, path), [path |-> path, manifest |-> manifest]), pathOrder)

CatalogSummary(entries) ==
    LET filled == {i \in DOMAIN entries : entries[i].manifest.summary.record_count # 0}
    IN  [archive_count |-> Len(entries),
         record_count |-> FoldLeft(LAMBDA acc, e : acc + e.manifest.summary.record_count, 0, entries),
         device_count |-> Cardinality({d.device : d \in UNION {e.manifest.devices : e \in Range(entries)}}),
         first_time |-> IF filled = {} THEN 0 ELSE Min({entries[i].manifest.summary.first_time : i \in filled}),
         last_time |-> IF filled = {} THEN 0 ELSE Max({entries[i].manifest.summary.last_time : i \in filled})]

OverlapsQueryTime(manifest, q) ==
    /\ \A s \in q.start : manifest.summary.last_time >= s
    /\ \A e \in q.end : manifest.summary.first_time <= e

\* The limit counts archives, not records.
CatalogSelect(entries, q) ==
    FirstFew(SelectSeq(entries, LAMBDA e :
                /\ OverlapsQueryTime(e.manifest, q)
                /\ \A d \in q.device : \E s \in e.manifest.devices : s.device = d
                /\ \A k \in q.kind : \E c \in e.manifest.kinds : c.kind = k), q.limit)

FindCoveringTime(entries, time) ==
    FirstFew(SelectSeq(entries, LAMBDA e : /\ e.manifest.summary.record_count # 0
                                           /\ e.manifest.summary.first_time <= time
                                           /\ time <= e.manifest.summary.last_time), 1)

-----------------------------------------------------------------------------
(* Segments. *)
SegmentWidth(width) == IF width = 0 THEN 1 ELSE width

SegmentForTime(time, width) ==
    LET w == SegmentWidth(width) IN [start |-> (time \div w) * w, end |-> (time \div w) * w + w - 1]

PlanSegments(entries, width) ==
    LET filled == SelectSeq(entries, LAMBDA e : e.manifest.summary.record_count # 0)
        Touched(e) == {SegmentForTime(t, width) : t \in e.manifest.summary.first_time..e.manifest.summary.last_time}
    IN  {[range |-> g, sources |-> {e.path : e \in {x \in Range(filled) : g \in Touched(x)}}] :
            g \in UNION {Touched(e) : e \in Range(filled)}}

-----------------------------------------------------------------------------
(* Retention.  A threshold of zero is off. *)
ProtectedByRecordFloor(manifest, policy) ==
    policy.min_records # 0 /\ manifest.summary.record_count < policy.min_records

ProtectedByPayloadFloor(manifest, policy) ==
    policy.min_payload # 0 /\ ManifestPayload(manifest) < policy.min_payload

Protected(manifest, policy) ==
    \/ ProtectedByRecordFloor(manifest, policy)
    \/ ProtectedByPayloadFloor(manifest, policy)
    \/ policy.keep_after # 0 /\ manifest.summary.last_time >= policy.keep_after

OlderThan(threshold, last) == threshold # 0 /\ last < threshold

\* The weakest action is looked at first.
DecideRetentionWeakestFirst(manifest, policy) ==
    LET last == manifest.summary.last_time
    IN  IF manifest.summary.record_count = 0 THEN "delete"
        ELSE IF Protected(manifest, policy) THEN "keep"
        ELSE IF OlderThan(policy.compact_before, last) THEN "compact"
        ELSE IF OlderThan(policy.archive_before, last) THEN "archive"
        ELSE IF OlderThan(policy.delete_before, last) THEN "delete"
        ELSE "keep"

DecideRetention(manifest, policy) ==
    LET last == manifest.summary.last_time
    IN  IF manifest.summary.record_count = 0 THEN "delete"
        ELSE IF Protected(manifest, policy) THEN "keep"
        ELSE IF OlderThan(policy.delete_before, last) THEN "delete"
        ELSE IF OlderThan(policy.archive_before, last) THEN "archive"
        ELSE IF OlderThan(policy.compact_before, last) THEN "compact"
        ELSE "keep"

RetentionPlan(entries, policy) ==
    LET sorted == SortSeq(entries, LAMBDA a, b : a.manifest.summary.last_time < b.manifest.summary.last_time)
    IN  [i \in DOMAIN sorted |->
            [path |-> sorted[i].path, action |-> DecideRetention(sorted[i].manifest, policy),
             records |-> sorted[i].manifest.summary.record_count, last |-> sorted[i].manifest.summary.last_time]]

PlannedRecords(plan, action) ==
    FoldLeft(LAMBDA acc, d : IF d.action = action THEN acc + d.records ELSE acc, 0, plan)

AdvancePolicy(policy, delta, age) ==
    LET Later(t) == IF t = 0 \/ ~age THEN t ELSE t + delta
    IN  [policy EXCEPT !.keep_after = Later(@), !.compact_before = Later(@), !.archive_before = Later(@),
                       !.delete_before = Later(@)]

SimulateRetention(entries, policy, options) ==
    [step \in 1..Max({1, options.steps}) |->
        LET aged == AdvancePolicy(policy, (step - 1) * options.step, options.age)
        IN  RetentionPlan(entries, aged)]

-----------------------------------------------------------------------------
(* Capacity forecast: running totals in catalog order, then sorted by the     *)
(* archives' last times.  Rates are fractions.                                *)
CapacitySamples(entries) ==
    LET Total(i, Of(_)) == FoldLeft(LAMBDA acc, e : acc + Of(e.manifest), 0, SubSeq(entries, 1, i))
    IN  SortSeq([i \in DOMAIN entries |->
                    [time |-> entries[i].manifest.summary.last_time, payload |-> Total(i, ManifestPayload)]],
                LAMBDA a, b : a.time < b.time)

RateBetween(first, last) ==
    IF last.time <= first.time \/ last.payload < first.payload THEN <<0, 1>>
    ELSE <<last.payload - first.payload, last.time - first.time>>

ForecastCapacity(samples, horizon, target) ==
    LET current == Last(samples).payload
        rate == RateBetween(samples[1], Last(samples))
        projected == current + (rate[1] * horizon) \div rate[2]
    IN  [current |-> current, projected |-> projected, exceeds |-> target # 0 /\ projected > target]

-----------------------------------------------------------------------------
(* Health: the codes found; ok() asks for no error among them.               *)
AnalyzeHealth(m, rules) ==
    LET count == m.summary.record_count
        largest == Max({0} \cup {d.summary.record_count : d \in m.devices})
        found == When(count < rules.min_records, "too_small")
            \cup When(count = 0, "empty")
            \cup When(m.summary.first_time > m.summary.last_time, "time_inverted")
            \cup When(Cardinality(m.devices) > rules.max_devices, "too_many_devices")
            \cup When(\E d \in m.devices : d.summary.record_count = 0, "device.empty")
            \cup When(\E d \in m.devices : d.summary.first_time > d.summary.last_time, "device.time_inverted")
            \cup When(/\ count # 0 /\ Cardinality(m.devices) > 1
                      /\ 100 * largest > rules.max_device_percent * count, "device_skew")
            \cup When(count # 0 /\ ManifestPayload(m) < rules.min_average_payload * count, "low_payload_density")
            \cup When(m.warnings # {}, "manifest.warning")
    IN  IF found = {} THEN {"ok"} ELSE found

-----------------------------------------------------------------------------
(* TimeRangeSet: sorted ranges that neither overlap nor touch.               *)
Normal(range) == [start |-> Min({range.start, range.end}), end |-> Max({range.start, range.end})]

\* A range that starts within the one before replaces its end.
MergeRangeLast(merged, range) ==
    IF merged = <<>> \/ range.start > (Last(merged).end + 1) % TimeModulus THEN Append(merged, range)
    ELSE [merged EXCEPT ![Len(merged)].end = range.end]

MergeRange(merged, range) ==
    IF merged = <<>> \/ range.start > (Last(merged).end + 1) % TimeModulus THEN Append(merged, range)
    ELSE [merged EXCEPT ![Len(merged)].end = Max({@, range.end})]

\* std::sort: ranges that start together may come out in either order.
SortedByStart(s) ==
    {[i \in DOMAIN s |-> s[p[i]]] : p \in
        {q \in [DOMAIN s -> DOMAIN s] : /\ Range(q) = DOMAIN s
                                       /\ \A i, j \in DOMAIN s : i < j => s[q[i]].start <= s[q[j]].start}}

\* What adding a range may leave.
AddRange(ranges, range) ==
    {FoldLeft(MergeRange, <<>>, sorted) : sorted \in SortedByStart(Append(ranges, Normal(range)))}

RangesContain(ranges, time) == \E r \in Range(ranges) : r.start <= time /\ time <= r.end

RangesOverlap(ranges, range) ==
    \E r \in Range(ranges) : Normal(range).start <= r.end /\ Normal(range).end >= r.start
=============================================================================
