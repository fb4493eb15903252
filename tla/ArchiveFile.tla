----------------------------- MODULE ArchiveFile -----------------------------
(* What an archive file holds and what reading it gives: ArchiveReader and  *)
(* ArchiveWriter seen from outside, the index, the manifest, queries        *)
(* (archive.cpp, manifest.cpp, query.cpp, manifest_diff.cpp).  A file is    *)
(* its header and its record slots; bytes are kept only as sizes and        *)
(* offsets.  Lists that are sorted for display only are sets.  An optional  *)
(* field of a query is a set of at most one value.                          *)
EXTENDS Integers, Sequences, FiniteSets, SequencesExt, FiniteSetsExt

\* Comparison of two paths, given all of them in lexicographic order.
PathBefore(pathOrder, p, q) ==
    \E i, j \in DOMAIN pathOrder : i < j /\ pathOrder[i] = p /\ pathOrder[j] = q

\* The elements of a sequence at some of its positions, in order.
Kept(s, positions) ==
    [k \in 1..Cardinality(positions) |-> s[CHOOSE i \in positions : Cardinality({j \in positions : j <= i}) = k]]

HeaderBytes == 36

RecordOverhead == 16

\* What encode_packet puts around the payload of a packet without sections.
FrameOverhead == 45

Record(time, device, sequence, kind, payload, stamp) ==
    [time |-> time, device |-> device, sequence |-> sequence, kind |-> kind,
     payload |-> payload, stamp |-> stamp]

\* What may be wrong with a slot: the record checksum, the time or the length in front of the
\* frame, the frame itself, or the file ends within it.
Damage == {"none", "trailer", "time", "length", "frame", "torn"}

Slot(record, damage) == [record |-> record, damage |-> damage]

EmptySummary == [record_count |-> 0, first_time |-> 0, last_time |-> 0]

SummaryWith(summary, r) ==
    IF summary.record_count = 0
    THEN [record_count |-> 1, first_time |-> r.time, last_time |-> r.time]
    ELSE [record_count |-> summary.record_count + 1,
          first_time |-> Min({summary.first_time, r.time}),
          last_time |-> Max({summary.last_time, r.time})]

SummaryOf(records) == FoldLeft(SummaryWith, EmptySummary, records)

\* A writer that was closed, and one that stopped after some bytes: its header is still zero.
WriteArchive(records) ==
    [opens |-> TRUE, header |-> SummaryOf(records), slots |-> [i \in DOMAIN records |-> Slot(records[i], "none")]]

AbandonedArchive(records, lastDamage) ==
    [opens |-> TRUE, header |-> EmptySummary,
     slots |-> [i \in DOMAIN records |-> Slot(records[i], IF i = Len(records) THEN lastDamage ELSE "none")]]

\* estimate_archive_record_bytes leaves the frame around the payload out.
EstimatedBytes(r) == RecordOverhead + r.payload

RecordBytes(r) == RecordOverhead + FrameOverhead + r.payload

OffsetOf(file, i) ==
    HeaderBytes + FoldLeft(LAMBDA acc, s : acc + RecordBytes(s.record), 0, SubSeq(file.slots, 1, i - 1))

\* ArchiveReader: the records up to the first damaged slot, where next() throws.
IntactSlots(file) ==
    IF ~file.opens THEN 0
    ELSE Max({n \in 0..Len(file.slots) : \A i \in 1..n : file.slots[i].damage = "none"})

Readable(file) == file.opens /\ IntactSlots(file) = Len(file.slots)

Records(file) == [i \in 1..IntactSlots(file) |-> file.slots[i].record]

-----------------------------------------------------------------------------
(* Index. *)
EarlierEntry(a, b) == a.record.time < b.record.time \/ (a.record.time = b.record.time /\ a.offset < b.offset)

BuildIndex(file) ==
    SortSeq([i \in 1..IntactSlots(file) |-> [offset |-> OffsetOf(file, i), record |-> file.slots[i].record]],
            EarlierEntry)

\* std::lower_bound, as a set of at most one entry.
FindAtOrAfter(index, time) ==
    LET late == {i \in DOMAIN index : index[i].record.time >= time}
    IN  IF late = {} THEN {} ELSE {index[Min(late)]}

\* Reading up to an offset: the record there, nothing when the reader passes it or meets the
\* end of the file, and an exception when it meets damage first.
RecordAt(file, offset) ==
    {file.slots[i].record : i \in {j \in 1..IntactSlots(file) : OffsetOf(file, j) = offset}}

ReadThrows(file, offset) ==
    ~Readable(file) /\ \A i \in 1..IntactSlots(file) : OffsetOf(file, i) < offset

-----------------------------------------------------------------------------
(* Manifest. *)
DeviceSummary(records, device) ==
    LET mine == Kept(records, {i \in DOMAIN records : records[i].device = device})
    IN  [device |-> device, summary |-> SummaryOf(mine),
         payload |-> FoldLeft(LAMBDA acc, r : acc + r.payload, 0, mine)]

ManifestDevices(records) == {DeviceSummary(records, d) : d \in {r.device : r \in Range(records)}}

ManifestKinds(records) ==
    {[kind |-> k, count |-> Cardinality({i \in DOMAIN records : records[i].kind = k})] :
        k \in {r.kind : r \in Range(records)}}

ManifestPayload(manifest) == MapThenSumSet(LAMBDA d : d.payload, manifest.devices)

When(condition, warning) == IF condition THEN {warning} ELSE {}

ValidateManifest(m) ==
    LET devices == SumFunction([d \in m.devices |-> d.summary.record_count])
        kinds == SumFunction([k \in m.kinds |-> k.count])
        count == m.summary.record_count
    IN  When(devices # kinds, "aggregates disagree")
        \cup When(count # 0 /\ devices # count, "aggregate count differs")
        \cup When(count = 0 /\ (m.devices # {} \/ m.kinds # {}), "empty summary with aggregates")
        \cup When(\E d \in m.devices : d.summary.record_count = 0, "device without records")
        \cup When(\E d \in m.devices : d.summary.first_time > d.summary.last_time, "device range inverted")

BuildManifest(file) ==
    LET records == Records(file)
        seen == SummaryOf(records)
        plain == [summary |-> seen, devices |-> ManifestDevices(records), kinds |-> ManifestKinds(records)]
        warnings ==
            When(\E i \in 2..Len(records) : records[i].time < records[i - 1].time, "unordered")
            \cup When(seen.record_count # file.header.record_count, "header count")
            \cup When(seen.record_count # 0 /\ seen.first_time # file.header.first_time, "header first")
            \cup When(seen.record_count # 0 /\ seen.last_time # file.header.last_time, "header last")
    IN  [summary |-> plain.summary, devices |-> plain.devices, kinds |-> plain.kinds,
         warnings |-> warnings \cup ValidateManifest(plain)]

-----------------------------------------------------------------------------
(* Difference of two manifests. *)
DiffEntry(kind, key, records, payload) ==
    [kind |-> kind, key |-> key, record_delta |-> records, payload_delta |-> payload]

DiffDevices(before, after) ==
    LET Of(m, d) == CHOOSE s \in m.devices : s.device = d
        Has(m) == {s.device : s \in m.devices}
    IN  {DiffEntry("device_added", d, Of(after, d).summary.record_count, Of(after, d).payload) :
            d \in Has(after) \ Has(before)}
        \cup {DiffEntry("device_removed", d, -Of(before, d).summary.record_count, -Of(before, d).payload) :
                d \in Has(before) \ Has(after)}
        \cup {DiffEntry("device_changed", d,
                        Of(after, d).summary.record_count - Of(before, d).summary.record_count,
                        Of(after, d).payload - Of(before, d).payload) :
                d \in {e \in Has(before) \cap Has(after) : Of(before, e) # Of(after, e)}}

DiffKinds(before, after) ==
    LET Has(m) == {c.kind : c \in m.kinds}
        Count(m, k) == (CHOOSE c \in m.kinds : c.kind = k).count
    IN  {DiffEntry("kind_added", k, Count(after, k), 0) : k \in Has(after) \ Has(before)}
        \cup {DiffEntry("kind_removed", k, -Count(before, k), 0) : k \in Has(before) \ Has(after)}
        \cup {DiffEntry("kind_changed", k, Count(after, k) - Count(before, k), 0) :
                k \in {e \in Has(before) \cap Has(after) : Count(before, e) # Count(after, e)}}

DiffWarnings(before, after) ==
    {DiffEntry("warning_removed", w, 0, 0) : w \in before.warnings \ after.warnings}
        \cup {DiffEntry("warning_added", w, 0, 0) : w \in after.warnings \ before.warnings}

DiffManifests(before, after) ==
    LET records == after.summary.record_count - before.summary.record_count
        payload == ManifestPayload(after) - ManifestPayload(before)
    IN  [record_delta |-> records, payload_delta |-> payload,
         device_delta |-> Cardinality(after.devices) - Cardinality(before.devices),
         kind_delta |-> Cardinality(after.kinds) - Cardinality(before.kinds),
         entries |-> (IF before.summary = after.summary THEN {}
                      ELSE {DiffEntry("summary_changed", "summary", records, payload)})
                     \cup DiffDevices(before, after) \cup DiffKinds(before, after)
                     \cup DiffWarnings(before, after)]

EntriesByKind(diff, kind) == {e \in diff.entries : e.kind = kind}

-----------------------------------------------------------------------------
(* Queries. *)
AnyRecord == [start |-> {}, end |-> {}, device |-> {}, kind |-> {}, min_payload |-> {}, max_payload |-> {},
              limit |-> 0]

TimeMatches(time, q) == (\A s \in q.start : time >= s) /\ (\A e \in q.end : time <= e)

PayloadMatches(payload, q) == (\A m \in q.min_payload : payload >= m) /\ (\A m \in q.max_payload : payload <= m)

\* The first test a record fails, "none" when it matches.
SkippedBy(r, q) ==
    CASE ~TimeMatches(r.time, q) -> "time"
      [] TimeMatches(r.time, q) /\ ~(\A d \in q.device : r.device = d) -> "device"
      [] TimeMatches(r.time, q) /\ (\A d \in q.device : r.device = d) /\ ~(\A k \in q.kind : r.kind = k) -> "kind"
      [] OTHER -> IF PayloadMatches(r.payload, q) THEN "none" ELSE "payload"

MatchesQuery(r, q) == SkippedBy(r, q) = "none"

FirstFew(s, limit) == IF limit = 0 \/ Len(s) <= limit THEN s ELSE SubSeq(s, 1, limit)

\* query_archive stops scanning at the record that reaches the limit; it throws at damage before that.
QueryArchive(file, q) ==
    LET records == Records(file)
        Matching(n) == SelectSeq(SubSeq(records, 1, n), LAMBDA r : MatchesQuery(r, q))
        full == {n \in 0..Len(records) : q.limit # 0 /\ Len(Matching(n)) = q.limit}
        scanned == IF full = {} THEN Len(records) ELSE Min(full)
        stats == [why \in {"none", "time", "device", "kind", "payload"} |->
                    Len(SelectSeq(SubSeq(records, 1, scanned), LAMBDA r : SkippedBy(r, q) = why))]
    IN  [failed |-> full = {} /\ ~Readable(file), records |-> Matching(scanned), scanned |-> scanned,
         stats |-> stats]

\* filter_index knows no packet kinds.
FilterIndex(index, q) ==
    FirstFew(SelectSeq(index, LAMBDA e : MatchesQuery(e.record, [q EXCEPT !.kind = {}])), q.limit)
=============================================================================
