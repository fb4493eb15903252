-------------------------- MODULE ArchiveCollection --------------------------
(* A collection of archives (archive_collection.cpp), searching it, sampling  *)
(* it (archive_sampling.cpp) and its statistics (archive_statistics.cpp).  A  *)
(* collection is built once and refers to records by file and offset; the     *)
(* files may change under it.                                                 *)
EXTENDS ArchiveFile

\* The path's ordinal and the entry of its index.
Ref(path, ordinal, entry) == [path |-> path, ordinal |-> ordinal, offset |-> entry.offset, record |-> entry.record]

EarlierRef(a, b) ==
    \/ a.record.time < b.record.time
    \/ /\ a.record.time = b.record.time
       /\ a.ordinal < b.ordinal \/ (a.ordinal = b.ordinal /\ a.offset < b.offset)

BuildCollection(files, paths) ==
    LET RefsOf(n) == LET index == BuildIndex(files[paths[n]])
                     IN  [i \in DOMAIN index |-> Ref(paths[n], n, index[i])]
    IN  [paths |-> paths, manifests |-> [n \in DOMAIN paths |-> BuildManifest(files[paths[n]])],
         refs |-> SortSeq(FlattenSeq([n \in DOMAIN paths |-> RefsOf(n)]), EarlierRef)]

\* The query's kind is not looked at: the index does not know it.
RefMatches(ref, q) == MatchesQuery(ref.record, [q EXCEPT !.kind = {}])

FilterRefs(collection, q) == FirstFew(SelectSeq(collection.refs, LAMBDA r : RefMatches(r, q)), q.limit)

AtOrAfter(collection, time) ==
    FirstFew(SelectSeq(collection.refs, LAMBDA r : r.record.time >= time), 1)

-----------------------------------------------------------------------------
(* Loading a record again: what is at the offset must be the record that was   *)
(* indexed, by time, device and sequence.                                      *)
SameRecord(a, b) == a.time = b.time /\ a.device = b.device /\ a.sequence = b.sequence

\* Whatever is at the offset now is taken.
LoadThrowsNever(files, ref) ==
    ref.path \notin DOMAIN files \/ ReadThrows(files[ref.path], ref.offset)

LoadThrows(files, ref) ==
    \/ ref.path \notin DOMAIN files
    \/ ReadThrows(files[ref.path], ref.offset)
    \/ \E r \in RecordAt(files[ref.path], ref.offset) : ~SameRecord(r, ref.record)

Load(files, ref) == RecordAt(files[ref.path], ref.offset)

-----------------------------------------------------------------------------
(* search_archive_collection, one reference after the other.  The kind is     *)
(* that of the record loaded; a reference whose record is gone does not        *)
(* match.  An exception ends the search.                                       *)
SearchStep(files, options, result, ref) ==
    LET q == options.query
        loads == q.kind # {} \/ options.load_records
        kindFits == \A k \in q.kind : \E r \in Load(files, ref) : r.kind = k
    IN  IF result.failed \/ (q.limit # 0 /\ Len(result.refs) >= q.limit) THEN result
        ELSE IF ~RefMatches(ref, q) THEN [result EXCEPT !.scanned = @ + 1]
        ELSE IF loads /\ LoadThrows(files, ref) THEN [result EXCEPT !.failed = TRUE]
        ELSE IF ~kindFits THEN [result EXCEPT !.scanned = @ + 1, !.by_kind = @ + 1]
        ELSE [result EXCEPT !.scanned = @ + 1, !.matched = @ + 1, !.refs = Append(@, ref),
                !.records = IF options.load_records THEN @ \o SetToSeq(Load(files, ref)) ELSE @]

\* The references are in time order already, so sorting the result again changes nothing.
SearchCollection(files, collection, options) ==
    FoldLeft(LAMBDA result, ref : SearchStep(files, options, result, ref),
             [refs |-> <<>>, records |-> <<>>, scanned |-> 0, matched |-> 0, by_kind |-> 0, failed |-> FALSE],
             SelectSeq(collection.refs, LAMBDA r : \A d \in options.query.device : r.record.device = d))

DeviceCoverage(collection) ==
    {LET mine == SelectSeq(collection.refs, LAMBDA r : r.record.device = d)
     IN  [device |-> d, record_count |-> Len(mine), first_time |-> mine[1].record.time,
          last_time |-> Last(mine).record.time, archive_count |-> Cardinality({r.ordinal : r \in Range(mine)})] :
        d \in {r.record.device : r \in Range(collection.refs)}}

-----------------------------------------------------------------------------
(* Sampling: whether a reference is wanted, given those before it.            *)
StrideOf(n) == IF n = 0 THEN 1 ELSE n

\* Some function of a reference, the same on every run.
RefHash(ref) == ref.ordinal + ref.offset + ref.record.time

\* Payload extremes take smallest, largest, second smallest, ... in turn.
Extremes(refs) ==
    LET sorted == SortSeq(refs, LAMBDA a, b : \/ a.record.payload < b.record.payload
                                              \/ /\ a.record.payload = b.record.payload
                                                 /\ a.record.time < b.record.time)
    IN  [i \in DOMAIN refs |-> IF i % 2 = 1 THEN sorted[(i + 1) \div 2] ELSE sorted[Len(refs) + 1 - i \div 2]]

\* Strides counted from one: the first reference is passed over.
WantedFromOne(options, refs, i) ==
    CASE options.mode = "every_nth" -> i % StrideOf(options.stride) = 0
      [] options.mode = "time_bucket_first" ->
            \A j \in 1..i - 1 : refs[j].record.time \div StrideOf(options.bucket)
                                    # refs[i].record.time \div StrideOf(options.bucket)
      [] options.mode = "deterministic_hash" ->
            RefHash(refs[i]) % StrideOf(options.modulus) = options.remainder % StrideOf(options.modulus)
      [] OTHER -> TRUE

Wanted(options, refs, i) ==
    CASE options.mode = "every_nth" -> (i - 1) % StrideOf(options.stride) = 0
      [] options.mode = "time_bucket_first" ->
            \A j \in 1..i - 1 : refs[j].record.time \div StrideOf(options.bucket)
                                    # refs[i].record.time \div StrideOf(options.bucket)
      [] options.mode = "deterministic_hash" ->
            RefHash(refs[i]) % StrideOf(options.modulus) = options.remainder % StrideOf(options.modulus)
      [] OTHER -> TRUE

SampleCollection(collection, options, q) ==
    LET refs == IF options.mode = "payload_extremes" THEN Extremes(FilterRefs(collection, q))
                ELSE FilterRefs(collection, q)
        wanted == SelectSeq([i \in DOMAIN refs |-> i], LAMBDA i : Wanted(options, refs, i))
        taken == FirstFew([n \in DOMAIN wanted |-> refs[wanted[n]]], options.limit)
    IN  [refs |-> SortSeq(taken, LAMBDA a, b : a.record.time < b.record.time),
         seen |-> Len(refs), selected |-> Len(taken), rejected |-> Len(refs) - Len(taken)]

PayloadDistribution(collection, width) ==
    LET w == StrideOf(width)
    IN  {[min |-> b * w, max |-> b * w + w - 1,
          count |-> Len(SelectSeq(collection.refs, LAMBDA r : r.record.payload \div w = b))] :
            b \in {r.record.payload \div w : r \in Range(collection.refs)}}

-----------------------------------------------------------------------------
(* Statistics. *)
TimeBuckets(collection, width) ==
    LET w == StrideOf(width)
        In(b) == SelectSeq(collection.refs, LAMBDA r : r.record.time \div w = b)
    IN  {[start |-> b * w, end |-> b * w + w - 1, count |-> Len(In(b)),
          payload |-> FoldLeft(LAMBDA acc, r : acc + r.record.payload, 0, In(b)),
          archives |-> Cardinality({r.ordinal : r \in Range(In(b))})] :
            b \in {r.record.time \div w : r \in Range(collection.refs)}}

\* A device's records by time and sequence.
DeviceTimeline(collection, device) ==
    SortSeq(SelectSeq(collection.refs, LAMBDA r : r.record.device = device),
            LAMBDA a, b : \/ a.record.time < b.record.time
                          \/ a.record.time = b.record.time /\ a.record.sequence < b.record.sequence)

CollectionDevices(collection) == {r.record.device : r \in Range(collection.refs)}

DetectGaps(collection, threshold) ==
    UNION {LET line == DeviceTimeline(collection, d)
           IN  {[device |-> d, previous |-> line[i - 1].record.time, next |-> line[i].record.time] :
                    i \in {j \in 2..Len(line) : line[j].record.time - line[j - 1].record.time > threshold}} :
              d \in CollectionDevices(collection)}

TimesOverlap(a, b) ==
    /\ a.summary.record_count # 0 /\ b.summary.record_count # 0
    /\ a.summary.first_time <= b.summary.last_time /\ b.summary.first_time <= a.summary.last_time

DetectOverlaps(collection) ==
    LET m == collection.manifests
        Inside(n, start, end) ==
            Len(SelectSeq(collection.refs, LAMBDA r : r.ordinal = n /\ start <= r.record.time /\ r.record.time <= end))
        Overlap(i, j) ==
            LET start == Max({m[i].summary.first_time, m[j].summary.first_time})
                end == Min({m[i].summary.last_time, m[j].summary.last_time})
            IN  [left |-> i, right |-> j, start |-> start, end |-> end,
                 left_records |-> Inside(i, start, end), right_records |-> Inside(j, start, end)]
    IN  {Overlap(p[1], p[2]) : p \in {x \in (DOMAIN m) \X (DOMAIN m) : x[1] < x[2] /\ TimesOverlap(m[x[1]], m[x[2]])}}

AnomalyReason(previous, current) ==
    CASE current = previous -> "duplicate sequence"
      [] current < previous -> "sequence moved backwards"
      [] OTHER -> "sequence gap"

DetectAnomalies(collection) ==
    UNION {LET line == DeviceTimeline(collection, d)
           IN  {[device |-> d, at |-> line[i].record.time,
                 reason |-> AnomalyReason(line[i - 1].record.sequence, line[i].record.sequence)] :
                    i \in {j \in 2..Len(line) : line[j].record.sequence # line[j - 1].record.sequence + 1}} :
              d \in CollectionDevices(collection)}

\* The nearest rank, halves rounded up.
PayloadPercentile(collection, percent) ==
    LET sizes == SortSeq([i \in DOMAIN collection.refs |-> collection.refs[i].record.payload], LAMBDA a, b : a < b)
    IN  sizes[Min({Len(sizes), (percent * (Len(sizes) - 1) + 50) \div 100 + 1})]

RankByPayload(collection) ==
    {[device |-> d, count |-> Len(DeviceTimeline(collection, d)),
      payload |-> FoldLeft(LAMBDA acc, r : acc + r.record.payload, 0, DeviceTimeline(collection, d))] :
        d \in CollectionDevices(collection)}

\* Records that are gone are not counted; one that is not the record indexed is an exception.
DeviceKindMatrix(files, collection) ==
    LET found == SelectSeq(collection.refs, LAMBDA r : Load(files, r) # {})
        KindOf(r) == (CHOOSE x \in Load(files, r) : TRUE).kind
    IN  {[device |-> c[1], kind |-> c[2],
          count |-> Len(SelectSeq(found, LAMBDA r : r.record.device = c[1] /\ KindOf(r) = c[2]))] :
            c \in {<<r.record.device, KindOf(r)>> : r \in Range(found)}}
=============================================================================
