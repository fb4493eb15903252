------------------------------- MODULE Metrics -------------------------------
(* The metric values of src/diagnostics/metrics.cpp: snapshots, series,     *)
(* rollups, comparisons and latency histograms.  Values are integers;       *)
(* where the code divides, results are kept as fractions or multiplied by   *)
(* 100.  A name is a sequence of tokens, tags are a function from tag keys. *)
(* std::sort orders up to sixteen elements by insertion, which keeps the    *)
(* order of equal ones.                                                     *)
EXTENDS Integers, Sequences, FiniteSets, SequencesExt, FiniteSetsExt

CONSTANTS
    TagKeys,            \* the tag keys in use, in their map order
    KeyRank             \* of an identity, the place of its key in the order of the keys

\* The elements of s by the places of their positions.
Placed(s, place) == [k \in 1..Cardinality(DOMAIN place) |-> s[CHOOSE i \in DOMAIN place : place[i] = k]] \o <<>>

\* The elements at the given positions.
Chosen(s, positions) == Placed(s, [i \in positions |-> Cardinality({j \in positions : j <= i})])

\* The elements sorted by two numbers of their positions; those with equal ones keep their order.
Sorted(s, first, second) ==
    LET NotAfter(j, i) == \/ first[j] < first[i]
                          \/ first[j] = first[i] /\ second[j] < second[i]
                          \/ first[j] = first[i] /\ second[j] = second[i] /\ j <= i
    IN  Placed(s, [i \in DOMAIN s |-> Cardinality({j \in DOMAIN s : NotAfter(j, i)})])

Times(s) == [i \in DOMAIN s |-> s[i].time]

Alike(s) == [i \in DOMAIN s |-> 0]

Kinds == {"counter", "gauge", "latency", "ratio", "bytes"}

Identity(name, tags) == [name |-> name, tags |-> tags]

MetricSample(id, kind, value, time) ==
    [identity |-> id, kind |-> kind, value |-> value, time |-> time]

Abs(x) == IF x < 0 THEN -x ELSE x

-----------------------------------------------------------------------------
(* Identities.  The key is the text name|key=value|..., tags in map order. *)
CanonicalMetricKey(id) ==
    id.name \o FlattenSeq([i \in 1..Len(TagKeys) |->
        IF TagKeys[i] \in DOMAIN id.tags THEN <<"|", TagKeys[i], "=", id.tags[TagKeys[i]]>> ELSE <<>>])

TagsMatch(candidate, required) ==
    \A k \in DOMAIN required : k \in DOMAIN candidate /\ candidate[k] = required[k]

SamplesByTime(s) == Sorted(s, Times(s), [i \in DOMAIN s |-> KeyRank[s[i].identity]])

\* The last of the newest elements: each later one with an equal time replaces the one found.
Newest(s) ==
    LET newest == {i \in DOMAIN s : \A j \in DOMAIN s : s[j].time <= s[i].time}
    IN  s[Max(newest)]

-----------------------------------------------------------------------------
(* MetricSnapshot and its builder. *)
EmptySnapshot == [samples |-> <<>>, capture_time |-> 0]

SnapshotAdd(snapshot, sample) ==
    [samples |-> Append(snapshot.samples, sample),
     capture_time |-> Max({snapshot.capture_time, sample.time})]

FindByName(snapshot, name) ==
    LET s == snapshot.samples
    IN  SamplesByTime(Chosen(s, {i \in DOMAIN s : s[i].identity.name = name}))

SamplesOf(samples, id) == Chosen(samples, {i \in DOMAIN samples : samples[i].identity = id})

SnapshotSummary(snapshot) ==
    LET s == snapshot.samples
        Sum(kind) == FoldLeft(LAMBDA acc, x : IF x.kind = kind THEN acc + x.value ELSE acc, 0, s)
    IN  [capture_time |-> snapshot.capture_time, metric_count |-> Len(s),
         of_kind |-> [k \in Kinds |-> Cardinality({i \in DOMAIN s : s[i].kind = k})],
         total_counter_value |-> Sum("counter"), total_byte_value |-> Sum("bytes")]

-----------------------------------------------------------------------------
(* Series, rollups and comparisons. *)
\* The key without the tags: series of one name run together.
SeriesKeyByName(id) == id.name

SeriesKey(id) == CanonicalMetricKey(id)

\* One series per key, its identity and kind those of the first sample seen.
GroupMetricSeries(samples) ==
    LET Of(key) == Chosen(samples, {i \in DOMAIN samples : SeriesKey(samples[i].identity) = key})
    IN  {[identity |-> Of(key)[1].identity, kind |-> Of(key)[1].kind, samples |-> SamplesByTime(Of(key))] :
            key \in {SeriesKey(s.identity) : s \in Range(samples)}}

RollupSamples(series) ==
    LET ordered == SamplesByTime(series.samples)
        values == {s.value : s \in Range(ordered)}
    IN  [identity |-> series.identity, kind |-> series.kind, sample_count |-> Len(ordered),
         first_time |-> ordered[1].time, last_time |-> Last(ordered).time,
         min |-> Min(values), max |-> Max(values),
         sum |-> FoldLeft(LAMBDA acc, s : acc + s.value, 0, ordered),
         latest |-> Last(ordered).value, delta |-> Last(ordered).value - ordered[1].value]

RollupSeries(series) == {RollupSamples(s) : s \in series}

\* The change relative to the previous value, as numerator and denominator.
SafeRelativeChange(previous, current) ==
    IF previous = 0 THEN IF current = 0 THEN <<0, 1>> ELSE <<1, 1>>
    ELSE <<current - previous, Abs(previous)>>

\* The last sample of a key in each snapshot counts, by position and not by time.
MetricDeltaOf(previous, current, key) ==
    LET At(s) == {i \in DOMAIN s : CanonicalMetricKey(s[i].identity) = key}
        Of(snapshot) == Chosen(snapshot.samples, At(snapshot.samples))
        both == Of(previous) # <<>> /\ Of(current) # <<>>
        last == IF Of(current) # <<>> THEN Last(Of(current)) ELSE Last(Of(previous))
        change == Last(Of(current)).value - Last(Of(previous)).value
    IN  IF both
        THEN [identity |-> last.identity, both |-> TRUE,
              relative |-> SafeRelativeChange(Last(Of(previous)).value, Last(Of(current)).value),
              trend |-> IF change = 0 THEN "flat" ELSE IF change > 0 THEN "rising" ELSE "falling"]
        ELSE [identity |-> last.identity, both |-> FALSE, relative |-> <<0, 1>>, trend |-> "missing"]

CompareMetricSnapshots(previous, current) ==
    {MetricDeltaOf(previous, current, key) :
        key \in {CanonicalMetricKey(s.identity) : s \in Range(previous.samples \o current.samples)}}

ClassifyMetricTrend(samples, noise_floor) ==
    LET ordered == SamplesByTime(samples)
        Diffs == {ordered[i].value - ordered[i - 1].value : i \in 2..Len(ordered)}
        rising == \E d \in Diffs : d > noise_floor
        falling == \E d \in Diffs : d < -noise_floor
    IN  CASE Len(samples) < 2 -> "missing"
          [] Len(samples) >= 2 /\ ~rising /\ ~falling -> "flat"
          [] rising /\ falling -> "volatile"
          [] rising /\ ~falling -> "rising"
          [] falling /\ ~rising -> "falling"

-----------------------------------------------------------------------------
(* LatencyHistogram: buckets by upper bound, and every observation. *)
MakeHistogram(bounds) ==
    [buckets |-> [i \in 1..Cardinality(bounds) |->
                    [bound |-> SetToSortSeq(bounds, LAMBDA a, b : a < b)[i], count |-> 0]],
     overflow |-> 0, observations |-> <<>>]

\* std::lower_bound: the buckets a value may go to, the first of which takes it.
BucketFor(buckets, value) == {i \in DOMAIN buckets : value <= buckets[i].bound}

Observe(h, o) ==
    LET fit == BucketFor(h.buckets, o.value)
    IN  IF fit = {}
        THEN [h EXCEPT !.observations = Append(@, o), !.overflow = @ + 1]
        ELSE [h EXCEPT !.observations = Append(@, o), !.buckets[Min(fit)].count = @ + 1]

MergeHistogram(h, other) == FoldLeft(Observe, h, other.observations)

ClearHistogram(h) ==
    [buckets |-> [i \in DOMAIN h.buckets |-> [h.buckets[i] EXCEPT !.count = 0]],
     overflow |-> 0, observations |-> <<>>]

SortedLatencyValues(observations) ==
    LET values == [i \in DOMAIN observations |-> observations[i].value]
    IN  Sorted(values, values, Alike(values))

\* 100 times the percentile, interpolated between the two neighbours of its position.
LatencyPercentile(sorted, rank) ==
    LET position == rank * (Len(sorted) - 1)
        lower == position \div 100 + 1
        upper == (position + 99) \div 100 + 1
        weight == position % 100
    IN  CASE sorted = <<>> -> 0
          [] sorted # <<>> /\ rank <= 0 -> 100 * sorted[1]
          [] sorted # <<>> /\ rank >= 100 -> 100 * Last(sorted)
          [] OTHER -> sorted[lower] * (100 - weight) + sorted[upper] * weight

HistogramStats(h) ==
    LET sorted == SortedLatencyValues(h.observations)
        At(rank) == LatencyPercentile(sorted, rank)
    IN  [count |-> Len(sorted), overflow_count |-> h.overflow,
         min |-> IF sorted = <<>> THEN 0 ELSE sorted[1],
         max |-> IF sorted = <<>> THEN 0 ELSE Last(sorted),
         sum |-> FoldLeft(LAMBDA a, b : a + b, 0, sorted),
         p50 |-> At(50), p90 |-> At(90), p95 |-> At(95), p99 |-> At(99)]
=============================================================================
