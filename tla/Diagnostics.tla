------------------------------ MODULE Diagnostics ------------------------------
(* One process's diagnostics: a snapshot under construction, the history of   *)
(* samples, two latency histograms of which one is merged into the other, an  *)
(* error budget, and the incident report built from all of them.  Who calls   *)
(* what when is up to the application; the calls are the actions.             *)
EXTENDS AlertRules

CONSTANTS
    Reading,        \* what samples may say: [identity, kind, value]
    Latency,        \* observed latencies
    SloInput,       \* budget events: [kind, weight]
    EdgeBounds, HubBounds,  \* bucket bounds of the two histograms
    Rules,          \* the alert rules, in order
    Objective,      \* [target, window] of the error budget
    MaxTime,        \* bound on the clock
    MaxInputs       \* bound on samples, latencies and budget events together

VARIABLES
    now,        \* the clock
    current,    \* MetricSnapshot under construction
    previous,   \* the snapshot before it
    history,    \* samples of earlier snapshots
    edge, hub,  \* LatencyHistogram
    slo,        \* events of the SloWindow
    report      \* IncidentReportBuilder::report_

vars == <<now, current, previous, history, edge, hub, slo, report>>

Comparators == {"<", "<=", ">", ">=", "==", "!="}

IsCondition(c) ==
    \/ c.kind = "missing"
    \/ c.kind = "stale" /\ c.max_age \in Nat
    \/ c.kind \in {"threshold", "rate_of_change"} /\ c.comparator \in Comparators /\ c.threshold \in Int
    \/ c.kind = "trend" /\ c.noise_floor \in Nat

IsRule(r) ==
    /\ r.enabled \in BOOLEAN /\ r.window \in Nat /\ r.min_duration \in Nat
    /\ r.severity \in {"info", "warning", "critical"}
    /\ IsCondition(r.condition)

ASSUME DiagnosticsAssumption ==
    /\ MaxTime \in Nat /\ MaxInputs \in Nat
    /\ \A r \in Reading : r.kind \in Kinds /\ r.value \in Int /\ KeyRank[r.identity] \in Nat
    /\ Latency \subseteq Nat
    /\ \A e \in SloInput : e.kind \in {"good", "bad", "ignored"} /\ e.weight \in Nat
    /\ Rules \in Seq(Range(Rules)) /\ \A i \in DOMAIN Rules : IsRule(Rules[i])
    /\ Objective.target \in Nat /\ Objective.window \in Nat
    /\ \A bounds \in {EdgeBounds, HubBounds} : IsFiniteSet(bounds) /\ bounds # {} /\ bounds \subseteq Nat

metricVars == <<current, previous, history>>

Inputs == Len(current.samples) + Len(history) + Len(edge.observations) + Len(hub.observations) + Len(slo)

Context == [current |-> current, history |-> history, now |-> now]

Init ==
    /\ now = 0
    /\ current = EmptySnapshot
    /\ previous = EmptySnapshot
    /\ history = <<>>
    /\ edge = MakeHistogram(EdgeBounds)
    /\ hub = MakeHistogram(HubBounds)
    /\ slo = <<>>
    /\ report = EmptyReport

\* A sample stamped with the builder's capture time, now or the instant before.
AddSample(r, time) ==
    /\ Inputs < MaxInputs
    /\ time \in 0..now
    /\ current' = SnapshotAdd(current, MetricSample(r.identity, r.kind, r.value, time))
    /\ UNCHANGED <<now, previous, history, edge, hub, slo, report>>

\* The finished snapshot goes to the history and the builder is reset.
Scrape ==
    /\ current.samples # <<>>
    /\ history' = history \o current.samples
    /\ previous' = current
    /\ current' = EmptySnapshot
    /\ UNCHANGED <<now, edge, hub, slo, report>>

ObserveLatency(value) ==
    /\ Inputs < MaxInputs
    /\ edge' = Observe(edge, [value |-> value, time |-> now])
    /\ UNCHANGED <<now, metricVars, hub, slo, report>>

\* The edge histogram is merged into the hub's, which has other bounds, and cleared.
MergeUp ==
    /\ edge.observations # <<>>
    /\ hub' = MergeHistogram(hub, edge)
    /\ edge' = ClearHistogram(edge)
    /\ UNCHANGED <<now, metricVars, slo, report>>

AddSloEvent(kind, weight) ==
    /\ Inputs < MaxInputs
    /\ slo' = Append(slo, SloEvent(now, kind, weight))
    /\ UNCHANGED <<now, metricVars, edge, hub, report>>

\* The budget's own events and those the merged latencies amount to.
BudgetEvents == MergeSloEvents(slo, SloFromHistogram(hub, Max(EdgeBounds)))

\* A report on what is wrong now, with the actions recommended for it.
OpenReport ==
    /\ report = EmptyReport
    /\ LET alerts == EvaluateRules(Rules, Context)
           statuses == <<EvaluateSlo(Objective, BudgetEvents, now)>>
           findings == FindingsFromAlerts(alerts) \o FindingsFromSlos(statuses)
                        \o FindingsFromDeltas(CompareMetricSnapshots(previous, current), 50)
           draft == [EmptyReport EXCEPT !.opened_at = now, !.updated_at = now, !.findings = findings,
                        !.alerts = alerts, !.slo_statuses = statuses,
                        !.rollups = RollupSeries(GroupMetricSeries(history \o current.samples))]
       IN  /\ findings # <<>>
           /\ report' = [draft EXCEPT !.actions = RecommendActions(draft)]
    /\ UNCHANGED <<now, metricVars, edge, hub, slo>>

Resolve ==
    /\ report # EmptyReport
    /\ report.status # "resolved"
    /\ report' = [report EXCEPT !.status = "resolved", !.resolved_at = <<now>>, !.updated_at = now]
    /\ UNCHANGED <<now, metricVars, edge, hub, slo>>

Tick ==
    /\ now < MaxTime
    /\ now' = now + 1
    /\ UNCHANGED <<metricVars, edge, hub, slo, report>>

Next ==
    \/ \E r \in Reading, t \in {now - 1, now} : AddSample(r, t)
    \/ Scrape
    \/ \E v \in Latency : ObserveLatency(v)
    \/ MergeUp
    \/ \E e \in SloInput : AddSloEvent(e.kind, e.weight)
    \/ OpenReport
    \/ Resolve
    \/ Tick

Spec == Init /\ [][Next]_vars

-----------------------------------------------------------------------------
(* LatencyHistogram, slo_from_latency_histogram: after any mix of            *)
(* observations, merges across different bounds and clearing, the buckets up *)
(* to each bound hold exactly the observations within it, which are the good *)
(* events of a budget with that threshold, and the percentiles are ordered   *)
(* between minimum and maximum.                                              *)
UpTo(h, bound) == FoldLeft(LAMBDA acc, b : IF b.bound <= bound THEN acc + b.count ELSE acc, 0, h.buckets)

LatencyAccounts ==
    \A h \in {edge, hub} :
        LET stats == HistogramStats(h)
        IN  /\ \A b \in Range(h.buckets) :
                LET verdict == Slice(SloFromHistogram(h, b.bound), 0, now)
                IN  /\ verdict.good = UpTo(h, b.bound)
                    /\ verdict.good + verdict.bad = stats.count
            /\ UpTo(h, Last(h.buckets).bound) + stats.overflow_count = stats.count
            /\ 100 * stats.min <= stats.p50 /\ stats.p50 <= stats.p90 /\ stats.p90 <= stats.p95
            /\ stats.p95 <= stats.p99 /\ stats.p99 <= 100 * stats.max

(* SloWindow::partition, evaluate: the slices of a range count every event   *)
(* of it exactly once, and a range whose budget is exhausted has a slice     *)
(* whose budget is.                                                          *)
PartitionExact ==
    LET events == BudgetEvents
        Exhausted(s) == EvaluateSloSlice(Objective, s, now).status = "exhausted"
    IN  \A start \in 0..now : \A end \in start..now :
            LET whole == Slice(events, start, end)
            IN  \A width \in 1..now :
                    LET slices == Partition(events, start, end, width)
                    IN  /\ \A f \in {"good", "bad", "ignored", "total_weight", "bad_weight"} :
                                SumFunctionOnSet([s \in slices |-> s[f]], slices) = whole[f]
                        /\ Exhausted(whole) => \E s \in slices : Exhausted(s)

(* group_metric_series, rollup_series, MetricSnapshot: the series of a       *)
(* snapshot hold each of its samples once, under its own identity; their     *)
(* totals are those of the summary and their latest value is what latest()   *)
(* finds.                                                                    *)
RollupsConserve ==
    LET rollups == RollupSeries(GroupMetricSeries(current.samples))
        summary == SnapshotSummary(current)
        Total(kind) == MapThenSumSet(LAMBDA r : IF r.kind = kind THEN r.sum ELSE 0, rollups)
    IN  /\ MapThenSumSet(LAMBDA r : r.sample_count, rollups) = summary.metric_count
        /\ Total("counter") = summary.total_counter_value
        /\ Total("bytes") = summary.total_byte_value
        /\ \A r \in rollups : r.latest = Newest(SamplesOf(current.samples, r.identity)).value
        /\ \A r \in rollups : /\ r.last_time <= summary.capture_time
                              /\ r.sample_count <= Len(FindByName(current, r.identity.name))

(* AlertRuleSet::evaluate: rules on one metric do not contradict each other. *)
(* When a metric is missing its threshold rule has no data, a rate that      *)
(* fires upwards is not called flat or falling when any change counts, and   *)
(* no rule on the values of a metric fires before the metric has been        *)
(* reported for the minimum duration.                                        *)
AlertsConsistent ==
    LET State(i) == EvaluateAlertRule(Rules[i], Context).state
        OnOneMetric(i, j) == /\ Rules[i].condition.metric_name = Rules[j].condition.metric_name
                             /\ Rules[i].condition.required_tags = Rules[j].condition.required_tags
                             /\ Rules[i].window = Rules[j].window
        Of(kinds) == {i \in DOMAIN Rules : Rules[i].condition.kind \in kinds}
        Upward(c) == c.comparator = ">" /\ c.threshold >= 0
    IN  /\ \A i \in Of({"missing"}), j \in Of({"threshold"}) :
            OnOneMetric(i, j) /\ Rules[j].enabled /\ State(i) = "active"
            => State(j) \in {"no_data", "suppressed"}
        /\ \A i \in Of({"rate_of_change"}), j \in Of({"trend"}) :
            /\ OnOneMetric(i, j) /\ Upward(Rules[i].condition) /\ Rules[j].condition.noise_floor = 0
            /\ State(i) = "active" /\ State(j) = "active"
            => Rules[j].condition.expected \notin {"flat", "falling"}
        /\ \A i \in Of({"threshold", "rate_of_change", "trend"}) :
            Rules[i].min_duration > 0 /\ State(i) = "active" =>
                \E a, b \in Range(SelectHistory(Rules[i].condition, Context, Rules[i].window)) :
                    b.time - a.time >= Rules[i].min_duration

(* evaluate_stale: a metric that was stale, or of which nothing was known,   *)
(* does not become fresh by the passing of time.                             *)
NeverFreshByItself ==
    [][now' # now =>
        \A i \in DOMAIN Rules :
            /\ Rules[i].condition.kind = "stale"
            /\ EvaluateAlertRule(Rules[i], Context).state \in {"active", "no_data"}
            => EvaluateAlertRule(Rules[i], Context').state \in {"active", "no_data", "suppressed"}]_vars

(* build_incident_timeline, top_incident_findings, recommend_incident_       *)
(* actions: the report's timeline is in order, severe events of an instant   *)
(* first, and shows every firing alert; the finding on top is the worst, an  *)
(* exhausted budget being critical; what is recommended fits the counts.     *)
ReportFaithful ==
    report # EmptyReport =>
        LET timeline == BuildTimeline(report)
            top == TopFindings(report, 1)[1]
            summary == Summarize(report)
        IN  /\ \A i \in 2..Len(timeline) :
                \/ timeline[i - 1].time < timeline[i].time
                \/ /\ timeline[i - 1].time = timeline[i].time
                   /\ LevelRank[timeline[i - 1].level] >= LevelRank[timeline[i].level]
            /\ \A a \in Range(FiringAlerts(report.alerts)) :
                \E e \in Range(AtOrAbove(timeline, IF a.severity = "info" THEN "info" ELSE "warning")) :
                    e.source = a.rule /\ e.time = a.evaluated_at
            /\ \A f \in Range(report.findings) : SeverityRank[f.severity] <= SeverityRank[top.severity]
            /\ summary.exhausted_slo_count > 0 => top.severity = "critical"
            /\ summary.duration = (IF report.status = "resolved" THEN report.resolved_at[1] - report.opened_at ELSE 0)
            /\ summary.open_action_count > 0

\* Rollups and histograms lose and double nothing: every sample is in exactly one
\* series, and a histogram, merged or not, counts every latency in one bucket.
MetricsConserve == RollupsConserve /\ LatencyAccounts
=============================================================================
