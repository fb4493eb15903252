------------------------------ MODULE AlertRules ------------------------------
(* What diagnostics conclude from metrics: alert rules (alert_rules.cpp),    *)
(* error budgets (slo_window.cpp), and the incident reports and timelines    *)
(* that alerts, budgets and metric changes become (incident_report.cpp,      *)
(* timeline.cpp), all under src/diagnostics.                                 *)
EXTENDS Metrics

-----------------------------------------------------------------------------
(* Rules are evaluated against the current snapshot and a history of         *)
(* samples.  A rule's condition carries the fields of its kind; rates are    *)
(* per unit of time and compared as fractions.                               *)

\* context: [current |-> snapshot, history |-> samples, now |-> time].

CompareAlertValue(left, comparator, right) ==
    CASE comparator = "<" -> left < right
      [] comparator = "<=" -> left <= right
      [] comparator = ">" -> left > right
      [] comparator = ">=" -> left >= right
      [] comparator = "==" -> left = right
      [] comparator = "!=" -> left # right

Concerns(condition, s) ==
    s.identity.name = condition.metric_name /\ TagsMatch(s.identity.tags, condition.required_tags)

SelectCurrentSamples(condition, context) ==
    LET samples == context.current.samples
    IN  Chosen(samples, {i \in DOMAIN samples : Concerns(condition, samples[i])})

\* Without the guard the subtraction wraps and the window starts after every sample.
WindowStartWrapping(now, window) == IF window = 0 THEN 0 ELSE (now - window) % 1000

WindowStart(now, window) == IF window = 0 \/ now < window THEN 0 ELSE now - window

\* History and current samples alike, up to the time of the evaluation.
SelectHistory(condition, context, window) ==
    LET start == WindowStart(context.now, window)
        samples == context.history \o context.current.samples
        selected == Chosen(samples, {i \in DOMAIN samples :
            Concerns(condition, samples[i]) /\ samples[i].time \in start..context.now})
    IN  Sorted(selected, Times(selected), Alike(selected))

Evaluation(rule, context, state) ==
    [rule |-> rule.id, severity |-> rule.severity, state |-> state, evaluated_at |-> context.now,
     active_since |-> 0, active_duration |-> 0, disabled |-> ~rule.enabled]

Firing(evaluation) == evaluation.state = "active"

\* Counts the time since the last sample as well.
FinishDurationGateToNow(evaluation, rule, history) ==
    IF Firing(evaluation) /\ rule.min_duration # 0 /\ history # <<>>
        /\ evaluation.evaluated_at - history[1].time < rule.min_duration
    THEN [evaluation EXCEPT !.state = "inactive"] ELSE evaluation

\* The gate measures how long the metric was reported within the window, from
\* the first (the oldest of equal ones) to the newest sample.
FinishDurationGate(evaluation, rule, history) ==
    LET duration == Newest(history).time - history[1].time
    IN  CASE ~Firing(evaluation) \/ rule.min_duration = 0 -> evaluation
          [] Firing(evaluation) /\ rule.min_duration # 0 /\ history = <<>> ->
                [evaluation EXCEPT !.state = "no_data"]
          [] OTHER ->
                [evaluation EXCEPT !.active_since = history[1].time, !.active_duration = duration,
                                   !.state = IF duration < rule.min_duration THEN "inactive" ELSE @]

MatchState(matched) == IF matched THEN "active" ELSE "inactive"

EvaluateThreshold(rule, context) ==
    LET c == rule.condition
        current == SelectCurrentSamples(c, context)
        matched == \E s \in Range(current) : CompareAlertValue(s.value, c.comparator, c.threshold)
    IN  IF current = <<>> THEN Evaluation(rule, context, "no_data")
        ELSE FinishDurationGate(Evaluation(rule, context, MatchState(matched)), rule,
                                SelectHistory(c, context, rule.window))

EvaluateMissing(rule, context) ==
    Evaluation(rule, context, MatchState(SelectCurrentSamples(rule.condition, context) = <<>>))

\* The current samples, or else the history within the window (max_age when the rule has none).
StaleCandidates(rule, context) ==
    LET c == rule.condition
        current == SelectCurrentSamples(c, context)
    IN  IF current # <<>> THEN current
        ELSE SelectHistory(c, context, IF rule.window = 0 THEN c.max_age ELSE rule.window)

EvaluateStale(rule, context) ==
    LET candidates == StaleCandidates(rule, context)
        age == Max({0, context.now - Newest(candidates).time})
    IN  IF candidates = <<>> THEN Evaluation(rule, context, "no_data")
        ELSE Evaluation(rule, context, MatchState(age > rule.condition.max_age))

EvaluateRate(rule, context) ==
    LET c == rule.condition
        history == SelectHistory(c, context, rule.window)
        elapsed == Newest(history).time - history[1].time
        change == Newest(history).value - history[1].value
    IN  IF Len(history) < 2 \/ elapsed = 0
        THEN Evaluation(rule, context, "no_data")
        ELSE FinishDurationGate(
                Evaluation(rule, context, MatchState(CompareAlertValue(change, c.comparator, c.threshold * elapsed))),
                rule, history)

EvaluateTrend(rule, context) ==
    LET c == rule.condition
        history == SelectHistory(c, context, rule.window)
    IN  IF Len(history) < 2 THEN Evaluation(rule, context, "no_data")
        ELSE FinishDurationGate(
                Evaluation(rule, context, MatchState(ClassifyMetricTrend(history, c.noise_floor) = c.expected)),
                rule, history)

RuleSuppressed(rule, now) == \E s \in rule.suppressions : s.start <= now /\ now <= s.end

EvaluateAlertRule(rule, context) ==
    IF ~rule.enabled THEN Evaluation(rule, context, "inactive")
    ELSE IF RuleSuppressed(rule, context.now) THEN Evaluation(rule, context, "suppressed")
    ELSE CASE rule.condition.kind = "threshold" -> EvaluateThreshold(rule, context)
           [] rule.condition.kind = "missing" -> EvaluateMissing(rule, context)
           [] rule.condition.kind = "stale" -> EvaluateStale(rule, context)
           [] rule.condition.kind = "rate_of_change" -> EvaluateRate(rule, context)
           [] rule.condition.kind = "trend" -> EvaluateTrend(rule, context)

\* AlertRuleSet::evaluate, over rules in the order they were added.
EvaluateRules(rules, context) == [i \in DOMAIN rules |-> EvaluateAlertRule(rules[i], context)]

FiringAlerts(evaluations) == Chosen(evaluations, {i \in DOMAIN evaluations : Firing(evaluations[i])})

-----------------------------------------------------------------------------
(* Error budgets.  A window is its objective, a target in thousandths and a  *)
(* length, and a sequence of good, bad and ignored events.  Budget ratios    *)
(* are kept as fractions.                                                    *)

SloEvent(time, kind, weight) ==
    [time |-> time, kind |-> kind, weight |-> IF kind = "ignored" THEN 0 ELSE weight]

\* Both ends belong to the slice.
Counted(events, start, end, kinds) ==
    {i \in DOMAIN events : events[i].time \in start..end /\ events[i].kind \in kinds}

\* Ignored events carry no weight.
Slice(events, start, end) ==
    LET Count(kind) == Cardinality(Counted(events, start, end, {kind}))
        weights == [i \in DOMAIN events |-> events[i].weight]
        Weigh(kinds) == SumFunctionOnSet(weights, Counted(events, start, end, kinds))
    IN  [start |-> start, end |-> end,
         good |-> Count("good"), bad |-> Count("bad"), ignored |-> Count("ignored"),
         total_weight |-> Weigh({"good", "bad"}), bad_weight |-> Weigh({"bad"})]

\* Each slice starts where the one before ended: events on the border count twice.
SliceStartsTouching(start, end, width) ==
    {c \in start..end : c = start \/ (c < end /\ (c - start) % width = 0)}

\* Slices are width + 1 instants long, the next one starting after the end of the last.
SliceStarts(start, end, width) == {c \in start..end : (c - start) % (width + 1) = 0}

Partition(events, start, end, width) ==
    IF width = 0 \/ end < start THEN {}
    ELSE {Slice(events, c, Min({c + width, end})) : c \in SliceStarts(start, end, width)}

AllowedError(target) == CASE target >= 1000 -> 0 [] target <= 0 -> 1000 [] OTHER -> 1000 - target

\* The share of the budget that is used, as numerator and denominator.
BudgetUsed(target, slice) ==
    LET allowed == AllowedError(target)
    IN  IF allowed = 0 THEN IF slice.bad_weight = 0 THEN <<0, 1>> ELSE <<1, 1>>
        ELSE <<slice.bad_weight * 1000, slice.total_weight * allowed>>

ClassifyBudget(used) ==
    CASE used[1] >= used[2] -> "exhausted"
      [] used[1] < used[2] /\ 4 * used[1] >= 3 * used[2] -> "warning"
      [] 4 * used[1] < 3 * used[2] -> "healthy"

EvaluateSloSlice(objective, slice, now) ==
    LET none == slice.total_weight = 0
        used == IF none THEN <<0, 1>> ELSE BudgetUsed(objective.target, slice)
    IN  [objective |-> objective, evaluated_at |-> now, slice |-> slice, used |-> used,
         status |-> IF none THEN "unknown" ELSE ClassifyBudget(used)]

SloStart(window, now) == IF window = 0 \/ now < window THEN 0 ELSE now - window

EvaluateSlo(objective, events, now) ==
    EvaluateSloSlice(objective, Slice(events, SloStart(objective.window, now), now), now)

LatencyBad(value, threshold) == value > threshold

SloFromHistogram(h, threshold) ==
    [i \in DOMAIN h.observations |->
        LET o == h.observations[i]
        IN  SloEvent(o.time, IF LatencyBad(o.value, threshold) THEN "bad" ELSE "good", 1)]

\* By time, and at one instant bad before good before ignored (the order of the names).
MergeSloEvents(left, right) ==
    LET rank == [bad |-> 1, good |-> 2, ignored |-> 3]
        all == left \o right
    IN  Sorted(all, Times(all), [i \in DOMAIN all |-> rank[all[i].kind]])

-----------------------------------------------------------------------------
(* Incident reports.  Texts are left out; a timeline event keeps its time,   *)
(* level and source.                                                         *)

SeverityRank == [low |-> 0, medium |-> 1, high |-> 2, critical |-> 3]

LevelRank == [debug |-> 0, info |-> 1, warning |-> 2, error |-> 3]

TimelineLevelFor(severity) ==
    CASE severity = "low" -> "info" [] severity = "medium" -> "warning" [] OTHER -> "error"

SeverityFromAlert(severity) == [info |-> "low", warning |-> "medium", critical |-> "high"][severity]

SeverityFromSlo(status) ==
    CASE status = "exhausted" -> "critical" [] status = "warning" -> "medium" [] OTHER -> "low"

Finding(kind, severity, time, source) ==
    [kind |-> kind, severity |-> severity, time |-> time, source |-> source]

EmptyReport ==
    [severity |-> "medium", status |-> "investigating", opened_at |-> 0, updated_at |-> 0,
     resolved_at |-> <<>>, impacts |-> 0, findings |-> <<>>, actions |-> <<>>, alerts |-> <<>>,
     slo_statuses |-> <<>>, rollups |-> {}, timeline |-> <<>>]

-----------------------------------------------------------------------------
(* Findings. *)
FindingsFromAlerts(alerts) ==
    LET firing == FiringAlerts(alerts)
    IN  [i \in DOMAIN firing |->
            Finding("alert", SeverityFromAlert(firing[i].severity), firing[i].evaluated_at, firing[i].rule)]

FindingsFromSlos(statuses) ==
    LET burning == Chosen(statuses, {i \in DOMAIN statuses : statuses[i].status \in {"warning", "exhausted"}})
    IN  [i \in DOMAIN burning |->
            Finding("slo_burn", SeverityFromSlo(burning[i].status), burning[i].evaluated_at, "slo")]

\* Changes of at least threshold percent; twice as much is high.
FindingsFromDeltas(deltas, percent) ==
    LET Reaches(d, p) == 100 * Abs(d.relative[1]) >= p * d.relative[2]
        large == SetToSeq({d \in deltas : d.both /\ Reaches(d, percent)})
    IN  [i \in DOMAIN large |->
            Finding("metric_anomaly", IF Reaches(large[i], 2 * percent) THEN "high" ELSE "medium", 0,
                    large[i].identity.name)]

\* Most severe first, then by time; a limit of 0 keeps them all.
TopFindings(report, limit) ==
    LET f == report.findings
        sorted == Sorted(f, [i \in DOMAIN f |-> -SeverityRank[f[i].severity]], Times(f))
    IN  IF limit # 0 /\ Len(sorted) > limit THEN SubSeq(sorted, 1, limit) ELSE sorted

-----------------------------------------------------------------------------
(* Summary, recommended actions and timeline. *)
Summarize(report) ==
    LET end == IF report.resolved_at # <<>> THEN report.resolved_at[1] ELSE report.updated_at
    IN  [duration |-> Max({0, end - report.opened_at}),
         impact_count |-> report.impacts, finding_count |-> Len(report.findings),
         action_count |-> Len(report.actions),
         open_action_count |-> Cardinality({i \in DOMAIN report.actions : ~report.actions[i].completed}),
         firing_alert_count |-> Len(FiringAlerts(report.alerts)),
         exhausted_slo_count |-> Cardinality({i \in DOMAIN report.slo_statuses :
                                                report.slo_statuses[i].status = "exhausted"})]

RecommendActions(report) ==
    LET summary == Summarize(report)
        needed == <<[action |-> "freeze", when |-> summary.exhausted_slo_count > 0],
                    [action |-> "inspect", when |-> summary.firing_alert_count > 0],
                    [action |-> "assign", when |-> summary.open_action_count = 0 /\ report.status # "resolved"],
                    [action |-> "confirm_impact", when |-> report.impacts = 0]>>
        chosen == Chosen(needed, {i \in DOMAIN needed : needed[i].when})
    IN  [i \in DOMAIN chosen |-> [action |-> chosen[i].action, completed |-> FALSE]]

TimelineEvent(time, level, source) == [time |-> time, level |-> level, source |-> source]

\* By time alone: the severe events of an instant may come last.
TimelineSortByTime(events) == Sorted(events, Times(events), Alike(events))

TimelineSort(events) ==
    Sorted(events, Times(events), [i \in DOMAIN events |-> -LevelRank[events[i].level]])

\* A firing alert appears for its finding and once more for itself.
BuildTimeline(report) ==
    LET firing == FiringAlerts(report.alerts)
        opened == <<TimelineEvent(report.opened_at, "info", "incident")>>
        resolved == IF report.resolved_at = <<>> THEN <<>>
                    ELSE <<TimelineEvent(report.resolved_at[1], "info", "incident")>>
        found == [i \in DOMAIN report.findings |->
                    LET f == report.findings[i] IN TimelineEvent(f.time, TimelineLevelFor(f.severity), f.source)]
        alerted == [i \in DOMAIN firing |->
                    TimelineEvent(firing[i].evaluated_at,
                                  TimelineLevelFor(SeverityFromAlert(firing[i].severity)), firing[i].rule)]
    IN  TimelineSort(report.timeline \o opened \o resolved \o found \o alerted)

AtOrAbove(timeline, level) ==
    Chosen(timeline, {i \in DOMAIN timeline : LevelRank[timeline[i].level] >= LevelRank[level]})
=============================================================================
