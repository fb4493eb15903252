----------------------------- MODULE MCDiagnostics -----------------------------
(* Diagnostics with one counter reported by two sites, rules of all five    *)
(* kinds on the counter, and histograms with different bounds.  In each       *)
(* behaviour either samples or latencies and budget events come in; reports   *)
(* draw on both, from the second tick on, and what comes in after a report    *)
(* does not matter to it, nor what comes after its resolution.  One site reports late or on time, the other on     *)
(* time and once; an ignored event comes first.                               *)
EXTENDS Diagnostics

VARIABLE focus

MCTagKeys == <<"site">>

At(site) == [k \in {"site"} |-> site]

MCKeyRank == [id \in {Identity(<<"drops">>, At(site)) : site \in {"a", "b"}} |-> IF id.tags = At("a") THEN 1 ELSE 2]

MCReading == {[identity |-> Identity(<<"drops">>, At("a")), kind |-> "counter", value |-> 1],
              [identity |-> Identity(<<"drops">>, At("a")), kind |-> "counter", value |-> 2],
              [identity |-> Identity(<<"drops">>, At("b")), kind |-> "counter", value |-> 5]}

MCSloInput == {[kind |-> "good", weight |-> 1], [kind |-> "bad", weight |-> 2], [kind |-> "ignored", weight |-> 1]}

OnDrops(fields) == fields @@ [metric_name |-> <<"drops">>, required_tags |-> At("a")]

MCRule(id, severity, condition, duration, window) ==
    [id |-> id, severity |-> severity, condition |-> OnDrops(condition), min_duration |-> duration,
     window |-> window, enabled |-> TRUE, suppressions |-> {}]

MCRules ==
    <<MCRule("high", "critical", [kind |-> "threshold", comparator |-> ">=", threshold |-> 2], 1, 2),
      MCRule("gone", "warning", [kind |-> "missing"], 0, 2),
      [MCRule("quiet", "info", [kind |-> "stale", max_age |-> 1], 0, 2)
        EXCEPT !.suppressions = {[start |-> 3, end |-> 3]}],
      MCRule("climbing", "warning", [kind |-> "rate_of_change", comparator |-> ">", threshold |-> 0], 1, 2),
      MCRule("steady", "info", [kind |-> "trend", expected |-> "flat", noise_floor |-> 0], 0, 2),
      [MCRule("off", "critical", [kind |-> "missing"], 0, 2) EXCEPT !.enabled = FALSE]>>

MCObjective == [target |-> 500, window |-> 2]

MCInit == Init /\ focus \in {"samples", "events"}

MCNext ==
    /\ Next
    /\ UNCHANGED focus
    /\ focus = "samples" => UNCHANGED <<edge, hub, slo>>
    /\ focus = "events" => UNCHANGED metricVars
    /\ Len(current'.samples) > Len(current.samples) /\ Last(current'.samples).identity.tags = At("b") =>
        /\ Last(current'.samples).time = now
        /\ \A s \in Range(history \o current.samples) : s.identity.tags # At("b")
    /\ slo' # slo /\ Last(slo').kind = "ignored" => Inputs = 0
    /\ report' # report => now >= 2
    /\ report # EmptyReport => UNCHANGED <<metricVars, edge, hub, slo>>
    /\ report.status = "resolved" => UNCHANGED now

MCSpec == MCInit /\ [][MCNext]_<<vars, focus>>
=============================================================================
