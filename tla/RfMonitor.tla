------------------------------ MODULE RfMonitor ------------------------------
(* A receiver site: a band plan that is edited, a store of calibration         *)
(* profiles, spectra that are classified against the plan of the moment and    *)
(* kept in a bounded history, and sweeps planned on request or to follow up    *)
(* the findings of an earlier classification.  All calls come from one thread. *)
EXTENDS SweepPlanner, SpectrumHistory, CalibrationStore

CONSTANTS
    InitialPlans,       \* the plans the program may start with
    Allocations,        \* allocations that may be added
    Profiles,           \* profiles that may be added
    MergedId,           \* the id given to merged profiles
    Lookups,            \* [frequency, time, receiver, antenna] asked of the store
    Frames, Times,      \* spectra and the times they are observed at
    Expected,           \* sequences of expected signals
    Detector, Rules,    \* PeakDetectorConfig and InterferenceRules
    Capacity,           \* SpectrumHistory::max_observations_
    Tolerance,          \* match_tolerance_hz
    Receivers, Requests, Resolution,    \* of sweeps
    MaxSteps            \* bound on the number of calls

ASSUME RastersEnd ==
    \A a \in Allocations : \A i \in DOMAIN a.rasters : ListingEnds(a.rasters[i])

VARIABLES
    plan,       \* BandPlan::allocations_
    store,      \* CalibrationStore::profiles_
    latest,     \* the profiles last given for each id, since it was removed
    history,    \* SpectrumHistory::observations_
    observed,   \* everything added to the history since it was cleared
    report,     \* the last classification and the plan it was made with
    sweep,      \* the last sweep, gone when the plan changes
    steps       \* calls so far

vars == <<plan, store, latest, history, observed, report, sweep, steps>>

NoReport == [kind |-> "none"]

NoSweep == [kind |-> "none"]

Init ==
    /\ plan \in InitialPlans
    /\ store = <<>>
    /\ latest = {}
    /\ history = <<>>
    /\ observed = <<>>
    /\ report = NoReport
    /\ sweep = NoSweep
    /\ steps = 0

Step == steps < MaxSteps /\ steps' = steps + 1

AddAllocation(a) ==
    /\ Step
    /\ plan' = WithAllocation(plan, a)
    /\ sweep' = NoSweep
    /\ UNCHANGED <<store, latest, history, observed, report>>

ClearPlan ==
    /\ Step
    /\ plan' = <<>>
    /\ sweep' = NoSweep
    /\ UNCHANGED <<store, latest, history, observed, report>>

-----------------------------------------------------------------------------
AddProfile(profile) ==
    /\ Step
    /\ store' = WithProfile(store, profile)
    /\ latest' = {p \in latest : p.id # profile.id} \cup {profile}
    /\ UNCHANGED <<plan, history, observed, report, sweep>>

RemoveProfile(id) ==
    /\ Step
    /\ store' = WithoutProfile(store, id)
    /\ latest' = {p \in latest : p.id # id}
    /\ UNCHANGED <<plan, history, observed, report, sweep>>

ClearStore ==
    /\ Step
    /\ store' = <<>>
    /\ latest' = {}
    /\ UNCHANGED <<plan, history, observed, report, sweep>>

-----------------------------------------------------------------------------
Observe(time, frame) ==
    LET observation == MakeObservation(time, frame, plan, Detector, Rules)
    IN  /\ Step
        /\ history' = HistoryWith(history, observation, Capacity)
        /\ observed' = Append(observed, observation)
        /\ UNCHANGED <<plan, store, latest, report, sweep>>

ClearHistory ==
    /\ Step
    /\ history' = <<>>
    /\ observed' = <<>>
    /\ UNCHANGED <<plan, store, latest, report, sweep>>

Classify(frame, expected) ==
    LET analysis == AnalyzeSpectrum(frame, Detector)
    IN  /\ Step
        /\ report' = [kind |-> "classified", plan |-> plan, analysis |-> analysis,
                      result |-> ClassifyInterference(analysis, plan, expected, Rules)]
        /\ sweep' = NoSweep
        /\ UNCHANGED <<plan, store, latest, history, observed>>

Sweep(receiver, requests) ==
    /\ Step
    /\ sweep' = [kind |-> "requested", receiver |-> receiver, requests |-> requests,
                 result |-> PlanSweep(plan, receiver, requests)]
    /\ UNCHANGED <<plan, store, latest, history, observed, report>>

Followup(receiver) ==
    /\ Step
    /\ report.kind = "classified"
    /\ sweep' = [kind |-> "followup", receiver |-> receiver,
                 result |-> PlanFollowup(plan, receiver, report.result.findings, Resolution)]
    /\ UNCHANGED <<plan, store, latest, history, observed, report>>

Next ==
    \/ \E a \in Allocations : AddAllocation(a)
    \/ ClearPlan
    \/ \E p \in Profiles : AddProfile(p)
    \/ \E i, j \in DOMAIN store : AddProfile(MergeProfiles(store[i], store[j], MergedId))
    \/ \E i \in DOMAIN store : RemoveProfile(store[i].id)
    \/ ClearStore
    \/ \E t \in Times, f \in Frames : Observe(t, f)
    \/ ClearHistory
    \/ \E f \in Frames, e \in Expected : Classify(f, e)
    \/ \E r \in Receivers, q \in Requests : Sweep(r, q)
    \/ \E r \in Receivers : Followup(r)

Spec == Init /\ [][Next]_vars

-----------------------------------------------------------------------------
Units(r) == r.lower..(r.upper - 1)

Swept(segments) == UNION {Units(s.range) : s \in Range(segments)}

SweptAtLeast(segments, priority) ==
    UNION {Units(s.range) : s \in {t \in Range(segments) : PriorityWeight[t.priority] >= PriorityWeight[priority]}}

ChannelsSound(a) ==
    LET channels == ChannelsFor(a)
        centers == {c.center : c \in Range(channels)}
    IN  /\ \A c \in Range(channels) :
            /\ a.range.lower <= Occupied(c.center, c.bandwidth).lower /\ InRange(a.range, c.center)
            /\ c.center <= Occupied(c.center, c.bandwidth).upper /\ Occupied(c.center, c.bandwidth).upper <= a.range.upper
            /\ \E r \in Range(a.rasters) : ChannelNumber(r, c.center) = {c.number}
        /\ \A i \in 2..Len(channels) : channels[i - 1].center <= channels[i].center
        /\ \A r \in Range(a.rasters) :
            r.spacing > 0 => \A n \in r.first..r.last : \A f \in CenterFrequency(r, n) :
                /\ ChannelNumber(r, f) = {n}
                /\ (a.range.lower + r.bandwidth <= f /\ f + r.bandwidth <= a.range.upper) => f \in centers

GuardsSound(a) ==
    LET guards == GuardRanges(a)
        guarded == UNION {Units(g) : g \in Range(guards)}
    IN  /\ guarded \subseteq Units(a.range)
        /\ a.guard > 0 /\ ~IsEmptyRange(a.range) => a.range.lower \in guarded
        /\ 2 * a.guard < Width(a.range) =>
            Cardinality(guarded) = 2 * a.guard /\ Center(a.range) \notin guarded

\* The shipped plan is examined once, as the start of a behaviour.
Examined == {a \in Range(plan) : steps = 0 \/ a \in Allocations}

IssuesMeaningful ==
    LET issues == PlanIssues(plan)
        Codes(a) == {i.code : i \in {j \in issues : j.name = a.name}}
    IN  /\ \A a \in Examined : {"band.raster.first_outside", "band.raster.last_outside"} \cap Codes(a) = {} =>
            \A r \in Range(a.rasters) : CenterFrequency(r, r.last) # {} =>
                \A n \in r.first..r.last : \A f \in CenterFrequency(r, n) : InRange(a.range, f)
        /\ Len(plan) = 2 => (\E i \in issues : i.code = "band.primary.overlap")
                <=> \E f \in Units(plan[1].range) : /\ InRange(plan[2].range, f)
                                                   /\ plan[1].service # plan[2].service
                                                   /\ {plan[1].status, plan[2].status} = {"primary"}

(* channels_for, nearest_channel, channel_number_for_frequency, guard_ranges,  *)
(* allocations_at: every channel of an allocation lies inside it, is numbered   *)
(* by the raster that gives its frequency and is its own nearest channel;       *)
(* rasters drop a channel only for lack of room; guard ranges lie inside, end   *)
(* at the edges and leave the middle; and the allocation that speaks for a      *)
(* frequency is one no other there outranks.  validate: a raster whose ends are *)
(* not complained of lies inside, unless its end is not representable, and of   *)
(* two allocations it reports exactly the clash of primaries.                   *)
PlanSound ==
    /\ \A a \in Examined : ChannelsSound(a) /\ (a \in Allocations => GuardsSound(a))
    /\ SortAllocations(plan) = plan
    /\ IssuesMeaningful
    /\ \A a \in Range(plan) : a \in Allocations =>
        \A f \in {a.range.lower, Center(a.range)} :
            /\ InRange(a.range, f) => \E b \in BestAllocation(plan, f) :
                    /\ InRange(b.range, f)
                    /\ AllocationRank[b.status] <= AllocationRank[a.status]
                    /\ b.status = a.status => Width(b.range) <= Width(a.range)
            /\ InRange(a.range, f) => InRange(CoveredRange(plan), f)
    /\ (Range(plan) \subseteq Allocations) =>
        \A a \in Range(plan) : \A c \in Range(ChannelsFor(a)) :
            \A n \in NearestChannel(plan, c.center, a.service) : n.center = c.center

SumDwell(segments) == FoldLeft(LAMBDA sum, s : sum + s.dwell, 0, segments)

(* plan_sweep: a sweep stays within what the receiver tunes, takes segments in  *)
(* order of priority, with centre and span of the range they cover; covers      *)
(* every request it can tune, or each of its known channels, and the guard      *)
(* ranges with high priority; no surveyed segment is wider than the usable      *)
(* span by a bin or more; and width and duration announced are exact.           *)
SweepSound ==
    sweep.kind # "none" =>
        LET segments == sweep.result.segments
            receiver == sweep.receiver
        IN  /\ \A s \in Range(segments) :
                /\ ~IsEmptyRange(s.range) /\ receiver.min <= s.range.lower /\ s.range.upper <= receiver.max
                /\ s.center = Center(s.range) /\ s.span = Width(s.range)
                /\ s.channel = {} => Width(s.range) < EffectiveSpan(receiver) + s.bin
            /\ \A i \in 2..Len(segments) :
                PriorityWeight[segments[i - 1].priority] >= PriorityWeight[segments[i].priority]
            /\ sweep.result.covered = Cardinality(Swept(segments))
            /\ sweep.result.duration = Len(segments) * receiver.settle + SumDwell(segments)
            /\ sweep.kind = "requested" => \A q \in Range(sweep.requests) :
                LET clipped == ReceiverClip(q.range, receiver)
                    allocations == {a \in Range(plan) : Overlaps(a.range, q.range) /\ \A s \in q.service : a.service = s}
                    channels == {c \in UNION {Range(ChannelsFor(a)) : a \in allocations} :
                                    Units(Occupied(c.center, c.bandwidth)) \cap Units(clipped) # {}}
                    wanted == SweptAtLeast(segments, q.priority)
                IN  /\ (~q.channels \/ channels = {}) /\ ~IsEmptyRange(q.range) => Units(clipped) \subseteq wanted
                    /\ q.channels => \A c \in channels :
                            Units(ReceiverClip(Occupied(c.center, c.bandwidth), receiver)) \subseteq wanted
                    /\ q.guards => \A a \in allocations : \A g \in Range(GuardRanges(a)) :
                            Units(g) \cap Units(clipped) \subseteq SweptAtLeast(segments, "high")

(* What a site is told to sweep follows from what its plan allows: the plan      *)
(* and the sweep requested under it keep the rules above, whichever plan is     *)
(* loaded and whatever was edited in it (BandPlan, SweepPlanner).               *)
PlanningSound == PlanSound /\ SweepSound

Matters(peak) ==
    \/ peak.power >= Rules.overload
    \/ peak.shape = "narrowband" /\ peak.prominence >= Rules.narrowband
    \/ \E a \in BestAllocation(report.plan, peak.center) :
        \/ \E g \in Range(GuardRanges(a)) : Units(g) \cap (peak.lower..peak.upper) # {}
        \/ PassiveAllocation(a) /\ Rules.flag_passive /\ peak.prominence >= 6

(* classify_interference, plan_interference_followup: whatever the plan says     *)
(* when the follow-up is made, each peak that overloads the receiver, is a        *)
(* strong carrier, or reached a guard range or a passive band of its allocation   *)
(* at the time of the classification is swept again where it can be tuned, with   *)
(* urgency when it overloads; and the worst severity is that of the first         *)
(* finding.                                                                        *)
FindingsFollowed ==
    report.kind = "classified" =>
        LET peaks == Range(report.analysis.peaks)
            found == report.result.findings
        IN  /\ \A peak \in peaks : Matters(peak) => \E f \in Range(found) : peak.lower..peak.upper \subseteq Units(f.range)
            /\ report.result.worst = IF found = <<>> THEN "info" ELSE found[1].severity
            /\ sweep.kind = "followup" => \A peak \in peaks : Matters(peak) =>
                    {f \in peak.lower..peak.upper : sweep.receiver.min <= f /\ f < sweep.receiver.max}
                        \subseteq SweptAtLeast(sweep.result.segments, IF peak.power >= Rules.overload THEN "urgent" ELSE "high")

(* SpectrumHistory::add, build_peak_tracks: observations arrive in any order;    *)
(* the history holds the newest of all of them by time, later calls last.  Every *)
(* peak in it is a point of exactly one track, tracks hold their points in order *)
(* of time, a single new track starts where no other is within the tolerance,    *)
(* and asking for the tracks of a range misses none that was seen there.  What   *)
(* is always there, or is stronger than it, is called persistent, and a rapid    *)
(* rise a rise.                                                                  *)
HistoryExact ==
    LET tracks == BuildTracks(history, Tolerance)
        sorted == SortSeq(observed, LAMBDA a, b : a.time < b.time)
        points == FoldLeft(LAMBDA all, t : all \o t.points, <<>>, tracks)
        Count(time, center) == Cardinality({i \in DOMAIN points : points[i].time = time /\ points[i].center = center})
    IN  /\ history = SubSeq(sorted, Max({1, Len(sorted) - Capacity + 1}), Len(sorted))
        /\ Len(points) = FoldLeft(LAMBDA n, o : n + Len(o.peaks), 0, history)
        /\ \A o \in Range(history) : \A peak \in Range(o.peaks) :
            Count(o.time, peak.center) = FoldLeft(LAMBDA n, other : n +
                IF other.time = o.time THEN Cardinality({k \in DOMAIN other.peaks : other.peaks[k].center = peak.center}) ELSE 0,
                0, history)
        /\ \A t \in Range(tracks) :
            /\ \A i \in 2..Len(t.points) : t.points[i - 1].time <= t.points[i].time
            /\ t.nominal \in {q.center : q \in Range(t.points)}
            /\ \A q \in Range(t.points) :
                /\ t \in Range(TracksInRange(tracks, Between(q.center, q.center + 1)))
                /\ Len(t.points) = 2 => Distance(t.points[1].center, t.points[2].center) <= Tolerance
            /\ (t.trend = "rising" /\ Len(history) = Len(t.points)) =>
                \E i, j \in DOMAIN t.points : i < j /\ t.points[i].power < t.points[j].power
            /\ Len(t.points) = Len(history) => \E u \in Range(tracks) :
                    /\ [kind |-> "persistent", nominal |-> u.nominal] \in SummaryFindings(tracks, history, Tolerance)
                    /\ ~PowerAbove(t, u)
            /\ [kind |-> "rapid", nominal |-> t.nominal] \in AnalysisFindings(tracks, history, Tolerance) =>
                    [kind |-> "rising", nominal |-> t.nominal] \in SummaryFindings(tracks, history, Tolerance)

CorrectionSound(p, f) ==
    LET gain == InterpolateCorrection(p, f).gain
        gains == {q.gain : q \in Range(p.points)}
    IN  p.points # <<>> =>
        /\ Min(gains) * gain.den <= gain.num /\ gain.num <= Max(gains) * gain.den
        /\ \A q \in Range(p.points) :
            (q.frequency = f /\ \A r \in Range(p.points) : r.frequency = f => r = q) => gain.num = q.gain * gain.den

MergeSound(base, overlay) ==
    LET merged == MergeProfiles(base, overlay, MergedId)
    IN  /\ \A l \in Lookups : ValidAt(merged, l.time) <=> ValidAt(base, l.time) /\ ValidAt(overlay, l.time)
        /\ \A l \in Lookups : InRange(base.range, l.frequency) \/ InRange(overlay.range, l.frequency)
                                => InRange(merged.range, l.frequency)
        /\ StoreIssues(<<overlay>>) = {} => \A q \in Range(overlay.points) :
                LET gain == InterpolateCorrection(merged, q.frequency).gain
                IN  StoreIssues(<<base>>) = {} => gain.num = q.gain * gain.den
        /\ StoreIssues(<<base>>) = {} /\ StoreIssues(<<overlay>>) = {} => StoreIssues(<<merged>>) = {}

\* A measurement of 0 dB is corrected by no more than the profiles that fit say.
CorrectedWithin(l, gains) ==
    LET slice == <<[frequency |-> l.frequency, power |-> Fraction(0, 1)]>>
        corrected == ApplyCalibration(store, slice, l.time, l.receiver, l.antenna)[1].power
    IN  Min(gains \cup {0}) * corrected.den <= corrected.num /\ corrected.num <= Max(gains \cup {0}) * corrected.den

(* CalibrationStore: the store holds the last profile given for each id, in      *)
(* an order that does not depend on the calls, so neither do the answers.  A     *)
(* lookup answers whenever some profile fits; an expired profile is taken only   *)
(* when every valid one that fits has too few points or a lesser source; a       *)
(* valid answer is exact at calibrated frequencies and otherwise between its     *)
(* neighbours; a merged profile is valid when both are and follows the overlay   *)
(* at its points; and profiles without issues stay so when merged.               *)
CalibrationSound ==
    LET profiles == Range(store)
        summary == StoreSummary(store)
    IN  /\ profiles = {[p EXCEPT !.points = SortedPoints(@)] : p \in latest}
        /\ Len(store) = Cardinality(latest)
        /\ \A i \in 2..Len(store) : store[i - 1].receiver <= store[i].receiver
        /\ \A l \in Lookups :
            LET found == Lookup(store, l.frequency, l.time, l.receiver, l.antenna)
                fit == {p \in profiles : Compatible(p, l.frequency, l.receiver, l.antenna)}
            IN  /\ fit = {} <=> found.profile = {}
                /\ \A p \in found.profile :
                    /\ found.health = "expired" => \A q \in fit : ValidAt(q, l.time) =>
                            Len(q.points) < 2 \/ SourceScore[q.source] < SourceScore[p.source]
                    /\ found.health = "valid" =>
                            \E q, r \in Range(p.points) : q.frequency <= l.frequency /\ l.frequency <= r.frequency
                    /\ CorrectionSound(p, l.frequency)
                    /\ CorrectedWithin(l, UNION {{q.gain : q \in Range(r.points)} : r \in fit})
                    /\ p.receiver # 0 /\ ValidAt(p, l.time) =>
                        \E c \in Range(TelemetryTable(store, p.receiver, l.time)) :
                            c.curve = [k \in DOMAIN p.points |-> <<p.points[k].frequency, p.points[k].gain>>]
                    /\ InRange(p.range, l.frequency) => InRange(summary.covered, l.frequency)
        /\ \A p, q \in profiles : MergeSound(p, q)
=============================================================================
