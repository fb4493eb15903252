---------------------------- MODULE SpectrumHistory ----------------------------
(* The history of spectrum observations and the tracks of peaks through it        *)
(* (spectrum_history.cpp).  Times are in hours, as slopes are; slopes, means and  *)
(* persistences are compared as fractions.  The quality scores an observation     *)
(* also carries, and what is derived from them alone, are left out.               *)
EXTENDS Interference

\* The addition as if observations came in order of time.
HistoryAppended(history, observation, capacity) ==
    LET all == Append(history, observation)
    IN  SubSeq(all, Max({1, Len(all) - Max({1, capacity}) + 1}), Len(all))

\* SpectrumHistory::add: the oldest observations make room, the new one included.
HistoryWith(history, observation, capacity) ==
    LET sorted == SortSeq(Append(history, observation), LAMBDA a, b : a.time < b.time)
        limit == Max({1, capacity})
    IN  SubSeq(sorted, Max({1, Len(sorted) - limit + 1}), Len(sorted))

MakeObservation(time, frame, plan, config, rules) ==
    LET analysis == AnalyzeSpectrum(frame, config)
    IN  [time |-> time, peaks |-> analysis.peaks, occupancy |-> analysis.occupancy,
         interference |-> ClassifyInterference(analysis, plan, <<>>, rules)]

-----------------------------------------------------------------------------
\* A track: its points [time, center, power] and the median of their centres.
NominalFrequency(points) ==
    LET centers == SortSeq([i \in DOMAIN points |-> points[i].center], LAMBDA a, b : a < b)
    IN  IF points = <<>> THEN 0 ELSE centers[Len(centers) \div 2 + 1]

ObservedRange(points) ==
    FoldLeft(LAMBDA r, p : MergeRanges(r, Between(p.center, p.center + 1)), NoRange, points)

FrequencyDrift(points) ==
    LET centers == {p.center : p \in Range(points)}
    IN  IF Len(points) < 2 THEN 0 ELSE Max(centers) - Min(centers)

TotalPower(points) == FoldLeft(LAMBDA sum, p : sum + p.power, 0, points)

\* The nearest track within the tolerance, the first of several; a nominal 0 counts as unset.
BestTrack(tracks, peak, tolerance) ==
    LET Reference(t) == IF t.nominal = 0 THEN Last(t.points).center ELSE t.nominal
        Delta(i) == Distance(Reference(tracks[i]), peak.center)
        near == {i \in DOMAIN tracks : Delta(i) <= tolerance}
    IN  {i \in near : \A j \in near : IF j < i THEN Delta(i) < Delta(j) ELSE Delta(i) <= Delta(j)}

\* slope_per_hour as numerator and denominator: least squares over [time, value], 0 when undetermined.
Slope(samples) ==
    LET n == Len(samples)
        X(i) == Max({0, samples[i].time - samples[1].time})
        Sum(Term(_)) == FoldLeft(LAMBDA sum, i : sum + Term(i), 0, [i \in 1..n |-> i])
        sx == Sum(X)
        sy == Sum(LAMBDA i : samples[i].value)
        den == n * Sum(LAMBDA i : X(i) * X(i)) - sx * sx
    IN  IF n < 2 \/ den = 0 THEN [num |-> 0, den |-> 1]
        ELSE [num |-> n * Sum(LAMBDA i : X(i) * samples[i].value) - sx * sy, den |-> den]

\* Values are multiples of 1/scale; missing of total observations have no point.
ClassifyTrend(slope, first, last, missing, total, scale) ==
    IF 20 * missing > 11 * total THEN "intermittent"
    ELSE IF first = 0 /\ last # 0 THEN "new_signal"
    ELSE IF first # 0 /\ last = 0 THEN "disappeared"
    ELSE IF slope.num > scale * slope.den \/ last - first > 3 * scale THEN "rising"
    ELSE IF slope.num < -scale * slope.den \/ last - first < -3 * scale THEN "falling"
    ELSE "stable"

FinalizeTrack(track, observations) ==
    LET points == SortSeq(track.points, LAMBDA a, b : a.time < b.time)
        slope == Slope([i \in DOMAIN points |-> [time |-> points[i].time, value |-> points[i].power]])
    IN  [points |-> points, nominal |-> NominalFrequency(points), observed |-> ObservedRange(points),
         drift |-> FrequencyDrift(points), slope |-> slope,
         trend |-> ClassifyTrend(slope, points[1].power, Last(points).power,
                                 observations - Len(points), observations, 1)]

\* Means are compared as fractions; all tracks are out of the same number of observations.
PowerAbove(t, u) == TotalPower(t.points) * Len(u.points) > TotalPower(u.points) * Len(t.points)

BuildTracks(history, tolerance) ==
    LET peaks == FlattenSeq([i \in DOMAIN history |->
                    [k \in DOMAIN history[i].peaks |->
                        [time |-> history[i].time, center |-> history[i].peaks[k].center, power |-> history[i].peaks[k].power]]])
        Put(tracks, p) ==
            LET match == BestTrack(tracks, p, tolerance)
            IN  IF match = {} THEN Append(tracks, [nominal |-> p.center, points |-> <<p>>])
                ELSE LET i == CHOOSE m \in match : TRUE
                         points == Append(tracks[i].points, p)
                     IN  [tracks EXCEPT ![i] = [nominal |-> NominalFrequency(points), points |-> points]]
        tracks == FoldLeft(Put, <<>>, peaks)
    IN  SortSeq([i \in DOMAIN tracks |-> FinalizeTrack(tracks[i], Len(history))], LAMBDA t, u :
            Len(t.points) > Len(u.points) \/ (Len(t.points) = Len(u.points) /\ PowerAbove(t, u)))

TracksInRange(tracks, range) ==
    SortSeq(SelectSeq(tracks, LAMBDA t : Overlaps(t.observed, range) \/ InRange(range, t.nominal)), LAMBDA t, u :
        Len(t.points) > Len(u.points) \/ (Len(t.points) = Len(u.points) /\ t.nominal < u.nominal))

TracksWithTrend(tracks, trend) ==
    LET Steepness(t) == Distance(t.slope.num, 0)
    IN  SortSeq(SelectSeq(tracks, LAMBDA t : t.trend = trend), LAMBDA t, u :
            \/ Steepness(t) * u.slope.den > Steepness(u) * t.slope.den
            \/ Steepness(t) * u.slope.den = Steepness(u) * t.slope.den /\ PowerAbove(t, u))

\* min_percent of the observations must hold a point of the track.
StrongestTracks(tracks, limit, min_percent, observations) ==
    LET persistent == SelectSeq(tracks, LAMBDA t : 100 * Len(t.points) >= min_percent * observations)
        sorted == SortSeq(persistent, LAMBDA t, u :
                    PowerAbove(t, u) \/ (~PowerAbove(u, t) /\ Len(t.points) > Len(u.points)))
    IN  SubSeq(sorted, 1, Min({limit, Len(sorted)}))

\* Ratios are in units of 1/60.
OccupancyTrend(history) ==
    LET Ratio(i) == IF history[i].occupancy.bins = 0 THEN 0
                    ELSE (60 * history[i].occupancy.occupied) \div history[i].occupancy.bins
        samples == [i \in DOMAIN history |-> [time |-> history[i].time, value |-> Ratio(i)]]
    IN  IF history = <<>> THEN "stable"
        ELSE ClassifyTrend(Slope(samples), Ratio(1), Ratio(Len(history)), 0, 1, 60)

Named(kind, tracks) == {[kind |-> kind, nominal |-> t.nominal] : t \in tracks}

\* The findings of analyze that concern tracks and occupancy.
AnalysisFindings(tracks, history, tolerance) ==
    Named("new", {t \in Range(tracks) : t.trend = "new_signal"})
    \cup Named("rapid", {t \in Range(tracks) : t.trend = "rising" /\ t.slope.num > 6 * t.slope.den})
    \cup Named("drift", {t \in Range(tracks) : t.drift > tolerance})
    \cup (IF OccupancyTrend(history) = "rising" THEN {[kind |-> "occupancy", nominal |-> 0]} ELSE {})

SummaryFindings(tracks, history, tolerance) ==
    AnalysisFindings(tracks, history, tolerance)
    \cup Named("persistent", Range(StrongestTracks(tracks, 3, 75, Len(history))))
    \cup Named("rising", Range(TracksWithTrend(tracks, "rising")))
    \cup (IF OccupancyTrend(history) # "stable" THEN {[kind |-> OccupancyTrend(history), nominal |-> 0]} ELSE {})
=============================================================================
