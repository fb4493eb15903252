----------------------------- MODULE Interference -----------------------------
(* From a spectrum frame to peaks (types.cpp, spectral_analysis.cpp) and from    *)
(* peaks to interference findings (interference.cpp).  Powers are whole dB.      *)
(* What the noise estimator computes, the floor of every bin and how far the     *)
(* floor lies above the median, is part of the frame.  Confidences are in units  *)
(* of 1/600.  Summaries, evidence and integrated power are left out.             *)
EXTENDS BandPlan

\* A frame: [center, bin_width, power, floor, rise].
BinFrequency(frame, i) ==
    LET total == frame.bin_width * Len(frame.power)
        lower == IF frame.center >= total \div 2 THEN frame.center - (total \div 2) ELSE 0
    IN  lower + (i - 1) * frame.bin_width + (frame.bin_width \div 2)

LocalMaximum(power, i) ==
    LET n == Len(power)
    IN  /\ i > 1 => power[i] >= power[i - 1]
        /\ i < n => power[i] >= power[i + 1]
        /\ i = 1 \/ i = n \/ power[i] > power[i - 1] \/ power[i] > power[i + 1]

\* expand_left and expand_right: the bins around a maximum that stay up.
PeakBins(frame, center, config) ==
    LET p == frame.power
        threshold == Max({frame.floor[center] + config.min_snr, p[center] - config.edge_drop})
        Falls(i) == p[i] < threshold /\ p[i] < frame.floor[i] + config.min_snr
    IN  [lower |-> Min({j \in 1..center : \A i \in j..(center - 1) : ~Falls(i)}),
         upper |-> Max({j \in center..Len(p) : \A i \in (center + 1)..j : ~Falls(i)})]

PeakShape(frame, bins, center) ==
    LET p == frame.power
        width == bins.upper - bins.lower + 1
        maxima == {i \in bins.lower..bins.upper : LocalMaximum(p, i) /\ p[i] > frame.floor[i] + 3}
    IN  IF width <= 2 THEN "narrowband"
        ELSE IF width >= 12 THEN IF 2 * p[center] - p[bins.lower] - p[bins.upper] < 6 THEN "flat_top" ELSE "wideband"
        ELSE IF Cardinality(maxima) >= 3 THEN "multi_tone"
        ELSE IF Distance(p[bins.lower], p[bins.upper]) > 6 THEN "shoulder"
        ELSE "narrowband"

MakePeak(frame, center, config) ==
    LET bins == PeakBins(frame, center, config)
    IN  [bins |-> bins, center |-> BinFrequency(frame, center),
         lower |-> BinFrequency(frame, bins.lower), upper |-> BinFrequency(frame, bins.upper),
         power |-> frame.power[center], prominence |-> frame.power[center] - frame.floor[center],
         shape |-> PeakShape(frame, bins, center)]

MergeClosePeaks(peaks, gap) ==
    LET sorted == SortSeq(peaks, LAMBDA a, b : a.lower < b.lower)
        Joined(last, peak) ==
            [(IF peak.power > last.power
              THEN [last EXCEPT !.center = peak.center, !.power = peak.power, !.prominence = peak.prominence]
              ELSE last)
                EXCEPT !.bins.upper = Max({@, peak.bins.upper}), !.upper = Max({@, peak.upper}), !.shape = "wideband"]
        Put(merged, peak) ==
            IF merged = <<>> \/ (peak.lower > Last(merged).upper /\ peak.lower - Last(merged).upper > gap)
            THEN Append(merged, peak)
            ELSE [merged EXCEPT ![Len(merged)] = Joined(@, peak)]
    IN  IF gap <= 0 THEN peaks ELSE FoldLeft(Put, <<>>, sorted)

DetectPeaks(frame, config) ==
    LET Prominence(i) == frame.power[i] - frame.floor[i]
        maxima == SelectSeq([i \in DOMAIN frame.power |-> i], LAMBDA i :
                        /\ LocalMaximum(frame.power, i)
                        /\ Prominence(i) >= config.min_prominence
                        /\ Prominence(i) >= config.min_snr)
        found == SelectSeq([k \in DOMAIN maxima |-> MakePeak(frame, maxima[k], config)],
                           LAMBDA peak : peak.bins.upper - peak.bins.lower + 1 >= config.min_width)
        strongest == SortSeq(MergeClosePeaks(found, config.merge_gap), LAMBDA a, b :
                        a.prominence > b.prominence \/ (a.prominence = b.prominence /\ a.power > b.power))
    IN  SortSeq(SubSeq(strongest, 1, Min({Len(strongest), config.max_peaks})), LAMBDA a, b : a.center < b.center)

Occupancy(frame, margin) ==
    [bins |-> Len(frame.power),
     occupied |-> Cardinality({i \in DOMAIN frame.power : frame.power[i] - frame.floor[i] >= margin}),
     margins |-> FoldLeft(LAMBDA sum, i : sum + frame.power[i] - frame.floor[i], 0, [i \in DOMAIN frame.power |-> i])]

AnalyzeSpectrum(frame, config) ==
    [frame |-> frame, peaks |-> DetectPeaks(frame, config), occupancy |-> Occupancy(frame, config.min_snr)]

-----------------------------------------------------------------------------
PeakRange(peak) == Between(peak.lower, peak.upper + 1)

\* occupied is optional.
ExpectedRange(signal) ==
    IF signal.occupied # {} THEN CHOOSE r \in signal.occupied : TRUE ELSE Occupied(signal.center, signal.bandwidth)

SeverityScore == [info |-> 0, low |-> 1, medium |-> 2, high |-> 3, critical |-> 4]

SeverityFromExcess(excess) ==
    IF excess >= 30 THEN "critical"
    ELSE IF excess >= 20 THEN "high"
    ELSE IF excess >= 10 THEN "medium"
    ELSE IF excess >= 3 THEN "low"
    ELSE "info"

ClampConfidence(c) == Max({0, Min({600, c})})

PeakFinding(kind, severity, peak, allocation) ==
    [kind |-> kind, severity |-> severity, range |-> PeakRange(peak), allocation |-> allocation,
     confidence |-> ClampConfidence(210 + 15 * peak.prominence)]

InGuard(a, peak) == \E guard \in Range(GuardRanges(a)) : Overlaps(PeakRange(peak), guard)

AllocationForPeak(plan, peak) ==
    LET center == BestAllocation(plan, peak.center)
        lower == BestAllocation(plan, peak.lower)
    IN  IF center # {} THEN center
        ELSE IF lower # {} THEN lower
        ELSE BestAllocation(plan, peak.upper)

PassiveAllocation(a) ==
    \/ a.status = "protected_passive"
    \/ a.duplex = "receive_only"
    \/ a.service \in {"navigation", "weather"}

ClassifyBroadband(analysis, rules) ==
    LET o == analysis.occupancy
        rise == analysis.frame.rise
        excess == Max({rise, o.margins \div o.bins})
        frame == analysis.frame
    IN  IF \/ o.bins = 0
           \/ 100 * o.occupied < rules.broadband_percent * o.bins /\ rise < rules.broadband_rise
        THEN <<>>
        ELSE <<[kind |-> "broadband_noise", severity |-> SeverityFromExcess(excess), allocation |-> {},
                range |-> Between(BinFrequency(frame, 1), BinFrequency(frame, o.bins) + frame.bin_width),
                confidence |-> ClampConfidence((600 * o.occupied) \div o.bins + 24 * Max({0, rise}))]>>

\* What one peak gives; an overload ends its classification.
PeakFindings(plan, peak, rules) ==
    LET allocation == AllocationForPeak(plan, peak)
        When(holds, kind, severity) == IF holds THEN <<PeakFinding(kind, severity, peak, allocation)>> ELSE <<>>
    IN  IF peak.power >= rules.overload THEN When(TRUE, "overload", "critical")
        ELSE When(peak.shape = "narrowband" /\ peak.prominence >= rules.narrowband, "narrowband_carrier",
                  SeverityFromExcess(peak.prominence))
             \o When(\E a \in allocation : InGuard(a, peak), "adjacent_channel", "medium")
             \o When(rules.flag_passive /\ peak.prominence >= 6 /\ \E a \in allocation : PassiveAllocation(a),
                     "co_channel", "high")

ClassifyPeaks(plan, peaks, rules) == FlattenSeq([i \in DOMAIN peaks |-> PeakFindings(plan, peaks[i], rules)])

\* An expected signal whose power is off by more than its tolerance.
ClassifyExpected(peaks, expected) ==
    LET Excess(peak, signal) == Distance(peak.power, signal.power) - signal.tolerance
        Of(peak) ==
            LET off == SelectSeq(expected, LAMBDA s : Overlaps(PeakRange(peak), ExpectedRange(s)) /\ Excess(peak, s) > 0)
            IN  [k \in DOMAIN off |->
                    [PeakFinding("co_channel", SeverityFromExcess(Excess(peak, off[k])), peak, {})
                        EXCEPT !.confidence = ClampConfidence(300 + 20 * Excess(peak, off[k]))]]
    IN  FlattenSeq([i \in DOMAIN peaks |-> Of(peaks[i])])

Intermodulation(peaks, rules) ==
    LET n == Len(peaks)
        Products(f, g) == <<2 * f - g, 2 * g - f, f + g, Distance(f, g)>>
        Hits(f, g, product) ==
            IF product <= 0 THEN <<>>
            ELSE SelectSeq(peaks, LAMBDA p : /\ Distance(p.center, product) <= rules.intermod_tolerance
                                             /\ p.center \notin {f, g})
        Pairs == SelectSeq([k \in 1..(n * n) |-> <<1 + (k - 1) \div n, 1 + ((k - 1) % n)>>], LAMBDA p : p[1] < p[2])
        OfPair(f, g) == FlattenSeq([k \in 1..4 |-> Hits(f, g, Products(f, g)[k])])
        all == FlattenSeq([k \in DOMAIN Pairs |-> OfPair(peaks[Pairs[k][1]].center, peaks[Pairs[k][2]].center)])
    IN  IF n < 3 THEN <<>>
        ELSE [k \in DOMAIN all |-> [PeakFinding("intermodulation", "medium", all[k], {})
                                        EXCEPT !.confidence = ClampConfidence(330 + 12 * all[k].prominence)]]

ClassifyInterference(analysis, plan, expected, rules) ==
    LET found == ClassifyBroadband(analysis, rules)
                 \o ClassifyPeaks(plan, analysis.peaks, rules)
                 \o ClassifyExpected(analysis.peaks, expected)
                 \o Intermodulation(analysis.peaks, rules)
        Worse(a, b) == IF SeverityScore[a] >= SeverityScore[b] THEN a ELSE b
    IN  [worst |-> FoldLeft(LAMBDA w, f : Worse(w, f.severity), "info", found),
         findings |-> SortSeq(found, LAMBDA a, b :
                        \/ SeverityScore[a.severity] > SeverityScore[b.severity]
                        \/ a.severity = b.severity /\ a.confidence > b.confidence)]
=============================================================================
