--------------------------- MODULE CalibrationStore ---------------------------
(* Calibration profiles and the correction they give at a frequency             *)
(* (calibration_store.cpp).  A store is the sequence profiles_; a profile is    *)
(* [id, receiver, antenna, range, source, from, until, points, tags] and a      *)
(* point [frequency, gain, uncertainty]; noise and phase are corrected like     *)
(* gain and left out.  Gains are whole dB, uncertainties quarters of a dB;      *)
(* results are fractions [num, den].  Ids, receivers and antennas are ranks in  *)
(* lexicographic order, 0 the empty string.                                     *)
EXTENDS BandPlan

ValidAt(p, time) == p.from <= time /\ (p.until = 0 \/ time < p.until)

ReceiverMatches(p, receiver) == receiver = 0 \/ p.receiver = receiver

AntennaMatches(p, antenna) == antenna = 0 \/ p.antenna = 0 \/ p.antenna = antenna

SortedPoints(points) == SortSeq(points, LAMBDA a, b : a.frequency < b.frequency)

Fraction(num, den) == [num |-> num, den |-> den]

AddTo(fraction, n) == Fraction(fraction.num + n * fraction.den, fraction.den)

\* Between two points gain is linear; uncertainty is the larger of the two and grows towards them.
Interpolate(left, right, f) ==
    LET span == right.frequency - left.frequency
        position == f - left.frequency
    IN  IF span <= 0 THEN [gain |-> Fraction(left.gain, 1), uncertainty |-> Fraction(left.uncertainty, 1)]
        ELSE [gain |-> Fraction(left.gain * span + (right.gain - left.gain) * position, span),
              uncertainty |-> Fraction(Max({left.uncertainty, right.uncertainty}) * 2 * span
                                            + Distance(2 * position, span), 2 * span)]

\* 99 dB without points, 3 dB more from a single point, 2 dB more outside the points.
InterpolateCorrection(p, f) ==
    LET points == SortedPoints(p.points)
        n == Len(points)
        Outside(correction) == [correction EXCEPT !.uncertainty = AddTo(@, 8)]
    IN  CASE n = 0 -> [gain |-> Fraction(0, 1), uncertainty |-> Fraction(396, 1)]
          [] n = 1 -> [gain |-> Fraction(points[1].gain, 1), uncertainty |-> Fraction(points[1].uncertainty + 12, 1)]
          [] n > 1 /\ f <= points[1].frequency -> Outside(Interpolate(points[1], points[2], points[1].frequency))
          [] n > 1 /\ f > points[n].frequency -> Outside(Interpolate(points[n - 1], points[n], points[n].frequency))
          [] OTHER -> LET i == Min({k \in 2..n : f <= points[k].frequency})
                      IN  Interpolate(points[i - 1], points[i], f)

SourceScore == [laboratory |-> 10, factory |-> 5, field |-> 0, derived |-> -5, imported |-> -8]

Compatible(p, f, receiver, antenna) ==
    /\ ReceiverMatches(p, receiver)
    /\ AntennaMatches(p, antenna)
    /\ InRange(p.range, f) \/ Width(p.range) = 0

\* profile_score of a compatible profile; four points less per dB of uncertainty, 25 at most.
ProfileScore(p, f, time, antenna) ==
    LET uncertainty == InterpolateCorrection(p, f).uncertainty
        base == 100 - (IF ValidAt(p, time) THEN 0 ELSE 35)
                    - (IF Len(p.points) < 2 THEN 15 ELSE 0)
                    + SourceScore[p.source]
                    + (IF p.antenna # 0 /\ p.antenna = antenna THEN 4 ELSE 0)
    IN  AddTo(Fraction(-Min({25 * uncertainty.den, uncertainty.num}), uncertainty.den), base)

Health(p, f, time) ==
    LET frequencies == {q.frequency : q \in Range(p.points)}
    IN  CASE ~ValidAt(p, time) -> "expired"
          [] ValidAt(p, time) /\ ~InRange(p.range, f) -> "incompatible"
          [] ValidAt(p, time) /\ InRange(p.range, f) /\ Len(p.points) < 2 -> "sparse"
          [] OTHER -> IF f < Min(frequencies) \/ f > Max(frequencies) THEN "extrapolated" ELSE "valid"

\* The first profile with the highest score.
Lookup(store, f, time, receiver, antenna) ==
    LET able == {i \in DOMAIN store : Compatible(store[i], f, receiver, antenna)}
        Score(i) == ProfileScore(store[i], f, time, antenna)
        Above(a, b) == a.num * b.den > b.num * a.den
        best == CHOOSE i \in able : \A j \in able : IF j < i THEN Above(Score(i), Score(j)) ELSE ~Above(Score(j), Score(i))
    IN  IF able = {} THEN [profile |-> {}, health |-> "incompatible"]
        ELSE [profile |-> {store[best]}, health |-> Health(store[best], f, time),
              correction |-> InterpolateCorrection(store[best], f)]

-----------------------------------------------------------------------------
WithProfile(store, profile) ==
    LET new == [profile EXCEPT !.points = SortedPoints(@)]
        present == {i \in DOMAIN store : store[i].id = profile.id}
        put == IF present = {} THEN Append(store, new) ELSE [store EXCEPT ![Min(present)] = new]
    IN  SortSeq(put, LAMBDA a, b :
            \/ a.receiver < b.receiver
            \/ /\ a.receiver = b.receiver
               /\ a.range.lower < b.range.lower \/ (a.range.lower = b.range.lower /\ a.id < b.id))

WithoutProfile(store, id) == SelectSeq(store, LAMBDA p : p.id # id)

FlatProfile(id, receiver, range, gain) ==
    LET Point(f) == [frequency |-> f, gain |-> gain, uncertainty |-> 2]
    IN  [id |-> id, receiver |-> receiver, antenna |-> 0, range |-> range, source |-> "field",
         from |-> 0, until |-> 0, tags |-> {},
         points |-> IF IsEmptyRange(range) THEN <<Point(range.lower)>> ELSE <<Point(range.lower), Point(range.upper - 1)>>]

\* The merge as if the smaller end of validity counted, though 0 stands for none.
MergeProfilesUntilLeast(base, overlay, id) ==
    LET Put(points, q) ==
            LET same == {i \in DOMAIN points : points[i].frequency = q.frequency}
            IN  IF same = {} THEN Append(points, q) ELSE [points EXCEPT ![Min(same)] = q]
    IN  [base EXCEPT !.id = id, !.range = MergeRanges(@, overlay.range), !.from = Max({@, overlay.from}),
                     !.until = Min({@, overlay.until}), !.points = SortedPoints(FoldLeft(Put, @, overlay.points)),
                     !.tags = @ \cup overlay.tags]

\* Points of the overlay replace those of the base at the same frequency.
MergeProfiles(base, overlay, id) ==
    LET Put(points, q) ==
            LET same == {i \in DOMAIN points : points[i].frequency = q.frequency}
            IN  IF same = {} THEN Append(points, q) ELSE [points EXCEPT ![Min(same)] = q]
        until == CASE base.until = 0 -> overlay.until
                   [] overlay.until = 0 -> base.until
                   [] OTHER -> Min({base.until, overlay.until})
    IN  [base EXCEPT !.id = id, !.range = MergeRanges(@, overlay.range), !.from = Max({@, overlay.from}),
                     !.until = until, !.points = SortedPoints(FoldLeft(Put, @, overlay.points)),
                     !.tags = @ \cup overlay.tags]

StoreIssues(store) ==
    LET Code(holds, code) == IF holds THEN {code} ELSE {}
        Of(i) == LET p == store[i]
                 IN  Code(p.id = 0, "id.empty")
                     \cup Code(p.id # 0 /\ \E j \in 1..(i - 1) : store[j].id = p.id, "id.duplicate")
                     \cup Code(p.receiver = 0, "receiver.empty")
                     \cup Code(IsEmptyRange(p.range), "range.empty")
                     \cup Code(p.points = <<>>, "points.none")
                     \cup Code(\E q \in Range(p.points) : ~InRange(p.range, q.frequency), "point.outside")
                     \cup Code(\E k \in 2..Len(p.points) : p.points[k].frequency <= p.points[k - 1].frequency, "points.order")
                     \cup Code(\E q \in Range(p.points) : q.uncertainty < 0, "uncertainty.negative")
    IN  UNION {Of(i) : i \in DOMAIN store}

\* apply_calibration: a sequence of [frequency, power], the powers as fractions.
ApplyCalibration(store, slice, time, receiver, antenna) ==
    [k \in DOMAIN slice |->
        LET found == Lookup(store, slice[k].frequency, time, receiver, antenna)
        IN  IF found.profile = {} THEN slice[k]
            ELSE [slice[k] EXCEPT !.power = Fraction(@.num * found.correction.gain.den + found.correction.gain.num * @.den,
                                                     @.den * found.correction.gain.den)]]

\* make_telemetry_calibration_table: the curves of a receiver's profiles valid now.
TelemetryTable(store, receiver, time) ==
    LET valid == SelectSeq(store, LAMBDA p : p.receiver = receiver /\ ValidAt(p, time))
    IN  [i \in DOMAIN valid |->
            [channel |-> i - 1, from |-> valid[i].from, until |-> valid[i].until,
             curve |-> [k \in DOMAIN valid[i].points |->
                            <<SortedPoints(valid[i].points)[k].frequency, SortedPoints(valid[i].points)[k].gain>>]]]

StoreSummary(store) ==
    [profiles |-> Len(store), points |-> FoldLeft(LAMBDA sum, p : sum + Len(p.points), 0, store),
     covered |-> FoldLeft(LAMBDA r, p : MergeRanges(r, p.range), NoRange, store),
     receivers |-> {p.receiver : p \in Range(store)} \ {0}, antennas |-> {p.antenna : p \in Range(store)} \ {0}]
=============================================================================
