---------------------------- MODULE SweepPlanner ----------------------------
(* The sweep planner (sweep_planner.cpp): requests become segments along the  *)
(* known channels or across the whole range, guard ranges are added, and      *)
(* neighbouring segments of one priority are joined.  A receiver's usable     *)
(* fraction is in percent.  Reasons and names of plans are left out.          *)
EXTENDS BandPlan

ReceiverClip(r, receiver) == Between(Max({r.lower, receiver.min}), Min({r.upper, receiver.max}))

EffectiveSpan(receiver) ==
    LET percent == Max({10, Min({100, receiver.usable})})
    IN  Max({(receiver.max_span * percent) \div 100, receiver.min_step})

AlignUp(value, step) ==
    IF step = 0 \/ value % step = 0 THEN value ELSE Wrapped(value + step - (value % step))

BinWidth(resolution, receiver) == Max({resolution, receiver.min_step})

\* allocation and channel are optional.
MakeSegment(range, bin, dwell, priority, intent) ==
    [range |-> range, center |-> Center(range), span |-> Width(range), bin |-> bin, dwell |-> dwell,
     priority |-> priority, intent |-> intent, allocation |-> {}, channel |-> {}]

\* The end of the piece that starts at the cursor.
PieceEnd(cursor, range, span, bin) ==
    LET upper == Min({range.upper, SafeAdd(cursor, span)})
    IN  IF upper < range.upper THEN Min({AlignUp(upper, bin), range.upper}) ELSE upper

RECURSIVE PiecesFrom(_, _, _, _)
PiecesFrom(cursor, range, span, bin) ==
    IF cursor >= range.upper THEN <<>>
    ELSE LET end == PieceEnd(cursor, range, span, bin)
         IN  <<Between(cursor, end)>> \o (IF end <= cursor THEN <<>> ELSE PiecesFrom(end, range, span, bin))

SegmentRange(range, receiver, request, priority) ==
    LET clipped == ReceiverClip(range, receiver)
        bin == BinWidth(request.resolution, receiver)
        pieces == PiecesFrom(clipped.lower, clipped, EffectiveSpan(receiver), bin)
    IN  [i \in DOMAIN pieces |-> MakeSegment(pieces[i], bin, request.dwell, priority, request.intent)]

ChannelSegments(plan, receiver, request) ==
    LET allocations == QueryPlan(plan, [range |-> {request.range}, service |-> request.service,
                                        secondary |-> TRUE, experimental |-> TRUE])
        OccupiedBy(c) == Occupied(c.center, c.bandwidth)
        Wanted(a) == SelectSeq(ChannelsFor(a), LAMBDA c :
                        /\ Overlaps(OccupiedBy(c), request.range)
                        /\ ~IsEmptyRange(ReceiverClip(OccupiedBy(c), receiver)))
        Segments(a) == [i \in DOMAIN Wanted(a) |->
                        [MakeSegment(ReceiverClip(OccupiedBy(Wanted(a)[i]), receiver), BinWidth(request.resolution, receiver),
                                     request.dwell, request.priority, request.intent)
                            EXCEPT !.allocation = {a.name}, !.channel = {Wanted(a)[i].number}]]
    IN  FlattenSeq([i \in DOMAIN allocations |-> Segments(allocations[i])])

GuardSegments(plan, receiver, request) ==
    LET clipped == ReceiverClip(request.range, receiver)
        allocations == QueryPlan(plan, [range |-> {clipped}, service |-> request.service,
                                        secondary |-> TRUE, experimental |-> TRUE])
        Clipped(a) == LET guards == GuardRanges(a)
                      IN  SelectSeq([i \in DOMAIN guards |-> Between(Max({guards[i].lower, clipped.lower}),
                                                                     Min({guards[i].upper, clipped.upper}))],
                                    LAMBDA r : ~IsEmptyRange(r))
        Segments(a) == FlattenSeq([i \in DOMAIN Clipped(a) |->
                            LET pieces == SegmentRange(Clipped(a)[i], receiver, request, "high")
                            IN  [k \in DOMAIN pieces |-> [pieces[k] EXCEPT !.allocation = {a.name}]]])
    IN  IF request.guards THEN FlattenSeq([i \in DOMAIN allocations |-> Segments(allocations[i])]) ELSE <<>>

\* Empty requests and requests outside the tuning range only leave a warning.
RequestSegments(plan, receiver, request) ==
    LET clipped == ReceiverClip(request.range, receiver)
        known == IF request.channels THEN ChannelSegments(plan, receiver, request) ELSE <<>>
        survey == SegmentRange(clipped, receiver, request, request.priority)
    IN  IF IsEmptyRange(request.range) \/ IsEmptyRange(clipped) THEN <<>>
        ELSE SelectSeq(IF known = <<>> THEN survey ELSE known, LAMBDA s : ~IsEmptyRange(s.range))
             \o GuardSegments(plan, receiver, request)

-----------------------------------------------------------------------------
PriorityWeight == [low |-> 1, normal |-> 2, high |-> 4, urgent |-> 8]

CanMerge(left, right, receiver) ==
    /\ left.priority = right.priority
    /\ left.intent = right.intent
    /\ \A a \in left.allocation, b \in right.allocation : a = b
    /\ left.range.upper < right.range.lower => right.range.lower - left.range.upper <= left.bin * 2
    /\ Width(MergeRanges(left.range, right.range)) <= EffectiveSpan(receiver)

MergedSegment(left, right) ==
    LET range == MergeRanges(left.range, right.range)
    IN  [left EXCEPT !.range = range, !.center = Center(range), !.span = Width(range),
                     !.dwell = Max({left.dwell, right.dwell})]

\* Total width of the segments' union, in one pass over them by lower end.
OccupiedWidth(segments) ==
    LET byLower == SortSeq(SelectSeq(segments, LAMBDA s : ~IsEmptyRange(s.range)),
                           LAMBDA s, t : s.range.lower < t.range.lower)
        Join(acc, s) ==
            IF IsEmptyRange(acc.current) THEN [acc EXCEPT !.current = s.range]
            ELSE IF Overlaps(acc.current, s.range) \/ acc.current.upper = s.range.lower
                 THEN [acc EXCEPT !.current = MergeRanges(@, s.range)]
            ELSE [total |-> SafeAdd(acc.total, Width(acc.current)), current |-> s.range]
        end == FoldLeft(Join, [total |-> 0, current |-> NoRange], byLower)
    IN  SafeAdd(end.total, Width(end.current))

OptimizeSweep(segments, receiver) ==
    LET sorted == SortSeq(segments, LAMBDA s, t :
                        \/ PriorityWeight[s.priority] > PriorityWeight[t.priority]
                        \/ s.priority = t.priority /\ s.range.lower < t.range.lower)
        Put(merged, s) ==
            IF IsEmptyRange(s.range) THEN merged
            ELSE IF merged # <<>> /\ CanMerge(Last(merged), s, receiver)
                 THEN [merged EXCEPT ![Len(merged)] = MergedSegment(@, s)]
            ELSE Append(merged, s)
        final == FoldLeft(Put, <<>>, sorted)
    IN  [segments |-> final,
         duration |-> FoldLeft(LAMBDA d, s : SafeAdd(d, SafeAdd(s.dwell, receiver.settle)), 0, final),
         covered |-> OccupiedWidth(final)]

PlanSweep(plan, receiver, requests) ==
    OptimizeSweep(FlattenSeq([i \in DOMAIN requests |-> RequestSegments(plan, receiver, requests[i])]), receiver)

\* The request as if a finding were only looked for on the channels of its allocation.
FollowupKnownChannels(finding, resolution) ==
    [intent |-> "interference_hunt", resolution |-> resolution, range |-> finding.range,
     service |-> {a.service : a \in finding.allocation}, dwell |-> 50,
     priority |-> IF finding.severity = "critical" THEN "urgent" ELSE "high", guards |-> FALSE, channels |-> TRUE]

\* plan_interference_followup: one request per finding, widened when its allocation is known.
FollowupRequest(finding, resolution) ==
    LET pad == Max({Width(finding.range), resolution * 10})
        expanded == Between(IF finding.range.lower > pad THEN finding.range.lower - pad ELSE 0,
                            SafeAdd(finding.range.upper, pad))
    IN  [intent |-> "interference_hunt", resolution |-> resolution,
         range |-> IF finding.allocation = {} THEN finding.range ELSE expanded,
         service |-> {a.service : a \in finding.allocation},
         dwell |-> IF finding.severity = "critical" THEN 100 ELSE 50,
         priority |-> IF finding.severity = "critical" THEN "urgent" ELSE "high",
         guards |-> TRUE, channels |-> FALSE]

PlanFollowup(plan, receiver, findings, resolution) ==
    PlanSweep(plan, receiver, [i \in DOMAIN findings |-> FollowupRequest(findings[i], resolution)])
=============================================================================
