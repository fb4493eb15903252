------------------------------- MODULE BandPlan -------------------------------
(* Frequency ranges (types.hpp, types.cpp) and the band plan (band_plan.cpp):   *)
(* allocations with their channel rasters and guard ranges, and the plan the    *)
(* program ships.  A plan is the sequence BandPlan::allocations_.  A name is    *)
(* its rank in lexicographic order, 0 if empty; notes and labels are left out.  *)
(* An optional value is a set of at most one element.                           *)
EXTENDS Integers, Sequences, FiniteSets, SequencesExt, FiniteSetsExt

CONSTANTS
    MaxFrequency,       \* the largest frequency: 2^64 - 1
    MaxChannel          \* the largest channel number: 2^32 - 1

Wrapped(f) == f % (MaxFrequency + 1)

SafeAdd(a, b) == IF b > MaxFrequency - a THEN MaxFrequency ELSE a + b

Between(lower, upper) == [lower |-> lower, upper |-> upper]

NoRange == Between(0, 0)

IsEmptyRange(r) == r.upper <= r.lower

Width(r) == IF r.upper > r.lower THEN r.upper - r.lower ELSE 0

Center(r) == r.lower + Width(r) \div 2

InRange(r, f) == r.lower <= f /\ f < r.upper

Overlaps(r, s) == r.lower < s.upper /\ s.lower < r.upper

Intersect(r, s) ==
    LET common == Between(Max({r.lower, s.lower}), Min({r.upper, s.upper}))
    IN  IF IsEmptyRange(common) THEN {} ELSE {common}

MergeRanges(r, s) ==
    IF IsEmptyRange(r) THEN s
    ELSE IF IsEmptyRange(s) THEN r
    ELSE Between(Min({r.lower, s.lower}), Max({r.upper, s.upper}))

Distance(f, g) == IF f > g THEN f - g ELSE g - f

\* The range a carrier of the given bandwidth occupies around its centre.
Occupied(center, bandwidth) ==
    LET half == bandwidth \div 2
    IN  Between(IF center > half THEN center - half ELSE 0, Wrapped(center + half + (bandwidth % 2)))

-----------------------------------------------------------------------------
Raster(first_center, spacing, bandwidth, first, last) ==
    [first_center |-> first_center, spacing |-> spacing, bandwidth |-> bandwidth, first |-> first, last |-> last]

Allocation(name, lower, upper, service, status, duplex, guard, width, rasters) ==
    [name |-> name, range |-> Between(lower, upper), service |-> service, status |-> status,
     duplex |-> duplex, guard |-> guard, width |-> width, rasters |-> rasters]

SortAllocations(allocations) ==
    SortSeq(allocations, LAMBDA a, b :
        \/ a.range.lower < b.range.lower
        \/ /\ a.range.lower = b.range.lower
           /\ \/ a.range.upper < b.range.upper
              \/ a.range.upper = b.range.upper /\ a.name < b.name)

WithAllocation(plan, a) == SortAllocations(Append(plan, a))

\* BandPlanQuery: range and service are optional.
AllocationAllowed(a, query) ==
    /\ query.secondary \/ a.status # "secondary"
    /\ query.experimental \/ a.status # "experimental"
    /\ \A s \in query.service : a.service = s
    /\ \A r \in query.range : Overlaps(a.range, r)

QueryPlan(plan, query) == SelectSeq(plan, LAMBDA a : AllocationAllowed(a, query))

AllocationRank ==
    [primary |-> 0, shared |-> 1, protected_passive |-> 2, secondary |-> 3, experimental |-> 4]

AllocationsAt(plan, f) ==
    SortSeq(SelectSeq(plan, LAMBDA a : InRange(a.range, f)), LAMBDA a, b :
        \/ AllocationRank[a.status] < AllocationRank[b.status]
        \/ AllocationRank[a.status] = AllocationRank[b.status] /\ Width(a.range) < Width(b.range))

BestAllocation(plan, f) ==
    LET matches == AllocationsAt(plan, f)
    IN  IF matches = <<>> THEN {} ELSE {matches[1]}

-----------------------------------------------------------------------------
CenterFrequency(raster, channel) ==
    LET offset == channel - raster.first
    IN  IF \/ raster.spacing = 0
           \/ channel < raster.first
           \/ channel > raster.last
           \/ offset > (MaxFrequency - raster.first_center) \div raster.spacing
        THEN {} ELSE {raster.first_center + offset * raster.spacing}

ChannelNumber(raster, f) ==
    IF raster.spacing = 0 \/ f < raster.first_center THEN {}
    ELSE LET nearest == (f - raster.first_center + raster.spacing \div 2) \div raster.spacing
         IN  IF nearest > MaxChannel - raster.first \/ raster.first + nearest > raster.last
             THEN {} ELSE {raster.first + nearest}

\* The test as if only the centre had to lie inside.
CenterInside(channel, a) == InRange(a.range, channel.center)

ChannelInside(channel, a) ==
    LET occupied == Occupied(channel.center, channel.bandwidth)
    IN  /\ InRange(a.range, channel.center)
        /\ a.range.lower <= occupied.lower
        /\ occupied.upper <= a.range.upper

\* channels_for() leaves its loop at the largest number only behind a channel that has
\* a centre; without one there the counter wraps to 0 and the loop never ends.
ListingEnds(raster) ==
    raster.spacing = 0 \/ raster.last < MaxChannel \/ CenterFrequency(raster, MaxChannel) # {}

\* the channels of a raster whose listing ends
RasterChannels(raster) ==
    LET numbers == SelectSeq([i \in 1..(raster.last - raster.first + 1) |-> raster.first + i - 1],
                             LAMBDA n : CenterFrequency(raster, n) # {})
    IN  [i \in DOMAIN numbers |->
            [number |-> numbers[i], bandwidth |-> raster.bandwidth,
             center |-> CHOOSE c \in CenterFrequency(raster, numbers[i]) : TRUE]]

ChannelsFor(a) ==
    LET all == FlattenSeq([i \in DOMAIN a.rasters |-> RasterChannels(a.rasters[i])])
    IN  SortSeq(SelectSeq(all, LAMBDA c : ChannelInside(c, a)), LAMBDA c, d :
            c.center < d.center \/ (c.center = d.center /\ c.number < d.number))

NearestChannel(plan, f, service) ==
    LET served == SelectSeq(plan, LAMBDA a : service = "unknown" \/ a.service = service)
        channels == FlattenSeq([i \in DOMAIN served |-> ChannelsFor(served[i])])
        Delta(i) == Distance(channels[i].center, f)
    IN  IF channels = <<>> THEN {}
        ELSE {channels[CHOOSE i \in DOMAIN channels : \A j \in DOMAIN channels :
                            IF j < i THEN Delta(i) < Delta(j) ELSE Delta(i) <= Delta(j)]}

GuardRanges(a) ==
    LET lower == Between(a.range.lower, Min({Wrapped(a.range.lower + a.guard), a.range.upper}))
        upper == Between(IF a.range.upper > a.guard THEN a.range.upper - a.guard ELSE a.range.lower, a.range.upper)
    IN  IF a.guard = 0 \/ IsEmptyRange(a.range) THEN <<>>
        ELSE (IF IsEmptyRange(lower) THEN <<>> ELSE <<lower>>)
             \o (IF IsEmptyRange(upper) \/ upper.lower <= a.range.lower THEN <<>> ELSE <<upper>>)

\* validate: the codes of the issues found; neighbours in the plan are compared.
PlanIssues(plan) ==
    LET Code(holds, code) == IF holds THEN {code} ELSE {}
        OfRaster(a, r) ==
            Code(r.spacing = 0, "band.raster.spacing_zero")
            \cup Code(r.first > r.last, "band.raster.channel_order")
            \cup Code(\E c \in CenterFrequency(r, r.first) : ~InRange(a.range, c), "band.raster.first_outside")
            \cup Code(\E c \in CenterFrequency(r, r.last) : ~InRange(a.range, c), "band.raster.last_outside")
        OfAllocation(a) ==
            Code(a.name = 0, "band.name.empty")
            \cup Code(IsEmptyRange(a.range), "band.range.empty")
            \cup Code(a.width > Width(a.range) /\ ~IsEmptyRange(a.range), "band.channel.too_wide")
            \cup UNION {OfRaster(a, a.rasters[i]) : i \in DOMAIN a.rasters}
        Clash(a, b) == /\ Overlaps(a.range, b.range)
                       /\ a.status = "primary" /\ b.status = "primary"
                       /\ a.service # b.service
    IN  UNION {{[name |-> plan[i].name, code |-> c] : c \in OfAllocation(plan[i])} : i \in DOMAIN plan}
        \cup {[name |-> plan[i].name, code |-> "band.primary.overlap"] :
                i \in {j \in 2..Len(plan) : Clash(plan[j - 1], plan[j])}}

CoveredRange(plan) == FoldLeft(LAMBDA r, a : MergeRanges(r, a.range), NoRange, plan)

-----------------------------------------------------------------------------
(* The plan that make_monitoring_band_plan returns, in units of 500 Hz.        *)
Khz(n) == 2 * n
Mhz(n) == 2000 * n
Ghz(n) == 2000000 * n

VhfUhfAllocations == <<
    Allocation(1, Mhz(87) + Khz(500), Mhz(108), "broadcast", "primary", "receive_only", Khz(100), Khz(200),
        <<Raster(Mhz(87) + Khz(600), Khz(200), Khz(180), 1, 102)>>),
    Allocation(2, Mhz(118), Mhz(137), "aeronautical", "primary", "simplex", Khz(25), Khz(25),
        <<Raster(Mhz(118), Khz(25), Khz(8), 0, 759)>>),
    Allocation(3, Mhz(162) + Khz(400), Mhz(162) + Khz(560), "weather", "primary", "receive_only", Khz(5), Khz(25),
        <<Raster(Mhz(162) + Khz(400), Khz(25), Khz(16), 1, 7)>>),
    Allocation(4, Mhz(156), Mhz(163), "maritime", "primary", "simplex", Khz(25), Khz(25),
        <<Raster(Mhz(156), Khz(25), Khz(16), 1, 280)>>),
    Allocation(5, Mhz(150), Mhz(174), "public_safety", "shared", "simplex", Khz(12), Khz(12),
        <<Raster(Mhz(150), Khz(12) + 1, Khz(11), 0, 1919)>>),
    Allocation(6, Mhz(420), Mhz(470), "land_mobile", "shared", "simplex", Khz(12), Khz(12),
        <<Raster(Mhz(420), Khz(12) + 1, Khz(11), 0, 4000)>>),
    Allocation(7, Mhz(144), Mhz(148), "amateur", "primary", "simplex", Khz(20), Khz(12),
        <<Raster(Mhz(144), Khz(12) + 1, Khz(11), 0, 319)>>),
    Allocation(8, Mhz(430), Mhz(440), "amateur", "primary", "simplex", Khz(25), Khz(12),
        <<Raster(Mhz(430), Khz(25), Khz(12), 0, 399)>>) >>

CellularAndIsmAllocations == <<
    Allocation(9, Mhz(433) + Khz(50), Mhz(434) + Khz(790), "ism", "shared", "simplex", Khz(25), Khz(25),
        <<Raster(Mhz(433) + Khz(75), Khz(25), Khz(20), 0, 68)>>),
    Allocation(10, Mhz(863), Mhz(870), "telemetry", "shared", "simplex", Khz(100), Khz(125),
        <<Raster(Mhz(863) + Khz(100), Khz(100), Khz(125), 0, 68), Raster(Mhz(868) + Khz(100), Khz(200), Khz(125), 70, 79)>>),
    Allocation(11, Mhz(925), Mhz(960), "cellular", "primary", "fdd_downlink", Khz(100), Khz(200),
        <<Raster(Mhz(925) + Khz(100), Khz(200), Khz(180), 1, 174)>>),
    Allocation(12, Mhz(880), Mhz(915), "cellular", "primary", "fdd_uplink", Khz(100), Khz(200),
        <<Raster(Mhz(880) + Khz(100), Khz(200), Khz(180), 1, 174)>>),
    Allocation(13, Mhz(1805), Mhz(1880), "cellular", "primary", "fdd_downlink", Khz(100), Mhz(5),
        <<Raster(Mhz(1805), Khz(100), Mhz(5), 0, 749)>>),
    Allocation(14, Mhz(2400), Mhz(2483) + Khz(500), "ism", "shared", "tdd", Khz(100), Mhz(20),
        <<Raster(Mhz(2412), Mhz(5), Mhz(20), 1, 14)>>),
    Allocation(15, Mhz(5725), Mhz(5875), "ism", "shared", "tdd", Mhz(1), Mhz(20),
        <<Raster(Mhz(5745), Mhz(20), Mhz(20), 0, 6)>>) >>

NavigationSatelliteRadarAllocations == <<
    Allocation(16, Mhz(1559), Mhz(1610), "navigation", "protected_passive", "receive_only", Khz(500), Mhz(2),
        <<Raster(Mhz(1575) + Khz(420), Mhz(1), Mhz(2), 0, 34)>>),
    Allocation(17, Mhz(1089), Mhz(1091), "aeronautical", "primary", "receive_only", Khz(50), Mhz(1),
        <<Raster(Mhz(1090), Mhz(1), Mhz(1), 0, 0)>>),
    Allocation(18, Mhz(2200), Mhz(2290), "satellite", "primary", "receive_only", Khz(500), Mhz(1),
        <<Raster(Mhz(2200), Khz(500), Mhz(1), 0, 179)>>),
    Allocation(19, Ghz(1), Mhz(1400), "radar", "primary", "transmit_only", Mhz(1), Mhz(5),
        <<Raster(Ghz(1), Mhz(5), Mhz(5), 0, 79)>>),
    Allocation(20, Mhz(1400), Mhz(1427), "weather", "protected_passive", "receive_only", Khz(500), Mhz(1),
        <<Raster(Mhz(1400), Mhz(1), Mhz(1), 0, 26)>>) >>

MonitoringPlan ==
    FoldLeft(WithAllocation, <<>>,
        VhfUhfAllocations \o CellularAndIsmAllocations \o NavigationSatelliteRadarAllocations)
=============================================================================
