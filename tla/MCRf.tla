--------------------------------- MODULE MCRf ---------------------------------
(* RfMonitor with the shipped plan and small plans of four allocations, which    *)
(* overlap, have rasters that do not fit, or lie at the end of the frequencies.  *)
(* Each behaviour is about sweeps, under the shipped plan or while a plan        *)
(* changes, about profiles, about the history, or about findings and what        *)
(* follows from them under a plan that may have changed.                         *)
EXTENDS RfMonitor

VARIABLE focus

MCMaxFrequency == 2^30 - 1

MCInitialPlans == {<<>>, MonitoringPlan}

MCAllocations ==
    {Allocation(1, 100, 140, "ism", "shared", "simplex", 4, 8, <<Raster(104, 8, 8, 1, 5)>>),
     Allocation(2, 120, 160, "weather", "protected_passive", "receive_only", 5, 10,
                <<Raster(125, 10, 10, 0, 3), Raster(122, 6, 5, 10, 17)>>),
     Allocation(3, 110, 130, "amateur", "primary", "simplex", 12, 4, <<Raster(112, 5, 5, 1, 3), Raster(110, 0, 4, 1, 2)>>),
     Allocation(4, MCMaxFrequency - 20, MCMaxFrequency, "satellite", "primary", "receive_only", 3, 6,
                <<Raster(MCMaxFrequency - 16, 8, 6, 97, 100),
                  Raster(MCMaxFrequency - 16, 8, 6, MaxChannel - 2, MaxChannel)>>),
     Allocation(5, 125, 150, "radar", "primary", "transmit_only", 2, 5, <<>>)}

Point(f, gain, uncertainty) == [frequency |-> f, gain |-> gain, uncertainty |-> uncertainty]

MCProfiles ==
    {[id |-> 1, receiver |-> 1, antenna |-> 0, range |-> Between(100, 140), source |-> "laboratory", from |-> 0, until |-> 3,
      points |-> <<Point(100, 2, 4), Point(130, 8, 4)>>, tags |-> {"lab"}],
     [id |-> 1, receiver |-> 2, antenna |-> 0, range |-> Between(110, 120), source |-> "derived", from |-> 0, until |-> 0,
      points |-> <<Point(119, -3, 40), Point(110, 1, 2)>>, tags |-> {}],
     FlatProfile(2, 1, Between(100, 160), 5),
     FlatProfile(6, 1, Between(105, 105), 4),
     [id |-> 3, receiver |-> 1, antenna |-> 2, range |-> Between(90, 130), source |-> "imported", from |-> 2, until |-> 5,
      points |-> <<Point(105, 1, 30)>>, tags |-> {"field"}],
     [id |-> 4, receiver |-> 1, antenna |-> 1, range |-> Between(100, 130), source |-> "factory", from |-> 1, until |-> 2,
      points |-> <<Point(100, 6, 1), Point(115, 0, 20), Point(129, 3, 1)>>, tags |-> {}]}

MCLookups ==
    {[frequency |-> f, time |-> t, receiver |-> r, antenna |-> a] :
        f \in {100, 119, 135}, t \in {1, 3}, r \in {0, 1}, a \in {0, 1}}

Flat(n) == [i \in 1..6 |-> n]

MCFrames ==
    {[center |-> 130, bin_width |-> 10, power |-> <<-60, -90, -65, -90, -80, -90>>, floor |-> Flat(-92), rise |-> 0],
     [center |-> 132, bin_width |-> 10, power |-> <<-90, -90, -61, -90, -90, -90>>, floor |-> Flat(-92), rise |-> 0],
     [center |-> 130, bin_width |-> 10, power |-> <<-92, -92, -92, -40, -3, -30>>, floor |-> Flat(-92), rise |-> 0],
     [center |-> 126, bin_width |-> 10, power |-> <<-80, -79, -81, -80, -82, -80>>, floor |-> Flat(-92), rise |-> 9]}

MCExpected ==
    {<<>>, <<[occupied |-> {}, center |-> 125, bandwidth |-> 20, power |-> -75, tolerance |-> 5],
             [occupied |-> {Between(100, 110)}, center |-> 0, bandwidth |-> 0, power |-> -60, tolerance |-> 1]>>}

MCDetector == [min_snr |-> 6, edge_drop |-> 3, min_prominence |-> 8, min_width |-> 1, merge_gap |-> 10, max_peaks |-> 3]

MCRules ==
    [broadband_percent |-> 55, broadband_rise |-> 8, overload |-> -5, narrowband |-> 12,
     flag_passive |-> TRUE, intermod_tolerance |-> 1]

MCReceivers ==
    {[min |-> 90, max |-> 150, max_span |-> 40, usable |-> 80, min_step |-> 1, settle |-> 2],
     [min |-> 0, max |-> 1000, max_span |-> 30, usable |-> 5, min_step |-> 4, settle |-> 1],
     [min |-> Mhz(430), max |-> MCMaxFrequency - 1, max_span |-> Khz(750), usable |-> 80, min_step |-> Khz(5), settle |-> 1]}

Request(lower, upper, service, priority, guards, channels) ==
    [range |-> Between(lower, upper), service |-> service, resolution |-> 3, dwell |-> IF guards THEN 20 ELSE 30,
     priority |-> priority, intent |-> "survey", guards |-> guards, channels |-> channels]

MCRequests ==
    {<<Request(95, 165, {}, "normal", TRUE, TRUE)>>,
     <<Request(98, 143, {}, "low", TRUE, FALSE), Request(120, 155, {"weather"}, "urgent", FALSE, TRUE)>>,
     <<Request(150, 120, {}, "high", TRUE, TRUE), Request(MCMaxFrequency - 30, MCMaxFrequency, {}, "high", FALSE, TRUE)>>,
     <<Request(Mhz(433), Mhz(434), {"ism"}, "normal", TRUE, TRUE)>>}

MCInit ==
    /\ Init
    /\ focus \in {"shipped", "sweeps", "profiles", "history", "findings"}
    /\ focus = "shipped" <=> plan = MonitoringPlan

MCNext ==
    /\ Next
    /\ UNCHANGED focus
    /\ focus \notin {"sweeps", "findings"} => UNCHANGED plan
    /\ focus # "profiles" => UNCHANGED <<store, latest>>
    /\ focus # "history" => UNCHANGED <<history, observed>>
    /\ focus # "findings" => UNCHANGED report
    /\ focus \notin {"shipped", "sweeps"} => sweep'.kind # "requested"
    /\ focus = "shipped" => steps = 0 /\ sweep'.kind = "requested" /\ sweep'.requests[1].range.lower = Mhz(433)
    /\ focus = "sweeps" => sweep'.kind = "requested" \/ plan' # plan
    /\ focus = "findings" => \A i \in DOMAIN plan' : plan'[i].name \in {1, 2, 5}
    /\ focus \in {"sweeps", "history"} => steps < 3

MCSpec == MCInit /\ [][MCNext]_<<vars, focus>>
=============================================================================
