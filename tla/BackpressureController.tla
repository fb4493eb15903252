----------------------- MODULE BackpressureController -----------------------
(***************************************************************************)
(* aethon::control::BackpressureController                                 *)
(* (src/control/backpressure_controller.cpp): the load last reported is    *)
(* classified into a pressure level, by which each packet is accepted,     *)
(* delayed, downsampled or rejected, with a delay window and a downsample  *)
(* factor per device.                                                      *)
(*                                                                         *)
(* Abstracted: thresholds are hundredths of the capacity; times of samples *)
(* and the counters other than delayed_packets are only rendered.          *)
(* delayed_packets counts to the cap that delay_for() puts on it.          *)
(***************************************************************************)
EXTENDS Integers

CONSTANTS
    QueueCapacity, PayloadCapacity, MinDelay, PressureMaxDelay, MaxDownsample,  \* BackpressureConfig
    ProtectControl,                                                             \* BackpressureConfig
    WatchRatio, ThrottleRatio, ShedRatio, StopRatio     \* BackpressureThresholds, in hundredths

VARIABLES
    sample,     \* sample_ : [packets, bytes, inflight, stalled]
    level,      \* level_
    pressure    \* devices_ : device -> [delayed, factor, next_admit]

pressureVars == <<sample, level, pressure>>

-----------------------------------------------------------------------------
NoSample == [packets |-> 0, bytes |-> 0, inflight |-> 0, stalled |-> 0]

Rank == [nominal |-> 0, watch |-> 1, throttle |-> 2, shed |-> 3, stop |-> 4]

MaxLevel(a, b) == IF Rank[a] >= Rank[b] THEN a ELSE b

\* pressure_ratio(used, capacity) >= ratio
Reaches(used, capacity, ratio) ==
    IF capacity = 0 THEN (IF used = 0 THEN 0 ELSE 100) >= ratio
                    ELSE used * 100 >= ratio * capacity

LoadReaches(s, ratio) ==
    Reaches(s.packets, QueueCapacity, ratio) \/ Reaches(s.bytes, PayloadCapacity, ratio)

LoadLevel(s) ==
    IF LoadReaches(s, StopRatio) THEN "stop"
    ELSE IF LoadReaches(s, ShedRatio) THEN "shed"
    ELSE IF LoadReaches(s, ThrottleRatio) THEN "throttle"
    ELSE IF LoadReaches(s, WatchRatio) THEN "watch"
    ELSE "nominal"

ClassifyPressure(s) ==
    LET stalled == IF s.stalled > 0 THEN "throttle" ELSE "nominal"
        busy    == IF s.inflight > QueueCapacity \div 4 /\ QueueCapacity >= 4
                   THEN "watch" ELSE "nominal"
    IN  MaxLevel(MaxLevel(LoadLevel(s), stalled), busy)

Sampled(s) == sample' = s /\ level' = ClassifyPressure(s)

\* observe_sample()
ObserveSample(s) == Sampled(s) /\ UNCHANGED pressure

\* observe_queue(): what is known of batches and stalled devices is forgotten
ObserveQueue(packets, bytes) ==
    ObserveSample([packets |-> packets, bytes |-> bytes, inflight |-> 0, stalled |-> 0])

Monus(a, b) == IF a >= b THEN a - b ELSE 0

\* note_batch_completed()
NoteBatchCompleted(packets, bytes) ==
    /\ Sampled([sample EXCEPT !.packets = Monus(@, packets), !.bytes = Monus(@, bytes)])
    /\ UNCHANGED pressure

-----------------------------------------------------------------------------
(* decide()                                                                *)

MaxRepeats == 32

NewDevice == [delayed |-> 0, factor |-> 1, next_admit |-> 0]

StateOf(d) == IF d \in DOMAIN pressure THEN pressure[d] ELSE NewDevice

Clamp(delay) ==
    IF delay < MinDelay THEN MinDelay ELSE IF delay > PressureMaxDelay THEN PressureMaxDelay ELSE delay

\* delay_for(throttle, state), the only level decide() delays by
ThrottleDelay(state) ==
    LET base == MinDelay * 2
    IN  IF base = 0 THEN 0 ELSE Clamp(base * (state.delayed + 1))

Lower(a, b) == IF a < b THEN a ELSE b

\* downsample_for(shed, state)
ShedFactor(state) == Lower(IF state.factor < 1 THEN 2 ELSE state.factor * 2, MaxDownsample)

Decision(action, delay, factor) == [action |-> action, delay |-> delay, factor |-> factor]

\* make_decision(), for a control-like packet or another one
MakeDecision(control, state, now) ==
    IF ProtectControl /\ control /\ level # "stop" THEN Decision("accept", 0, 1)
    ELSE IF now < state.next_admit THEN Decision("delay", state.next_admit - now, state.factor)
    ELSE CASE level \in {"nominal", "watch"} -> Decision("accept", 0, 1)
           [] level = "throttle" -> Decision("delay", ThrottleDelay(state), state.factor)
           [] level = "shed"     -> Decision("downsample", 0, ShedFactor(state))
           [] level = "stop"     -> Decision("reject", 0, MaxDownsample)

AtLeastOne(n) == IF n < 1 THEN 1 ELSE n

\* mutant: a delay is added to the window it found
ApplyDecisionStacking(state, d, now) ==
    CASE d.action = "accept"     -> [state EXCEPT !.factor = 1, !.next_admit = now]
      [] d.action = "delay"      -> [delayed    |-> Lower(state.delayed + 1, MaxRepeats - 1),
                                     factor     |-> state.factor,
                                     next_admit |-> state.next_admit + d.delay]
      [] d.action = "downsample" -> [state EXCEPT !.factor = AtLeastOne(d.factor), !.next_admit = now]
      [] d.action = "reject"     -> [state EXCEPT !.factor = AtLeastOne(d.factor),
                                                  !.next_admit = now + PressureMaxDelay]

ApplyDecision(state, d, now) ==
    CASE d.action = "accept"     -> [state EXCEPT !.factor = 1, !.next_admit = now]
      [] d.action = "delay"      -> [delayed    |-> Lower(state.delayed + 1, MaxRepeats - 1),
                                     factor     |-> state.factor,
                                     next_admit |-> now + d.delay]
      [] d.action = "downsample" -> [state EXCEPT !.factor = AtLeastOne(d.factor), !.next_admit = now]
      [] d.action = "reject"     -> [state EXCEPT !.factor = AtLeastOne(d.factor),
                                                  !.next_admit = now + PressureMaxDelay]

Decide(d, control, now) ==
    LET decision == MakeDecision(control, StateOf(d), now)
    IN  /\ pressure' = [x \in DOMAIN pressure \cup {d} |->
                           IF x = d THEN ApplyDecision(StateOf(d), decision, now) ELSE pressure[x]]
        /\ UNCHANGED <<sample, level>>

-----------------------------------------------------------------------------
ResetDevice(d) ==
    /\ pressure' = [x \in DOMAIN pressure \ {d} |-> pressure[x]]
    /\ UNCHANGED <<sample, level>>

ResetController == sample' = NoSample /\ level' = "nominal" /\ pressure' = << >>

InitController == sample = NoSample /\ level = "nominal" /\ pressure = << >>
=============================================================================
