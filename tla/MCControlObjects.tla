-------------------------- MODULE MCControlObjects --------------------------
(* AckTracker, CommandJournal and DeviceLimiter, each on its own: in every *)
(* behaviour one of them is at work, called in any order and with any      *)
(* arguments.  ControlPlane is about journal and tracker together.         *)
EXTENDS CommandJournal, AckTracker, DeviceLimiter

CONSTANTS d1, d2, configure, start

VARIABLE working        \* the component at work

MCDevice == {d1, d2}

\* Two commands of two devices; one needs two acceptances, one is registered
\* with 0 and has no deadline.
MCExpectations ==
    {[command_id |-> 1, device |-> d1, deadline |-> 2, required |-> 2],
     [command_id |-> 2, device |-> d2, deadline |-> 0, required |-> 0],
     [command_id |-> 2, device |-> d1, deadline |-> 3, required |-> 1],
     [command_id |-> 0, device |-> d1, deadline |-> 3, required |-> 1]}

MCAcks ==
    {[command_id |-> i, device |-> d1, status |-> s, time |-> t] :
        i \in {1, 2}, s \in {"accepted", "busy", "unknown_command"}, t \in {2, 3}}
    \cup {[command_id |-> 2, device |-> d2, status |-> "accepted", time |-> 3]}

\* Commands with and without explicit id and expiry.
MCCommand(id, d, intent, created, expires) ==
    [id |-> id, device |-> d, intent |-> intent, created |-> created, expires |-> expires]

MCCommands == {MCCommand(0, d1, configure, 0, 0),
               MCCommand(0, d1, start, 1, 4),
               MCCommand(2, d2, configure, 0, 0)}

MCJournalAcks ==
    {[command_id |-> 1, device |-> d1, status |-> s, time |-> 1] : s \in {"accepted", "busy", "rejected"}}
    \cup {[command_id |-> 2, device |-> d, status |-> "malformed", time |-> 2] : d \in {d1, d2}}

MCIntent == {configure, start}

\* One device, limits that change, refills that round, clocks that disagree.
MCLimitedDevice == {d1}

MCLimit(burst, refill, minimum) == [burst |-> burst, refill |-> refill, minimum |-> minimum]

MCDefaultLimit == MCLimit(1, 0, 3)

MCLimits == {MCLimit(0, 0, 0), MCLimit(3, 2, 0), MCLimit(2, 5, 2), MCLimit(4, 1, 1)}

ASSUME InstanceAssumption == TrackerAssumption /\ JournalAssumption /\ LimiterAssumption

-----------------------------------------------------------------------------
MCInit == working \in {"acks", "journal", "limiter"} /\ Init /\ InitTracker /\ InitLimiter

MCNext ==
    /\ UNCHANGED working
    /\ \/ working = "acks" /\ NextTracker /\ UNCHANGED <<vars, limiterVars>>
       \/ working = "journal" /\ Next /\ UNCHANGED <<trackerVars, limiterVars>>
       \/ working = "limiter" /\ NextLimiter /\ UNCHANGED <<vars, trackerVars>>

MCSpec == MCInit /\ [][MCNext]_<<working, vars, trackerVars, limiterVars>>
=============================================================================
