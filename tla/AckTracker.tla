----------------------------- MODULE AckTracker -----------------------------
(***************************************************************************)
(* aethon::control::AckTracker (src/control/ack_tracker.cpp): which sent   *)
(* commands still wait for an acknowledgement, and how each observed       *)
(* acknowledgement is classified.                                          *)
(*                                                                         *)
(* Abstracted: the list of observations kept per record and the last       *)
(* observation time are only rendered; labels and messages likewise.       *)
(***************************************************************************)
EXTENDS ControlMessages, FiniteSets

CONSTANTS
    Expectations,       \* the AckExpectation values callers register
    ObservedAcks,       \* the CommandAck values callers observe
    TrackerTime,        \* the now_ns values callers pass
    MaxRegistered,      \* bound on accepted registrations between resets
    MaxObserved         \* bound on observed acknowledgements between resets

Expectation == [command_id : Nat, device : Device, deadline : Nat, required : Nat]

\* Assumed of the constants wherever this module is used.
TrackerAssumption ==
    /\ MaxRegistered \in Nat /\ MaxObserved \in Nat
    /\ TrackerTime \subseteq Nat
    /\ Expectations \subseteq Expectation
    /\ ObservedAcks \subseteq Ack

VARIABLES
    records,    \* records_ : id -> [expectation, state, accepts, rejects]
    tstats      \* stats_

trackerVars == <<records, tstats>>

-----------------------------------------------------------------------------
EndStates == {"satisfied", "timed_out", "cancelled"}

Ended(state) == state \in EndStates

ZeroTrackerStats ==
    [registered |-> 0, matched |-> 0, duplicates |-> 0, unexpected |-> 0, stale |-> 0,
     rejected |-> 0, timed_out |-> 0, cancelled |-> 0]

Waiting == {i \in DOMAIN records : records[i].state = "waiting"}

Observed == tstats.matched + tstats.duplicates + tstats.unexpected + tstats.stale + tstats.rejected

-----------------------------------------------------------------------------
Registrable(x) ==
    /\ x.command_id # 0
    /\ x.command_id \in DOMAIN records => Ended(records[x.command_id].state)

Required(x) == IF x.required = 0 THEN 1 ELSE x.required

NewRecord(x) == [expectation |-> [x EXCEPT !.required = Required(x)], state |-> "waiting",
                 accepts |-> 0, rejects |-> 0]

Expect(x) ==
    /\ Registrable(x)
    /\ tstats.registered < MaxRegistered
    /\ records' = [i \in DOMAIN records \cup {x.command_id} |->
                      IF i = x.command_id THEN NewRecord(x) ELSE records[i]]
    /\ tstats' = [tstats EXCEPT !.registered = @ + 1]

-----------------------------------------------------------------------------
(* observe(): classify the acknowledgement, then apply it to the record.   *)
(* A busy answer is classified like an acceptance.                         *)

Classify(r, a) ==
    LET x == r.expectation
    IN  IF Ended(r.state) THEN "duplicates"
        ELSE IF a.device # x.device THEN "unexpected"
        ELSE IF x.deadline # 0 /\ a.time > x.deadline THEN "stale"
        ELSE IF a.status \notin {"accepted", "busy"} THEN "rejected"
        ELSE IF a.status = "accepted" /\ r.accepts >= x.required THEN "duplicates"
        ELSE "matched"

\* mutant: a refusal leaves the record waiting
RecordObservationOpen(r, kind) ==
    CASE kind = "matched" -> [r EXCEPT !.accepts = @ + 1,
                                       !.state = IF r.accepts + 1 >= r.expectation.required
                                                 THEN "satisfied" ELSE @]
      [] kind = "rejected" -> [r EXCEPT !.rejects = @ + 1]
      [] OTHER -> r

RecordObservation(r, kind) ==
    CASE kind = "matched" ->
            [r EXCEPT !.accepts = @ + 1,
                      !.state = IF r.accepts + 1 >= r.expectation.required THEN "satisfied" ELSE @]
      [] kind = "rejected" -> [r EXCEPT !.rejects = @ + 1, !.state = "satisfied"]
      [] OTHER -> r

Observe(a) ==
    LET known == a.command_id \in DOMAIN records
        kind  == IF known THEN Classify(records[a.command_id], a) ELSE "unexpected"
    IN  /\ Observed < MaxObserved
        /\ records' = IF known
                      THEN [records EXCEPT ![a.command_id] = RecordObservation(@, kind)]
                      ELSE records
        /\ tstats' = [tstats EXCEPT ![kind] = @ + 1]

\* mutant: at the deadline the record still waits
LateStrictly(now) == {i \in Waiting : /\ records[i].expectation.deadline # 0
                                      /\ now > records[i].expectation.deadline}

-----------------------------------------------------------------------------
Late(now) == {i \in Waiting : /\ records[i].expectation.deadline # 0
                              /\ now >= records[i].expectation.deadline}

Timeouts(now) ==
    /\ records' = [i \in DOMAIN records |->
                      IF i \in Late(now) THEN [records[i] EXCEPT !.state = "timed_out"]
                                         ELSE records[i]]
    /\ tstats' = [tstats EXCEPT !.timed_out = @ + Cardinality(Late(now))]

CancelExpectation(id) ==
    /\ ~Ended(records[id].state)
    /\ records' = [records EXCEPT ![id].state = "cancelled"]
    /\ tstats' = [tstats EXCEPT !.cancelled = @ + 1]

RemovableRecords(keep) ==
    LET finished == DOMAIN records \ Waiting
    IN  {i \in finished : Cardinality({j \in finished : j < i}) + keep < Cardinality(DOMAIN records)}

CompactTerminal(keep) ==
    /\ records' = [i \in DOMAIN records \ RemovableRecords(keep) |-> records[i]]
    /\ UNCHANGED tstats

ResetTracker ==
    /\ records' = << >>
    /\ tstats' = ZeroTrackerStats

-----------------------------------------------------------------------------
InitTracker == records = << >> /\ tstats = ZeroTrackerStats

NextTracker ==
    \/ \E x \in Expectations : Expect(x)
    \/ \E a \in ObservedAcks : Observe(a)
    \/ \E now \in TrackerTime : Timeouts(now)
    \/ \E id \in DOMAIN records : CancelExpectation(id)
    \/ \E keep \in 0..Cardinality(DOMAIN records) : CompactTerminal(keep)
    \/ ResetTracker

TrackerSpec == InitTracker /\ [][NextTracker]_trackerVars

-----------------------------------------------------------------------------
(* Properties.                                                             *)

\* The state of a record and what was counted for it agree: a record waits only
\* while it has seen no refusal and fewer acceptances than required, and it is
\* satisfied only by one refusal or by exactly the required acceptances, never
\* by more although acknowledgements are duplicated.
VerdictMatchesCounts ==
    \A i \in DOMAIN records :
        LET r == records[i]
        IN  /\ r.rejects <= 1 /\ r.accepts <= r.expectation.required
            /\ r.state = "waiting" => r.rejects = 0 /\ r.accepts < r.expectation.required
            /\ r.state = "satisfied" <=> r.rejects = 1 \/ r.accepts = r.expectation.required
=============================================================================
