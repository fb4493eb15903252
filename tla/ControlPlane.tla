---------------------------- MODULE ControlPlane ----------------------------
(***************************************************************************)
(* CommandJournal and AckTracker used together over an unreliable link.    *)
(*                                                                         *)
(* One thread owns both objects.  In each round it calls                   *)
(* AckTracker::timeouts(now), CommandJournal::due(now, max), and for every *)
(* dispatch AckTracker::expect(expectation_from_entry(entry, timeout))     *)
(* while the packet goes out.  Between rounds it hands received            *)
(* acknowledgements to acknowledge() and observe().  The link and the      *)
(* devices are the environment: packets and acknowledgements are lost,     *)
(* duplicated, delayed and reordered, and a device answers as it likes,    *)
(* stamping its answers with the time they are sent.                       *)
(***************************************************************************)
EXTENDS Integers, FiniteSets

CONSTANTS
    Device, Intent,
    MaxEntries, DefaultTtl, MaxAttempts, InitialDelay, MaxDelay, Multiplier,
    AckTimeout,             \* the timeout_ns given to expectation_from_entry
    DueCount,               \* the max_count given to due()
    ClearInFlight,          \* may clear() be called while messages are on the link?
    MaxInFlight,            \* bound on the acknowledgements on the link
    MaxTime,                \* bound on the clock
    MaxSubmitTime,          \* bound on the time of the last append
    MaxId, MaxAppended, MaxRejections, MaxRegistered, MaxObserved

VARIABLES
    entries, jstats, nextId,    \* the journal
    records, tstats,            \* the tracker
    now,                        \* the clock
    pc, outbox,                 \* where the thread is in its round; dispatches not yet registered
    packets, acks               \* on the link

J == INSTANCE CommandJournal WITH Commands <- {}, Acks <- {}, Time <- {}, DueCounts <- {}

T == INSTANCE AckTracker WITH Expectations <- {}, ObservedAcks <- {}, TrackerTime <- {}

ASSUME ControlAssumption ==
    /\ AckTimeout \in Nat /\ DueCount \in Nat /\ ClearInFlight \in BOOLEAN
    /\ MaxInFlight \in Nat /\ MaxTime \in Nat /\ MaxSubmitTime \in Nat
    /\ J!JournalAssumption /\ T!TrackerAssumption

journalVars == <<entries, jstats, nextId>>
trackerVars == <<records, tstats>>
linkVars    == <<packets, acks>>
threadVars  == <<pc, outbox>>
vars == <<journalVars, trackerVars, now, threadVars, linkVars>>

-----------------------------------------------------------------------------
(* The thread.                                                             *)

Submit(d, intent) ==
    /\ pc = "idle" /\ now <= MaxSubmitTime
    /\ J!AppendAccepted([id |-> 0, device |-> d, intent |-> intent, created |-> now, expires |-> 0])
    /\ UNCHANGED <<trackerVars, now, threadVars, linkVars>>

RoundTimeouts ==
    /\ pc = "idle"
    /\ T!Timeouts(now)
    /\ pc' = "due"
    /\ UNCHANGED <<journalVars, now, outbox, linkVars>>

RoundDue ==
    /\ pc = "due"
    /\ J!Due(now, DueCount)
    /\ outbox' = J!Dispatched(now, DueCount)
    /\ pc' = "expect"
    /\ UNCHANGED <<trackerVars, now, linkVars>>

\* mutant: the expectation has no deadline
ExpectationWithoutDeadline(e) ==
    [command_id |-> e.command.id, device |-> e.command.device, deadline |-> 0, required |-> 1]

ExpectationFromEntry(e) ==
    LET created == IF e.last_send = 0 THEN e.command.created ELSE e.last_send
    IN  [command_id |-> e.command.id, device |-> e.command.device,
         deadline |-> created + AckTimeout, required |-> 1]

RoundExpect(id) ==
    LET x == ExpectationFromEntry(entries[id])
    IN  /\ pc = "expect"
        /\ id \in outbox /\ \A i \in outbox : id <= i
        /\ outbox' = outbox \ {id}
        /\ packets' = packets \cup {[id |-> id, device |-> entries[id].command.device]}
        /\ \/ T!Expect(x)
           \/ ~T!Registrable(x) /\ UNCHANGED trackerVars
        /\ UNCHANGED <<journalVars, now, pc, acks>>

RoundEnd ==
    /\ pc = "expect" /\ outbox = {}
    /\ pc' = "idle"
    /\ UNCHANGED <<journalVars, trackerVars, now, outbox, linkVars>>

Deliver(a) ==
    /\ pc = "idle"
    /\ acks' = acks \ {a}
    /\ J!Acknowledge(a)
    /\ T!Observe(a)
    /\ UNCHANGED <<now, threadVars, packets>>

CancelCommand(id) ==
    /\ pc = "idle"
    /\ J!Cancel(id)
    /\ IF id \in T!Waiting THEN T!CancelExpectation(id) ELSE UNCHANGED trackerVars
    /\ UNCHANGED <<now, threadVars, linkVars>>

ClearAll ==
    /\ pc = "idle"
    /\ ClearInFlight \/ (packets = {} /\ acks = {})
    /\ J!Clear
    /\ T!ResetTracker
    /\ UNCHANGED <<now, threadVars, linkVars>>

-----------------------------------------------------------------------------
(* The environment.                                                        *)

DeviceAnswer(p, status, again) ==
    /\ Cardinality(acks) < MaxInFlight
    /\ acks' = acks \cup {[command_id |-> p.id, device |-> p.device, status |-> status, time |-> now]}
    /\ packets' = IF again THEN packets ELSE packets \ {p}
    /\ UNCHANGED <<journalVars, trackerVars, now, threadVars>>

LosePacket(p) ==
    /\ packets' = packets \ {p}
    /\ UNCHANGED <<journalVars, trackerVars, now, threadVars, acks>>

LoseAck(a) ==
    /\ acks' = acks \ {a}
    /\ UNCHANGED <<journalVars, trackerVars, now, threadVars, packets>>

Tick ==
    /\ pc = "idle" /\ now < MaxTime
    /\ now' = now + 1
    /\ UNCHANGED <<journalVars, trackerVars, threadVars, linkVars>>

-----------------------------------------------------------------------------
Init ==
    /\ J!Init /\ T!InitTracker
    /\ now = 1
    /\ pc = "idle" /\ outbox = {}
    /\ packets = {} /\ acks = {}

Round == RoundTimeouts \/ RoundDue \/ (\E id \in outbox : RoundExpect(id)) \/ RoundEnd

Next ==
    \/ \E d \in Device, intent \in Intent : Submit(d, intent)
    \/ Round
    \/ \E a \in acks : Deliver(a)
    \/ \E id \in DOMAIN entries : CancelCommand(id)
    \/ ClearAll
    \/ \E p \in packets, status \in {"accepted", "busy", "rejected"}, again \in BOOLEAN :
          DeviceAnswer(p, status, again)
    \/ \E p \in packets : LosePacket(p)
    \/ \E a \in acks : LoseAck(a)
    \/ Tick

\* The thread keeps running its rounds, and time passes between them (Tick waits
\* for the end of a round, hence strong fairness); nothing is assumed of the
\* devices, the link or the callers.
Fairness == WF_vars(Round) /\ SF_vars(Tick)

Spec == Init /\ [][Next]_vars /\ Fairness

-----------------------------------------------------------------------------
(* Properties.                                                             *)

\* No acknowledgement is credited to a command that was never sent: ids of
\* earlier commands do not come back while answers to them are under way, as
\* long as clear() waits for the link to drain.
AcknowledgedWasSent ==
    ~ClearInFlight =>
        \A i \in DOMAIN entries : entries[i].state = "acknowledged" => entries[i].attempts >= 1

\* The ack timeout is no longer than the shortest backoff.
TimeoutWithinBackoff == \A n \in 1..MaxAttempts : AckTimeout <= J!RetryDelay(n)

\* Between rounds every command in state sent has a record that waits or has
\* timed out, with a deadline no later than that of its last send, whatever the
\* ack timeout: a refused expect() leaves the record of an older attempt, never
\* none and never a finished one.  With an ack timeout no longer than the shortest
\* backoff, which the code leaves to its caller, timeouts() frees the record of
\* the previous attempt at the very instant due() repeats it; then expect() is
\* never refused and no attempt is judged by the deadline of an older one.
EverySendTracked ==
    pc = "idle" =>
        \A i \in DOMAIN entries : entries[i].state = "sent" =>
            /\ i \in DOMAIN records
            /\ records[i].state \in {"waiting", "timed_out"}
            /\ LET deadline == records[i].expectation.deadline
                   own      == entries[i].last_send + AckTimeout
               IN  IF TimeoutWithinBackoff THEN deadline = own ELSE deadline <= own

\* A refusal settles both sides: once the tracker has recorded one for a
\* command, the journal holds that command as finished.
RefusalSettlesBoth ==
    \A i \in DOMAIN records :
        records[i].rejects > 0 => i \in DOMAIN entries /\ J!Terminal(entries[i].state)

\* Every accepted command is settled in the journal and its expectation ends in
\* the tracker, whatever the link and the devices do: lost or busy answers and a
\* due() that stops early for other commands cannot keep it open forever.
EveryCommandSettles ==
    \A i \in 1..MaxId : (i \in J!Active \cup T!Waiting) ~> (i \notin J!Active \cup T!Waiting)

\* Journal and tracker agree about every command between rounds: what was sent
\* is tracked, with a deadline of that send or, when the ack timeout is longer
\* than the backoff, of an older one; what is acknowledged was sent, unless
\* clear() ran with messages on the link; and a refusal ends the command on both
\* sides.
SidesAgree == EverySendTracked /\ AcknowledgedWasSent /\ RefusalSettlesBoth
=============================================================================
