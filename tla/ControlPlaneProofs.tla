------------------------- MODULE ControlPlaneProofs -------------------------
(***************************************************************************)
(* Proofs about ControlPlane: journal and tracker agree between rounds for *)
(* any number of commands, devices and messages, any retry policy and any  *)
(* behaviour of the link and the devices.                                  *)
(*                                                                         *)
(* The argument is about who may still wait for an answer.  A record that  *)
(* waits has its deadline before the next attempt of its command (Ordered),*)
(* timeouts() ends every record whose deadline has come (Fresh), so due()  *)
(* finds no waiting record among the commands it repeats and expect() is   *)
(* never refused.  That needs an ack timeout within the backoff; with any  *)
(* timeout a refused expect() still leaves the waiting record of an older  *)
(* send (Registered).  Then every step is shown to be a call that journal *)
(* and tracker are specified for, so that the theorems about each hold     *)
(* here.                                                                   *)
(***************************************************************************)
EXTENDS ControlPlane, TLAPS

Entry == [command : J!Command, state : J!States, attempts : Nat, last_send : Nat, next_attempt : Nat]

Record == [expectation : T!Expectation, state : {"waiting"} \cup T!EndStates,
           accepts : Nat, rejects : Nat]

Answer == [command_id : Nat, device : Device, status : {"accepted", "busy", "rejected"}, time : Nat]

\* Entries and records are stored under the id of their command, and a record
\* belongs to an entry of the same device.
StoresOK ==
    /\ now \in Nat \ {0} /\ pc \in {"idle", "due", "expect"} /\ nextId \in Nat \ {0}
    /\ entries \in [DOMAIN entries -> Entry]
    /\ \A i \in DOMAIN entries : i \in Nat \ {0} /\ i < nextId /\ entries[i].command.id = i
    /\ records \in [DOMAIN records -> Record] /\ DOMAIN records \subseteq DOMAIN entries
    /\ \A i \in DOMAIN records :
          LET x == records[i].expectation
          IN  /\ x.device = entries[i].command.device /\ x.required = 1 /\ x.deadline # 0
              /\ records[i].state = "waiting" => records[i].accepts = 0
    /\ packets \subseteq [id : Nat, device : Device] /\ acks \subseteq Answer

\* What due() leaves of a command it hands out.
SendsOK ==
    \A i \in DOMAIN entries : LET e == entries[i]
        IN  e.state = "sent" =>
                /\ e.attempts \in 1..MaxAttempts /\ e.last_send # 0
                /\ e.next_attempt = e.last_send + J!RetryDelay(e.attempts)

OutboxOK ==
    /\ pc # "expect" => outbox = {}
    /\ \A i \in outbox : i \in DOMAIN entries /\ entries[i].state = "sent"

\* A record that waits has its deadline no later than the next attempt.
Ordered ==
    \A i \in T!Waiting : ~J!Terminal(entries[i].state) =>
        records[i].expectation.deadline <= entries[i].next_attempt

\* After timeouts() no record waits past its deadline; none of the commands just
\* handed out waits.
Fresh ==
    /\ pc = "due" => \A i \in T!Waiting : now < records[i].expectation.deadline
    /\ \A i \in outbox : i \notin T!Waiting

\* Every send that is out has its expectation, those about to be registered excepted.
Tracked ==
    \A i \in DOMAIN entries \ outbox : entries[i].state = "sent" =>
        /\ i \in DOMAIN records /\ records[i].state \in {"waiting", "timed_out"}
        /\ records[i].expectation.deadline = entries[i].last_send + AckTimeout

\* Every send that is out has a record that was not finished, those about to be
\* registered excepted, and its deadline is not behind that of the send.
Registered ==
    /\ \A i \in DOMAIN records : records[i].expectation.deadline <= now + AckTimeout
    /\ \A i \in outbox : entries[i].last_send = now
    /\ \A i \in DOMAIN entries \ outbox : entries[i].state = "sent" =>
          /\ i \in DOMAIN records /\ records[i].state \in {"waiting", "timed_out"}
          /\ records[i].expectation.deadline <= entries[i].last_send + AckTimeout

\* What is on the link belongs to commands that were sent.
WasSent(i) == i \in DOMAIN entries /\ entries[i].attempts >= 1

LinkOK ==
    /\ \A p \in packets : WasSent(p.id)
    /\ \A a \in acks : WasSent(a.command_id)
    /\ \A i \in DOMAIN entries : entries[i].state \in {"sent", "acknowledged"} => entries[i].attempts >= 1

PInv ==
    /\ StoresOK /\ SendsOK /\ OutboxOK /\ RefusalSettlesBoth /\ Registered
    /\ TimeoutWithinBackoff => Ordered /\ Fresh /\ Tracked
    /\ ~ClearInFlight => LinkOK

-----------------------------------------------------------------------------
(* The two components.                                                     *)

\* The two with callers that pass any value: what their theorems say of every
\* order of calls they say of the calls made here.
JP == INSTANCE ControlObjectsProofs WITH
        Commands <- J!Command, Acks <- J!Ack, Time <- Nat, DueCounts <- Nat,
        Expectations <- T!Expectation, ObservedAcks <- J!Ack, TrackerTime <- Nat

\* The backoff is a number.
LEMMA DelayTyped == \A n \in Nat : J!RetryDelay(n) \in Nat
<1>1. JP!JournalAssumption
    BY ControlAssumption DEF J!JournalAssumption, JP!JournalAssumption, J!Command, JP!Command, J!Ack, JP!Ack,
        J!AckStatus, JP!AckStatus
<1>2. \A n \in Nat : J!RetryDelay(n) = JP!RetryDelay(n)
    BY DEF J!RetryDelay, JP!RetryDelay, J!SaturatingMultiply, JP!SaturatingMultiply
<1> QED
    BY <1>1, <1>2, JP!RetryDelayBound

\* The fields of what is stored.
LEMMA Fields ==
    ASSUME StoresOK
    PROVE  /\ \A i \in DOMAIN entries : LET e == entries[i]
                IN  /\ e \in Entry /\ e.command \in J!Command /\ e.command.device \in Device
                    /\ e.state \in J!States /\ e.attempts \in Nat /\ e.last_send \in Nat
                    /\ e.next_attempt \in Nat
           /\ \A i \in DOMAIN records : LET r == records[i]
                IN  /\ r \in Record /\ r.expectation \in T!Expectation
                    /\ r.expectation.deadline \in Nat \ {0} /\ r.accepts \in Nat /\ r.rejects \in Nat
                    /\ r.state \in {"waiting"} \cup T!EndStates
BY DEF StoresOK, Entry, Record, J!Command, T!Expectation

\* Moving an entry to another state.
LEMMA StateMoved ==
    ASSUME NEW e \in Entry, NEW s \in J!States
    PROVE  LET f == J!WithState(e, s)
           IN  /\ f \in Entry /\ f.state = s /\ f.command = e.command /\ f.attempts = e.attempts
               /\ f.last_send = e.last_send /\ f.next_attempt = e.next_attempt
BY DEF Entry, J!WithState

\* due() hands a command out, ends it or leaves it.
LEMMA DueMoves ==
    ASSUME StoresOK, J!Due(now, DueCount)
    PROVE  LET out == J!Dispatched(now, DueCount)
           IN  /\ DOMAIN entries' = DOMAIN entries /\ nextId' = nextId /\ out \subseteq DOMAIN entries
               /\ entries' = [i \in DOMAIN entries |-> entries'[i]]
               /\ \A i \in out : LET e == entries[i]
                    IN  /\ entries'[i] = J!Sent(e, now) /\ ~J!Terminal(e.state)
                        /\ e.next_attempt <= now /\ ~(e.attempts >= MaxAttempts)
               /\ \A i \in DOMAIN entries \ out :
                    \/ entries'[i] = entries[i]
                    \/ entries'[i] = J!WithState(entries[i], "expired")
                    \/ entries'[i] = J!WithState(entries[i], "failed")
<1> DEFINE out == J!Dispatched(now, DueCount)
           vis == J!Visited(now, DueCount)
<1>1. /\ entries' = [i \in DOMAIN entries |->
                        IF i \in vis THEN J!Handled(entries[i], now) ELSE entries[i]]
      /\ nextId' = nextId
    BY DEF J!Due
<1>2. /\ out \subseteq vis /\ out \subseteq DOMAIN entries
      /\ \A i \in DOMAIN entries :
            i \in out <=> i \in vis /\ J!DueNow(entries[i], now) /\ ~J!Exhausted(entries[i])
    BY DEF J!Dispatched, J!Dispatchable, J!Visited
<1> HIDE DEF out, vis
<1>3. ASSUME NEW i \in out
      PROVE  LET e == entries[i]
             IN  /\ entries'[i] = J!Sent(e, now) /\ ~J!Terminal(e.state)
                 /\ e.next_attempt <= now /\ ~(e.attempts >= MaxAttempts)
    <2>1. i \in vis /\ i \in DOMAIN entries /\ J!DueNow(entries[i], now) /\ ~J!Exhausted(entries[i])
        BY <1>2
    <2>2. ~J!Overdue(entries[i], now)
        BY <2>1 DEF J!DueNow
    <2>3. J!Handled(entries[i], now) = J!Sent(entries[i], now)
        BY <2>1, <2>2 DEF J!Handled
    <2> QED
        BY <1>1, <2>1, <2>3 DEF J!DueNow, J!Exhausted
<1>4. ASSUME NEW i \in DOMAIN entries \ out
      PROVE  \/ entries'[i] = entries[i]
             \/ entries'[i] = J!WithState(entries[i], "expired")
             \/ entries'[i] = J!WithState(entries[i], "failed")
    <2>1. CASE i \notin vis
        BY <1>1, <2>1
    <2>2. CASE i \in vis
        <3>1. ~(J!DueNow(entries[i], now) /\ ~J!Exhausted(entries[i]))
            BY <1>2, <2>2
        <3>2. entries'[i] = J!Handled(entries[i], now)
            BY <1>1, <2>2
        <3> QED
            BY <3>1, <3>2 DEF J!Handled
    <2> QED
        BY <2>1, <2>2
<1> QED
    BY <1>1, <1>2, <1>3, <1>4 DEF out

\* What an acknowledgement makes of the record that waits for it: only a stale
\* one or one of another device leaves it waiting.
ObservedAs(r, a, s) ==
    /\ s \in Record /\ s.expectation = r.expectation
    /\ \/ s = r /\ (r.state = "waiting" =>
            a.device # r.expectation.device \/ a.time > r.expectation.deadline)
       \/ /\ r.state = "waiting" /\ s.state = "satisfied" /\ a.device = r.expectation.device
          /\ s.rejects # r.rejects => a.status = "rejected"

\* What one answer does to the record of a command.
LEMMA ObservedRecord ==
    ASSUME NEW r \in Record, NEW a \in Answer,
           r.expectation.required = 1, r.expectation.deadline # 0, r.state = "waiting" => r.accepts = 0
    PROVE  ObservedAs(r, a, T!RecordObservation(r, T!Classify(r, a)))
<1> DEFINE k == T!Classify(r, a)
           s == T!RecordObservation(r, k)
<1>0. /\ r.accepts \in Nat /\ r.rejects \in Nat /\ r.expectation \in T!Expectation
      /\ r.state \in {"waiting"} \cup T!EndStates
    BY DEF Record
<1>1. CASE r.state # "waiting"
    <2>1. k = "duplicates"
        BY <1>0, <1>1 DEF T!Classify, T!Ended
    <2>2. s = r
        BY <2>1 DEF T!RecordObservation
    <2> QED
        BY <1>1, <2>2 DEF ObservedAs
<1>2. CASE r.state = "waiting"
    <2>0. ~T!Ended(r.state)
        BY <1>2 DEF T!Ended, T!EndStates
    <2>1. CASE a.device # r.expectation.device \/ a.time > r.expectation.deadline
        <3>1. k \in {"unexpected", "stale"}
            BY <2>0, <2>1 DEF T!Classify
        <3>2. s = r
            BY <3>1 DEF T!RecordObservation
        <3> QED
            BY <2>1, <3>2 DEF ObservedAs
    <2>2. CASE /\ a.device = r.expectation.device /\ ~(a.time > r.expectation.deadline)
               /\ a.status = "rejected"
        <3>1. k = "rejected"
            BY <2>0, <2>2 DEF T!Classify
        <3>2. s = [r EXCEPT !.rejects = @ + 1, !.state = "satisfied"]
            BY <3>1 DEF T!RecordObservation
        <3>3. s = [expectation |-> r.expectation, state |-> "satisfied", accepts |-> r.accepts,
                   rejects |-> r.rejects + 1]
            BY <3>2 DEF Record
        <3>4. s \in Record /\ s.expectation = r.expectation /\ s.state = "satisfied"
            BY <1>0, <3>3 DEF Record, T!EndStates
        <3> QED
            BY <1>2, <2>2, <3>4 DEF ObservedAs
    <2>3. CASE /\ a.device = r.expectation.device /\ ~(a.time > r.expectation.deadline)
               /\ a.status # "rejected"
        <3>0. a.status \in {"accepted", "busy"} /\ r.accepts = 0
            BY <1>2, <2>3 DEF Answer
        <3>1. k = "matched"
            BY <2>0, <2>3, <3>0 DEF T!Classify
        <3>2. s = [r EXCEPT !.accepts = @ + 1, !.state = "satisfied"]
            BY <3>0, <3>1 DEF T!RecordObservation
        <3>3. s = [expectation |-> r.expectation, state |-> "satisfied", accepts |-> r.accepts + 1,
                   rejects |-> r.rejects]
            BY <3>2 DEF Record
        <3>4. s \in Record /\ s.expectation = r.expectation /\ s.state = "satisfied"
              /\ s.rejects = r.rejects
            BY <1>0, <3>3 DEF Record, T!EndStates
        <3> QED
            BY <1>2, <2>3, <3>4 DEF ObservedAs
    <2> QED
        BY <2>1, <2>2, <2>3
<1> QED
    BY <1>1, <1>2

\* observe() changes the record the answer is for, and no other.
LEMMA ObserveMoves ==
    ASSUME StoresOK, NEW a \in acks, T!Observe(a)
    PROVE  /\ DOMAIN records' = DOMAIN records /\ records' = [i \in DOMAIN records |-> records'[i]]
           /\ \A i \in DOMAIN records : i # a.command_id => records'[i] = records[i]
           /\ a.command_id \in DOMAIN records =>
                ObservedAs(records[a.command_id], a, records'[a.command_id])
<1> DEFINE i == a.command_id
<1>1. CASE i \notin DOMAIN records
    <2>1. records' = records
        BY <1>1 DEF T!Observe
    <2> QED
        BY <1>1, <2>1 DEF StoresOK
<1>2. CASE i \in DOMAIN records
    <2> DEFINE r == records[i]
               s == T!RecordObservation(r, T!Classify(r, a))
    <2>1. records' = [records EXCEPT ![i] = s]
        BY <1>2 DEF T!Observe
    <2>2. ObservedAs(r, a, s)
        <3>1. /\ r \in Record /\ a \in Answer /\ r.expectation.required = 1
              /\ r.expectation.deadline # 0 /\ (r.state = "waiting" => r.accepts = 0)
            BY <1>2, Fields DEF StoresOK
        <3> HIDE DEF r
        <3> QED
            BY <3>1, ObservedRecord
    <2> HIDE DEF s
    <2>3. /\ DOMAIN records' = DOMAIN records /\ records'[i] = s
          /\ \A j \in DOMAIN records : j # i => records'[j] = records[j]
        BY <1>2, <2>1 DEF StoresOK
    <2>4. records' = [j \in DOMAIN records |-> records'[j]]
        BY <2>1 DEF StoresOK
    <2> QED
        BY <2>2, <2>3, <2>4
<1> QED
    BY <1>1, <1>2
-----------------------------------------------------------------------------
(* The invariant holds initially and every step preserves it.              *)

\* The invariant holds at the start.
LEMMA InitPInv == Init => PInv
<1> SUFFICES ASSUME Init PROVE PInv
    OBVIOUS
<1>1. /\ DOMAIN entries = {} /\ DOMAIN records = {} /\ entries = [i \in {} |-> 0]
      /\ records = [i \in {} |-> 0]
    BY DEF Init, J!Init, T!InitTracker
<1>2. /\ now = 1 /\ pc = "idle" /\ nextId = 1 /\ outbox = {} /\ packets = {} /\ acks = {}
    BY DEF Init, J!Init
<1>3. StoresOK
    BY <1>1, <1>2 DEF StoresOK
<1> QED
    BY <1>1, <1>2, <1>3 DEF PInv, SendsOK, OutboxOK, RefusalSettlesBoth, Registered, Ordered, Fresh, Tracked,
                            LinkOK, T!Waiting

\* The link, the clock and the end of a round leave journal and tracker alone.
LEMMA EnvironmentKeeps ==
    ASSUME PInv,
           \/ \E p \in packets, status \in {"accepted", "busy", "rejected"}, again \in BOOLEAN :
                 DeviceAnswer(p, status, again)
           \/ \E p \in packets : LosePacket(p)
           \/ \E a \in acks : LoseAck(a)
           \/ Tick \/ RoundEnd \/ UNCHANGED vars
    PROVE  PInv'
<1>1. /\ UNCHANGED <<entries, nextId, records, outbox>>
      /\ now' \in Nat \ {0} /\ pc' \in {"idle", "due", "expect"}
      /\ pc' # "expect" => outbox = {}
      /\ pc' = "due" => pc = "due" /\ now' = now
      /\ now' = now \/ (now' = now + 1 /\ outbox = {})
      /\ packets' \subseteq packets
    BY DEF PInv, StoresOK, OutboxOK, DeviceAnswer, LosePacket, LoseAck, Tick, RoundEnd, vars,
           journalVars, trackerVars, threadVars, linkVars
<1>2. /\ acks' \subseteq Answer
      /\ \A a \in acks' : a \in acks \/ \E p \in packets : a.command_id = p.id
    <2>1. CASE \E p \in packets, status \in {"accepted", "busy", "rejected"}, again \in BOOLEAN :
                 DeviceAnswer(p, status, again)
        <3>1. PICK p \in packets, status \in {"accepted", "busy", "rejected"}, again \in BOOLEAN :
                 DeviceAnswer(p, status, again)
            BY <2>1
        <3> DEFINE a == [command_id |-> p.id, device |-> p.device, status |-> status, time |-> now]
        <3>2. acks' = acks \cup {a}
            BY <3>1 DEF DeviceAnswer
        <3>3. p.id \in Nat /\ p.device \in Device /\ now \in Nat
            BY DEF PInv, StoresOK
        <3>4. a \in Answer /\ a.command_id = p.id
            BY <3>3 DEF Answer
        <3> HIDE DEF a
        <3> QED
            BY <3>2, <3>4 DEF PInv, StoresOK
    <2>2. CASE acks' \subseteq acks
        BY <2>2 DEF PInv, StoresOK
    <2> QED
        BY <2>1, <2>2 DEF LosePacket, LoseAck, Tick, RoundEnd, vars, linkVars
<1>3. StoresOK'
    BY <1>1, <1>2 DEF PInv, StoresOK
<1>4. SendsOK' /\ OutboxOK' /\ RefusalSettlesBoth'
    BY <1>1 DEF PInv, SendsOK, OutboxOK, RefusalSettlesBoth
<1>5. T!Waiting' = T!Waiting
    BY <1>1 DEF T!Waiting
<1>6. TimeoutWithinBackoff => Ordered' /\ Fresh' /\ Tracked'
    BY <1>1, <1>5 DEF PInv, Ordered, Fresh, Tracked
<1>7. ~ClearInFlight => LinkOK'
    <2>1. \A i : WasSent(i)' <=> WasSent(i)
        BY <1>1 DEF WasSent
    <2> QED
        BY <1>1, <1>2, <2>1 DEF PInv, LinkOK
<1>8. TimeoutWithinBackoff' <=> TimeoutWithinBackoff
    BY DEF TimeoutWithinBackoff
<1>9. Registered'
    <2>1. now \in Nat /\ AckTimeout \in Nat /\ now <= now'
        BY <1>1, ControlAssumption DEF PInv, StoresOK
    <2>2. \A i \in DOMAIN records : records[i].expectation.deadline \in Nat
        BY Fields DEF PInv
    <2>3. \A i \in DOMAIN records : records[i].expectation.deadline <= now' + AckTimeout
        BY <1>1, <2>1, <2>2 DEF PInv, Registered
    <2> QED
        BY <1>1, <2>3 DEF PInv, Registered
<1> QED
    BY <1>3, <1>4, <1>6, <1>7, <1>8, <1>9 DEF PInv

\* clear() and reset() between rounds.
LEMMA ClearKeeps ==
    ASSUME PInv, ClearAll
    PROVE  PInv'
<1>1. /\ DOMAIN entries' = {} /\ DOMAIN records' = {} /\ entries' = [i \in {} |-> 0]
      /\ records' = [i \in {} |-> 0] /\ nextId' = 1
    BY DEF ClearAll, J!Clear, T!ResetTracker
<1>2. /\ UNCHANGED <<now, pc, outbox, packets, acks>> /\ outbox = {} /\ pc = "idle"
      /\ ~ClearInFlight => packets = {} /\ acks = {}
    BY DEF ClearAll, PInv, OutboxOK, threadVars, linkVars
<1>3. StoresOK'
    BY <1>1, <1>2 DEF PInv, StoresOK
<1> QED
    BY <1>1, <1>2, <1>3 DEF PInv, SendsOK, OutboxOK, RefusalSettlesBoth, Registered, Ordered, Fresh, Tracked,
                            LinkOK, T!Waiting

\* append() of a new command.
LEMMA SubmitKeeps ==
    ASSUME PInv, NEW d \in Device, NEW intent \in Intent, Submit(d, intent)
    PROVE  PInv'
<1> DEFINE c == [id |-> 0, device |-> d, intent |-> intent, created |-> now, expires |-> 0]
           n == J!NewEntry(c, nextId)
<1>0. StoresOK /\ now \in Nat \ {0} /\ nextId \in Nat \ {0} /\ DefaultTtl \in Nat
    BY ControlAssumption DEF PInv, StoresOK, J!JournalAssumption
<1>1. /\ entries' = [i \in DOMAIN entries \cup {nextId} |-> IF i = nextId THEN n ELSE entries[i]]
      /\ nextId' = nextId + 1
    BY DEF Submit, J!AppendAccepted, J!NextIdAfter
<1>2. /\ n \in Entry /\ n.command.id = nextId /\ n.state = "pending"
    <2>1. [id |-> nextId, device |-> d, intent |-> intent, created |-> now, expires |-> now + DefaultTtl]
            \in J!Command
        BY <1>0 DEF J!Command
    <2> QED
        BY <1>0, <2>1 DEF J!NewEntry, Entry, J!States
<1>3. nextId \notin DOMAIN entries /\ nextId \notin DOMAIN records
    BY <1>0 DEF StoresOK
<1> HIDE DEF n
<1>4. /\ DOMAIN entries' = DOMAIN entries \cup {nextId} /\ entries'[nextId] = n
      /\ \A i \in DOMAIN entries : entries'[i] = entries[i]
    BY <1>1, <1>3
<1>5. UNCHANGED <<records, now, pc, outbox, packets, acks>>
    BY DEF Submit, trackerVars, threadVars, linkVars
<1>6. StoresOK'
    <2>1. entries' \in [DOMAIN entries' -> Entry]
        BY <1>0, <1>1, <1>2, <1>4, Fields
    <2>2. \A i \in DOMAIN entries' : i \in Nat \ {0} /\ i < nextId' /\ entries'[i].command.id = i
        BY <1>0, <1>1, <1>2, <1>4 DEF StoresOK
    <2>3. /\ records' \in [DOMAIN records' -> Record] /\ DOMAIN records' \subseteq DOMAIN entries'
          /\ \A i \in DOMAIN records' : records'[i] = records[i] /\ entries'[i] = entries[i]
                                        /\ i \in DOMAIN records
        BY <1>0, <1>4, <1>5 DEF StoresOK
    <2>4. \A i \in DOMAIN records' :
              LET x == records'[i].expectation
              IN  /\ x.device = entries'[i].command.device /\ x.required = 1 /\ x.deadline # 0
                  /\ records'[i].state = "waiting" => records'[i].accepts = 0
        BY <1>0, <2>3 DEF StoresOK
    <2>5. /\ now' \in Nat \ {0} /\ pc' \in {"idle", "due", "expect"} /\ nextId' \in Nat \ {0}
          /\ packets' \subseteq [id : Nat, device : Device] /\ acks' \subseteq Answer
        BY <1>0, <1>1, <1>5 DEF StoresOK
    <2> QED
        BY <2>1, <2>2, <2>3, <2>4, <2>5 DEF StoresOK
<1>7. SendsOK' /\ OutboxOK' /\ RefusalSettlesBoth'
    BY <1>0, <1>2, <1>4, <1>5 DEF PInv, StoresOK, SendsOK, OutboxOK, RefusalSettlesBoth
<1>8. T!Waiting' = T!Waiting /\ T!Waiting \subseteq DOMAIN entries
    BY <1>0, <1>5 DEF T!Waiting, StoresOK
<1>9. TimeoutWithinBackoff => Ordered' /\ Fresh' /\ Tracked'
    BY <1>2, <1>3, <1>4, <1>5, <1>8 DEF PInv, Ordered, Fresh, Tracked
<1>10. ~ClearInFlight => LinkOK'
    <2>1. \A i : WasSent(i) => WasSent(i)'
        BY <1>4 DEF WasSent
    <2> QED
        BY <1>2, <1>4, <1>5, <2>1 DEF PInv, LinkOK
<1>11. TimeoutWithinBackoff' <=> TimeoutWithinBackoff
    BY DEF TimeoutWithinBackoff
<1>12. Registered'
    BY <1>0, <1>2, <1>3, <1>4, <1>5 DEF PInv, Registered, OutboxOK
<1> QED
    BY <1>6, <1>7, <1>9, <1>10, <1>11, <1>12 DEF PInv
\* timeouts() ends every record whose deadline has come.
LEMMA TimeoutsKeep ==
    ASSUME PInv, RoundTimeouts
    PROVE  PInv'
<1> DEFINE late == T!Late(now)
<1>0. StoresOK /\ outbox = {} /\ pc = "idle"
    BY DEF PInv, OutboxOK, RoundTimeouts
<1>1. /\ records' = [i \in DOMAIN records |->
                        IF i \in late THEN [records[i] EXCEPT !.state = "timed_out"] ELSE records[i]]
      /\ pc' = "due" /\ UNCHANGED <<entries, nextId, now, outbox, packets, acks>>
    BY DEF RoundTimeouts, T!Timeouts, journalVars, linkVars
<1>2. \A i \in T!Waiting : i \notin late => now < records[i].expectation.deadline
    BY <1>0, Fields DEF T!Late, T!Waiting, StoresOK
<1>3. late \subseteq T!Waiting /\ T!Waiting \subseteq DOMAIN records
    BY DEF T!Late, T!Waiting
<1> HIDE DEF late
<1>4. ASSUME NEW i \in DOMAIN records
      PROVE  /\ records'[i] \in Record /\ records'[i].expectation = records[i].expectation
             /\ records'[i].rejects = records[i].rejects /\ records'[i].accepts = records[i].accepts
             /\ IF i \in late THEN records'[i].state = "timed_out"
                              ELSE records'[i].state = records[i].state
    BY <1>0, <1>1, Fields DEF Record, T!EndStates
<1>5. DOMAIN records' = DOMAIN records
    BY <1>1
<1>6. T!Waiting' = T!Waiting \ late
    BY <1>3, <1>4, <1>5 DEF T!Waiting
<1>7. StoresOK'
    <2>1. records' \in [DOMAIN records' -> Record] /\ DOMAIN records' \subseteq DOMAIN entries'
        BY <1>0, <1>1, <1>4, <1>5 DEF StoresOK
    <2>2. \A i \in DOMAIN records' :
              LET x == records'[i].expectation
              IN  /\ x.device = entries'[i].command.device /\ x.required = 1 /\ x.deadline # 0
                  /\ records'[i].state = "waiting" => records'[i].accepts = 0
        BY <1>0, <1>1, <1>4, <1>5 DEF StoresOK
    <2> QED
        BY <1>0, <1>1, <2>1, <2>2 DEF StoresOK
<1>8. SendsOK' /\ OutboxOK' /\ RefusalSettlesBoth'
    BY <1>0, <1>1, <1>4, <1>5 DEF PInv, SendsOK, OutboxOK, RefusalSettlesBoth
<1>9. TimeoutWithinBackoff => Ordered' /\ Fresh' /\ Tracked'
    <2> SUFFICES ASSUME TimeoutWithinBackoff PROVE Ordered' /\ Fresh' /\ Tracked'
        OBVIOUS
    <2>1. Ordered'
        BY <1>1, <1>3, <1>4, <1>6 DEF PInv, Ordered
    <2>2. Fresh'
        BY <1>0, <1>1, <1>2, <1>3, <1>4, <1>6 DEF Fresh
    <2>3. Tracked'
        BY <1>0, <1>1, <1>3, <1>4, <1>5 DEF PInv, Tracked, T!Waiting
    <2> QED
        BY <2>1, <2>2, <2>3
<1>10. ~ClearInFlight => LinkOK'
    <2>1. \A i : WasSent(i)' <=> WasSent(i)
        BY <1>1 DEF WasSent
    <2> QED
        BY <1>1, <2>1 DEF PInv, LinkOK
<1>11. TimeoutWithinBackoff' <=> TimeoutWithinBackoff
    BY DEF TimeoutWithinBackoff
<1>12. Registered'
    BY <1>0, <1>1, <1>4, <1>5 DEF PInv, Registered
<1> QED
    BY <1>7, <1>8, <1>9, <1>10, <1>11, <1>12 DEF PInv

\* due() repeats no command whose record still waits: the deadline of that record
\* would not be after the attempt that is due, and timeouts() has just ended such
\* records.
LEMMA DueKeeps ==
    ASSUME PInv, RoundDue
    PROVE  PInv'
<1> DEFINE out == J!Dispatched(now, DueCount)
<1>0. StoresOK /\ outbox = {} /\ pc = "due" /\ MaxAttempts \in Nat
    BY ControlAssumption DEF PInv, OutboxOK, RoundDue, J!JournalAssumption
<1>1. /\ J!Due(now, DueCount) /\ outbox' = out /\ pc' = "expect"
      /\ UNCHANGED <<records, now, packets, acks>>
    BY DEF RoundDue, trackerVars, linkVars
<1>2. /\ DOMAIN entries' = DOMAIN entries /\ nextId' = nextId /\ out \subseteq DOMAIN entries
      /\ entries' = [i \in DOMAIN entries |-> entries'[i]]
      /\ \A i \in out : LET e == entries[i]
            IN  /\ entries'[i] = J!Sent(e, now) /\ ~J!Terminal(e.state)
                /\ e.next_attempt <= now /\ ~(e.attempts >= MaxAttempts)
      /\ \A i \in DOMAIN entries \ out :
            \/ entries'[i] = entries[i]
            \/ entries'[i] = J!WithState(entries[i], "expired")
            \/ entries'[i] = J!WithState(entries[i], "failed")
    BY <1>0, <1>1, DueMoves
<1> HIDE DEF out
<1>3. ASSUME NEW i \in out
      PROVE  LET e == entries[i]
                 f == entries'[i]
             IN  /\ f \in Entry /\ f.state = "sent" /\ f.command = e.command
                 /\ f.attempts = e.attempts + 1 /\ f.last_send = now /\ f.attempts \in 1..MaxAttempts
                 /\ f.next_attempt = f.last_send + J!RetryDelay(f.attempts)
                 /\ ~J!Terminal(e.state) /\ e.next_attempt <= now
    <2> DEFINE e == entries[i]
               f == entries'[i]
    <2>1. /\ f = J!Sent(e, now) /\ ~J!Terminal(e.state) /\ e.next_attempt <= now
          /\ ~(e.attempts >= MaxAttempts) /\ i \in DOMAIN entries
        BY <1>2
    <2>2. e.command \in J!Command /\ e.attempts \in Nat /\ now \in Nat
        BY <1>0, <2>1, Fields DEF StoresOK
    <2>3. J!RetryDelay(e.attempts + 1) \in Nat
        BY <2>2, DelayTyped
    <2> HIDE DEF e
    <2>4. /\ f = [command |-> e.command, state |-> "sent", attempts |-> e.attempts + 1, last_send |-> now,
                 next_attempt |-> now + J!RetryDelay(e.attempts + 1)]
        BY <2>1 DEF J!Sent
    <2> HIDE DEF f
    <2>5. f \in Entry
        BY <2>2, <2>3, <2>4 DEF Entry, J!States
    <2>6. /\ f.state = "sent" /\ f.command = e.command /\ f.attempts = e.attempts + 1
          /\ f.last_send = now /\ f.next_attempt = f.last_send + J!RetryDelay(f.attempts)
        BY <2>4
    <2> QED
        BY <1>0, <2>1, <2>2, <2>5, <2>6 DEF e, f
<1>4. ASSUME NEW i \in DOMAIN entries \ out
      PROVE  LET e == entries[i]
                 f == entries'[i]
             IN  /\ f \in Entry /\ f.command = e.command /\ f.attempts = e.attempts
                 /\ f.last_send = e.last_send /\ f.next_attempt = e.next_attempt
                 /\ f.state = e.state \/ J!Terminal(f.state)
                 /\ J!Terminal(e.state) => J!Terminal(f.state)
                 /\ f.state \in {"sent", "acknowledged"} => f.state = e.state
    <2>1. entries[i] \in Entry /\ {"expired", "failed"} \subseteq J!States
          /\ J!Terminal("expired") /\ J!Terminal("failed")
        BY <1>0, Fields DEF J!States, J!TerminalStates, J!Terminal
    <2> QED
        BY <1>2, <2>1, StateMoved
<1>5. StoresOK'
    <2>1. entries' \in [DOMAIN entries' -> Entry]
        BY <1>2, <1>3, <1>4
    <2>2. \A i \in DOMAIN entries : entries'[i].command = entries[i].command
        BY <1>3, <1>4
    <2>3. \A i \in DOMAIN entries' : i \in Nat \ {0} /\ i < nextId' /\ entries'[i].command.id = i
        BY <1>0, <1>2, <2>2 DEF StoresOK
    <2>4. records' \in [DOMAIN records' -> Record] /\ DOMAIN records' \subseteq DOMAIN entries'
        BY <1>0, <1>1, <1>2 DEF StoresOK
    <2>5. \A i \in DOMAIN records' :
              LET x == records'[i].expectation
              IN  /\ x.device = entries'[i].command.device /\ x.required = 1 /\ x.deadline # 0
                  /\ records'[i].state = "waiting" => records'[i].accepts = 0
        BY <1>0, <1>1, <2>2 DEF StoresOK
    <2>6. /\ now' \in Nat \ {0} /\ pc' \in {"idle", "due", "expect"} /\ nextId' \in Nat \ {0}
          /\ packets' \subseteq [id : Nat, device : Device] /\ acks' \subseteq Answer
        BY <1>0, <1>1, <1>2 DEF StoresOK
    <2> QED
        BY <2>1, <2>3, <2>4, <2>5, <2>6 DEF StoresOK
<1>6. SendsOK'
    <2> SUFFICES ASSUME NEW i \in DOMAIN entries, entries'[i].state = "sent"
                 PROVE  /\ entries'[i].attempts \in 1..MaxAttempts /\ entries'[i].last_send # 0
                        /\ entries'[i].next_attempt
                             = entries'[i].last_send + J!RetryDelay(entries'[i].attempts)
        BY <1>2 DEF SendsOK
    <2>1. CASE i \in out
        BY <1>0, <1>3, <2>1 DEF StoresOK
    <2>2. CASE i \notin out
        <3>1. entries[i].state = "sent"
            BY <1>4, <2>2
        <3>2. /\ entries[i].attempts \in 1..MaxAttempts /\ entries[i].last_send # 0
              /\ entries[i].next_attempt = entries[i].last_send + J!RetryDelay(entries[i].attempts)
            BY <3>1 DEF PInv, SendsOK
        <3> QED
            BY <1>4, <2>2, <3>2
    <2> QED
        BY <2>1, <2>2
<1>7. OutboxOK'
    BY <1>1, <1>2, <1>3 DEF OutboxOK
<1>8. RefusalSettlesBoth'
    <2> SUFFICES ASSUME NEW i \in DOMAIN records, records[i].rejects > 0
                 PROVE  i \in DOMAIN entries' /\ J!Terminal(entries'[i].state)
        BY <1>1 DEF RefusalSettlesBoth
    <2>1. i \in DOMAIN entries /\ J!Terminal(entries[i].state)
        BY DEF PInv, RefusalSettlesBoth
    <2> QED
        BY <1>2, <1>3, <1>4, <2>1
<1>9. TimeoutWithinBackoff => Ordered' /\ Fresh' /\ Tracked'
    <2> SUFFICES ASSUME TimeoutWithinBackoff PROVE Ordered' /\ Fresh' /\ Tracked'
        OBVIOUS
    <2>0. Ordered /\ Fresh /\ Tracked /\ T!Waiting' = T!Waiting
        BY <1>1 DEF PInv, T!Waiting
    <2>1. \A i \in out : i \notin T!Waiting
        <3> SUFFICES ASSUME NEW i \in out, i \in T!Waiting PROVE FALSE
            OBVIOUS
        <3>1. records[i].expectation.deadline <= entries[i].next_attempt
            BY <1>3, <2>0 DEF Ordered
        <3>2. now < records[i].expectation.deadline
            BY <1>0, <2>0 DEF Fresh
        <3>3. i \in DOMAIN records /\ i \in DOMAIN entries
            BY <1>2 DEF T!Waiting
        <3>4. /\ records[i].expectation.deadline \in Nat /\ entries[i].next_attempt \in Nat /\ now \in Nat
            BY <1>0, <3>3, Fields DEF StoresOK
        <3> QED
            BY <1>3, <3>1, <3>2, <3>4
    <2>2. Ordered'
        <3> SUFFICES ASSUME NEW i \in T!Waiting, ~J!Terminal(entries'[i].state)
                     PROVE  records[i].expectation.deadline <= entries'[i].next_attempt
            BY <1>1, <2>0 DEF Ordered
        <3>1. i \in DOMAIN entries \ out
            BY <1>0, <2>1 DEF T!Waiting, StoresOK
        <3> QED
            BY <1>4, <2>0, <3>1 DEF Ordered
    <2>3. Fresh'
        BY <1>1, <2>0, <2>1 DEF Fresh
    <2>4. Tracked'
        <3> SUFFICES ASSUME NEW i \in DOMAIN entries \ out, entries'[i].state = "sent"
                     PROVE  /\ i \in DOMAIN records /\ records[i].state \in {"waiting", "timed_out"}
                            /\ records[i].expectation.deadline = entries'[i].last_send + AckTimeout
            BY <1>1, <1>2 DEF Tracked
        <3>1. entries[i].state = "sent" /\ entries'[i].last_send = entries[i].last_send
            BY <1>4
        <3> QED
            BY <1>0, <2>0, <3>1 DEF Tracked
    <2> QED
        BY <2>2, <2>3, <2>4
<1>10. ~ClearInFlight => LinkOK'
    <2> SUFFICES ASSUME ~ClearInFlight PROVE LinkOK'
        OBVIOUS
    <2>1. LinkOK
        BY DEF PInv
    <2>2. \A i \in DOMAIN entries : entries[i].attempts >= 1 => entries'[i].attempts >= 1
        BY <1>0, <1>3, <1>4, Fields
    <2>3. \A i : WasSent(i) => WasSent(i)'
        BY <1>2, <2>2 DEF WasSent
    <2>4. \A i \in DOMAIN entries :
              entries'[i].state \in {"sent", "acknowledged"} => entries'[i].attempts >= 1
        BY <1>3, <1>4, <2>1, <2>2 DEF LinkOK
    <2> QED
        BY <1>1, <1>2, <2>1, <2>3, <2>4 DEF LinkOK
<1>11. TimeoutWithinBackoff' <=> TimeoutWithinBackoff
    BY DEF TimeoutWithinBackoff
<1>12. Registered'
    <2>1. \A i \in DOMAIN records : records[i].expectation.deadline <= now + AckTimeout
        BY DEF PInv, Registered
    <2>2. \A i \in out : entries'[i].last_send = now
        BY <1>3
    <2>3. ASSUME NEW i \in DOMAIN entries \ out, entries'[i].state = "sent"
          PROVE  /\ i \in DOMAIN records /\ records[i].state \in {"waiting", "timed_out"}
                 /\ records[i].expectation.deadline <= entries'[i].last_send + AckTimeout
        <3>1. entries[i].state = "sent" /\ entries'[i].last_send = entries[i].last_send
            BY <1>4, <2>3
        <3> QED
            BY <1>0, <3>1 DEF PInv, Registered
    <2> QED
        BY <1>1, <1>2, <2>1, <2>2, <2>3 DEF Registered
<1> QED
    BY <1>5, <1>6, <1>7, <1>8, <1>9, <1>10, <1>11, <1>12 DEF PInv
\* expect() registers the send that due() handed out, with a deadline no later
\* than its repetition; it is refused only when the ack timeout is too long.
LEMMA ExpectKeeps ==
    ASSUME PInv, NEW id \in outbox, RoundExpect(id)
    PROVE  PInv'
<1> DEFINE e == entries[id]
           x == ExpectationFromEntry(e)
           r == T!NewRecord(x)
<1>0. /\ StoresOK /\ id \in DOMAIN entries /\ e.state = "sent" /\ e.last_send # 0
      /\ e.attempts \in 1..MaxAttempts /\ e.next_attempt = e.last_send + J!RetryDelay(e.attempts)
      /\ e.command.id = id /\ id \in Nat \ {0} /\ AckTimeout \in Nat /\ MaxAttempts \in Nat
      /\ now \in Nat \ {0} /\ nextId \in Nat \ {0} /\ pc = "expect"
    BY ControlAssumption DEF PInv, OutboxOK, SendsOK, StoresOK, J!JournalAssumption, RoundExpect
<1>1. e \in Entry /\ e.command.device \in Device /\ e.last_send \in Nat /\ e.next_attempt \in Nat
    BY <1>0, Fields
<1>2. /\ outbox' = outbox \ {id} /\ packets' = packets \cup {[id |-> id, device |-> e.command.device]}
      /\ UNCHANGED <<entries, nextId, now, pc, acks>>
      /\ T!Expect(x) \/ (~T!Registrable(x) /\ records' = records)
    BY DEF RoundExpect, journalVars, trackerVars
<1>3. /\ x = [command_id |-> id, device |-> e.command.device, deadline |-> e.last_send + AckTimeout,
              required |-> 1]
    BY <1>0 DEF ExpectationFromEntry
<1>4. /\ r \in Record /\ r.expectation = x /\ r.state = "waiting" /\ r.accepts = 0 /\ r.rejects = 0
    <2>1. x \in T!Expectation /\ [x EXCEPT !.required = 1] = x
        BY <1>0, <1>1, <1>3 DEF T!Expectation
    <2>2. r = [expectation |-> x, state |-> "waiting", accepts |-> 0, rejects |-> 0]
        BY <1>3, <2>1 DEF T!NewRecord, T!Required
    <2> HIDE DEF x, r
    <2> QED
        BY <2>1, <2>2 DEF Record
<1> HIDE DEF r
<1>5. ASSUME T!Expect(x)
      PROVE  /\ DOMAIN records' = DOMAIN records \cup {id} /\ records'[id] = r
             /\ \A i \in DOMAIN records : i # id => records'[i] = records[i]
             /\ records' \in [DOMAIN records' -> Record]
    <2>1. records' = [i \in DOMAIN records \cup {id} |-> IF i = id THEN r ELSE records[i]]
        BY <1>3, <1>5 DEF T!Expect, r
    <2> QED
        BY <1>0, <1>4, <2>1, Fields
<1>6. TimeoutWithinBackoff => T!Expect(x)
    <2> SUFFICES ASSUME TimeoutWithinBackoff PROVE T!Registrable(x)
        BY <1>2
    <2>1. id \notin T!Waiting
        BY DEF PInv, Fresh
    <2>2. id \in DOMAIN records => records[id].state \in T!EndStates
        BY <1>0, <2>1, Fields DEF T!Waiting
    <2> QED
        BY <1>0, <1>3, <2>2 DEF T!Registrable, T!Ended
<1> HIDE DEF x
<1>7. StoresOK'
    <2>1. /\ records' \in [DOMAIN records' -> Record] /\ DOMAIN records' \subseteq DOMAIN entries'
        BY <1>0, <1>2, <1>5 DEF StoresOK
    <2>2. \A i \in DOMAIN records' :
              LET y == records'[i].expectation
              IN  /\ y.device = entries'[i].command.device /\ y.required = 1 /\ y.deadline # 0
                  /\ records'[i].state = "waiting" => records'[i].accepts = 0
        <3> SUFFICES ASSUME NEW i \in DOMAIN records'
                     PROVE  LET y == records'[i].expectation
                            IN  /\ y.device = entries[i].command.device /\ y.required = 1 /\ y.deadline # 0
                                /\ records'[i].state = "waiting" => records'[i].accepts = 0
            BY <1>2
        <3>1. CASE i \in DOMAIN records /\ records'[i] = records[i]
            BY <1>0, <3>1 DEF StoresOK
        <3>2. CASE i = id /\ records'[i] = r
            <4>1. x.device = e.command.device /\ x.required = 1 /\ x.deadline # 0
                BY <1>0, <1>1, <1>3
            <4> QED
                BY <1>4, <3>2, <4>1
        <3> QED
            BY <1>2, <1>5, <3>1, <3>2
    <2>3. packets' \subseteq [id : Nat, device : Device]
        BY <1>0, <1>1, <1>2 DEF StoresOK
    <2> QED
        BY <1>0, <1>2, <2>1, <2>2, <2>3 DEF StoresOK
<1>8. SendsOK' /\ OutboxOK'
    BY <1>0, <1>2 DEF PInv, SendsOK, OutboxOK
<1>9. RefusalSettlesBoth'
    BY <1>2, <1>4, <1>5 DEF PInv, RefusalSettlesBoth
<1>10. TimeoutWithinBackoff => Ordered' /\ Fresh' /\ Tracked'
    <2> SUFFICES ASSUME TimeoutWithinBackoff PROVE Ordered' /\ Fresh' /\ Tracked'
        OBVIOUS
    <2>0. /\ Ordered /\ Fresh /\ Tracked
          /\ DOMAIN records' = DOMAIN records \cup {id} /\ records'[id] = r
          /\ \A i \in DOMAIN records : i # id => records'[i] = records[i]
        BY <1>5, <1>6 DEF PInv
    <2>1. T!Waiting' = T!Waiting \cup {id}
        BY <1>4, <2>0 DEF T!Waiting
    <2>2. r.expectation.deadline = e.last_send + AckTimeout
        BY <1>3, <1>4
    <2>3. r.expectation.deadline <= e.next_attempt
        <3>1. AckTimeout <= J!RetryDelay(e.attempts) /\ J!RetryDelay(e.attempts) \in Nat
            BY <1>0, DelayTyped DEF TimeoutWithinBackoff
        <3> QED
            BY <1>0, <1>1, <2>2, <3>1
    <2>4. Ordered'
        BY <1>2, <2>0, <2>1, <2>3 DEF Ordered, T!Waiting
    <2>5. Fresh'
        BY <1>0, <1>2, <2>0, <2>1 DEF Fresh
    <2>6. Tracked'
        BY <1>2, <1>4, <2>0, <2>2 DEF Tracked
    <2> QED
        BY <2>4, <2>5, <2>6
<1>11. ~ClearInFlight => LinkOK'
    <2>1. \A i : WasSent(i)' <=> WasSent(i)
        BY <1>2 DEF WasSent
    <2>2. WasSent(id)
        BY <1>0 DEF WasSent
    <2> QED
        BY <1>2, <2>1, <2>2 DEF PInv, LinkOK
<1>12. TimeoutWithinBackoff' <=> TimeoutWithinBackoff
    BY DEF TimeoutWithinBackoff
<1>13. Registered'
    <2>0. Registered /\ e.last_send = now
        BY DEF PInv, Registered
    <2>1. CASE T!Expect(x)
        <3>1. r.expectation.deadline = e.last_send + AckTimeout
            BY <1>3, <1>4
        <3> QED
            BY <1>0, <1>1, <1>2, <1>4, <1>5, <2>0, <2>1, <3>1 DEF Registered
    <2>2. CASE ~T!Registrable(x) /\ records' = records
        <3>1. id \in DOMAIN records /\ records[id].state = "waiting"
            <4>1. id \in DOMAIN records /\ records[id].state \notin T!EndStates
                BY <1>0, <1>3, <2>2 DEF T!Registrable, T!Ended
            <4> QED
                BY <1>0, <4>1, Fields
        <3> QED
            BY <1>2, <2>0, <2>2, <3>1 DEF Registered
    <2> QED
        BY <1>2, <2>1, <2>2
<1> QED
    BY <1>7, <1>8, <1>9, <1>10, <1>11, <1>12, <1>13 DEF PInv

\* Cancelling ends the command on both sides.
LEMMA CancelKeeps ==
    ASSUME PInv, NEW id \in DOMAIN entries, CancelCommand(id)
    PROVE  PInv'
<1> DEFINE f == J!WithState(entries[id], "cancelled")
           r == [records[id] EXCEPT !.state = "cancelled"]
<1>0. StoresOK /\ pc = "idle" /\ outbox = {}
    BY DEF PInv, OutboxOK, CancelCommand
<1>1. /\ entries' = [entries EXCEPT ![id] = f] /\ UNCHANGED <<nextId, now, pc, outbox, packets, acks>>
      /\ \/ id \in T!Waiting /\ records' = [records EXCEPT ![id] = r]
         \/ id \notin T!Waiting /\ records' = records
    BY DEF CancelCommand, J!Cancel, T!CancelExpectation, threadVars, linkVars, trackerVars
<1>2. /\ f \in Entry /\ f.state = "cancelled" /\ f.command = entries[id].command
      /\ f.attempts = entries[id].attempts /\ J!Terminal(f.state)
    <2>1. entries[id] \in Entry /\ "cancelled" \in J!States /\ J!Terminal("cancelled")
        BY <1>0, Fields DEF J!States, J!TerminalStates, J!Terminal
    <2> QED
        BY <2>1, StateMoved
<1>3. id \in DOMAIN records =>
        /\ r \in Record /\ r.expectation = records[id].expectation /\ r.state = "cancelled"
        /\ r.rejects = records[id].rejects
    BY <1>0, Fields DEF Record, T!EndStates
<1> HIDE DEF f, r
<1>4. /\ DOMAIN entries' = DOMAIN entries /\ entries'[id] = f
      /\ \A i \in DOMAIN entries : i # id => entries'[i] = entries[i]
      /\ entries' \in [DOMAIN entries' -> Entry]
    BY <1>0, <1>1, <1>2, Fields DEF StoresOK
<1>5. /\ DOMAIN records' = DOMAIN records /\ records' \in [DOMAIN records' -> Record]
      /\ \A i \in DOMAIN records : i # id => records'[i] = records[i]
      /\ id \in DOMAIN records =>
            /\ records'[id].expectation = records[id].expectation /\ records'[id].state # "waiting"
            /\ records'[id].rejects = records[id].rejects
    <2>1. CASE id \in T!Waiting /\ records' = [records EXCEPT ![id] = r]
        <3>1. id \in DOMAIN records
            BY <2>1 DEF T!Waiting
        <3> QED
            BY <1>0, <1>3, <2>1, <3>1, Fields DEF StoresOK
    <2>2. CASE id \notin T!Waiting /\ records' = records
        BY <1>0, <2>2 DEF T!Waiting, StoresOK
    <2> QED
        BY <1>1, <2>1, <2>2
<1>6. StoresOK'
    <2>1. \A i \in DOMAIN entries : entries'[i].command = entries[i].command
        BY <1>2, <1>4
    <2>2. \A i \in DOMAIN records' :
              LET x == records'[i].expectation
              IN  /\ x.device = entries'[i].command.device /\ x.required = 1 /\ x.deadline # 0
                  /\ records'[i].state = "waiting" => records'[i].accepts = 0
        BY <1>0, <1>5, <2>1 DEF StoresOK
    <2>3. DOMAIN records' \subseteq DOMAIN entries'
          /\ \A i \in DOMAIN entries' : i \in Nat \ {0} /\ i < nextId' /\ entries'[i].command.id = i
        BY <1>0, <1>1, <1>4, <1>5, <2>1 DEF StoresOK
    <2> QED
        BY <1>0, <1>1, <1>4, <1>5, <2>2, <2>3 DEF StoresOK
<1>7. SendsOK' /\ OutboxOK'
    BY <1>0, <1>1, <1>2, <1>4 DEF PInv, SendsOK, OutboxOK
<1>8. RefusalSettlesBoth'
    BY <1>2, <1>4, <1>5 DEF PInv, RefusalSettlesBoth
<1>9. TimeoutWithinBackoff => Ordered' /\ Fresh' /\ Tracked'
    <2> SUFFICES ASSUME TimeoutWithinBackoff PROVE Ordered' /\ Fresh' /\ Tracked'
        OBVIOUS
    <2>0. Ordered /\ Fresh /\ Tracked /\ T!Waiting' \subseteq T!Waiting \ {id}
          /\ T!Waiting \subseteq DOMAIN entries
        BY <1>0, <1>5 DEF PInv, T!Waiting, StoresOK
    <2>1. Ordered'
        BY <1>4, <1>5, <2>0 DEF Ordered, T!Waiting
    <2>2. Fresh'
        BY <1>0, <1>1, <2>0 DEF Fresh
    <2>3. Tracked'
        BY <1>1, <1>2, <1>4, <1>5, <2>0 DEF Tracked
    <2> QED
        BY <2>1, <2>2, <2>3
<1>10. ~ClearInFlight => LinkOK'
    <2>1. \A i : WasSent(i) => WasSent(i)'
        BY <1>2, <1>4 DEF WasSent
    <2> QED
        BY <1>1, <1>2, <1>4, <2>1 DEF PInv, LinkOK
<1>11. TimeoutWithinBackoff' <=> TimeoutWithinBackoff
    BY DEF TimeoutWithinBackoff
<1>12. Registered'
    BY <1>0, <1>1, <1>2, <1>4, <1>5 DEF PInv, Registered
<1> QED
    BY <1>6, <1>7, <1>8, <1>9, <1>10, <1>11, <1>12 DEF PInv
\* What an acknowledgement makes of the entry it names.
AcknowledgedAs(e, a, f) ==
    /\ f \in Entry /\ f.command = e.command /\ f.attempts = e.attempts
    /\ CASE a.status = "accepted" -> f.state = "acknowledged"
         [] a.status = "busy"     -> f.state = "pending" /\ a.time <= f.next_attempt
         [] OTHER                 -> f.state = "failed"

\* What one answer does to the entry of a command.
LEMMA AcknowledgedEntry ==
    ASSUME NEW e \in Entry, NEW a \in Answer
    PROVE  AcknowledgedAs(e, a, J!Acknowledged(e, a))
<1>1. {"acknowledged", "failed", "pending"} \subseteq J!States /\ e.attempts \in Nat /\ a.time \in Nat
    BY DEF J!States, J!TerminalStates, Entry, Answer
<1>2. CASE a.status = "accepted"
    BY <1>1, <1>2, StateMoved DEF J!Acknowledged, AcknowledgedAs
<1>3. CASE a.status = "busy"
    <2> DEFINE g == J!WithState(e, "pending")
               t == a.time + J!RetryDelay(e.attempts + 1)
    <2>1. J!Acknowledged(e, a) = [g EXCEPT !.next_attempt = t]
        BY <1>3 DEF J!Acknowledged
    <2>2. g \in Entry /\ g.state = "pending" /\ g.command = e.command /\ g.attempts = e.attempts
        BY <1>1, StateMoved
    <2>3. t \in Nat /\ a.time <= t
        <3>1. J!RetryDelay(e.attempts + 1) \in Nat
            BY <1>1, DelayTyped
        <3> QED
            BY <1>1, <3>1
    <2> HIDE DEF g, t
    <2>4. /\ [g EXCEPT !.next_attempt = t] \in Entry
          /\ LET f == [g EXCEPT !.next_attempt = t]
             IN  /\ f.state = "pending" /\ f.command = e.command /\ f.attempts = e.attempts
                 /\ f.next_attempt = t
        BY <2>2, <2>3 DEF Entry
    <2> QED
        BY <1>3, <2>1, <2>3, <2>4 DEF AcknowledgedAs
<1>4. CASE a.status = "rejected"
    BY <1>1, <1>4, StateMoved DEF J!Acknowledged, AcknowledgedAs
<1> QED
    BY <1>2, <1>3, <1>4 DEF Answer

\* An acknowledgement reaches both sides: one that the journal applies finds the
\* record finished, finishes it or is stale for it, and a refusal that the
\* tracker counts ends the command in the journal.
LEMMA DeliverKeeps ==
    ASSUME PInv, NEW a \in acks, Deliver(a)
    PROVE  PInv'
<1> DEFINE id == a.command_id
<1>0. /\ StoresOK /\ pc = "idle" /\ outbox = {} /\ a \in Answer /\ a.time \in Nat
      /\ J!Acknowledge(a) /\ T!Observe(a)
      /\ UNCHANGED <<nextId, now, pc, outbox, packets>> /\ acks' \subseteq acks
    BY DEF PInv, StoresOK, Answer, OutboxOK, Deliver, J!Acknowledge, threadVars
<1>1. /\ DOMAIN records' = DOMAIN records /\ records' = [i \in DOMAIN records |-> records'[i]]
      /\ \A i \in DOMAIN records : i # id => records'[i] = records[i]
      /\ id \in DOMAIN records => ObservedAs(records[id], a, records'[id])
    BY <1>0, ObserveMoves
<1>2. CASE ~J!AckApplies(a)
    <2>1. entries' = entries
        BY <1>0, <1>2 DEF J!Acknowledge
    <2>2. id \in DOMAIN records => J!Terminal(entries[id].state) \/ records'[id] = records[id]
        <3> SUFFICES ASSUME id \in DOMAIN records, ~J!Terminal(entries[id].state)
                     PROVE  records'[id] = records[id]
            OBVIOUS
        <3>1. id \in DOMAIN entries /\ records[id].expectation.device = entries[id].command.device
            BY <1>0 DEF StoresOK
        <3>2. entries[id].command.device # a.device
            BY <1>2, <3>1 DEF J!AckApplies
        <3> QED
            BY <1>1, <3>1, <3>2 DEF ObservedAs
    <2>3. \A i \in DOMAIN records :
              /\ records'[i] \in Record /\ records'[i].expectation = records[i].expectation
              /\ records'[i].state = "waiting" => records'[i] = records[i]
              /\ J!Terminal(entries[i].state) \/ records'[i] = records[i]
        BY <1>0, <1>1, <2>2, Fields DEF ObservedAs
    <2>4. StoresOK'
        <3>1. records' \in [DOMAIN records' -> Record] /\ DOMAIN records' \subseteq DOMAIN entries'
            BY <1>0, <1>1, <2>1, <2>3 DEF StoresOK
        <3>2. \A i \in DOMAIN records' :
                  LET x == records'[i].expectation
                  IN  /\ x.device = entries'[i].command.device /\ x.required = 1 /\ x.deadline # 0
                      /\ records'[i].state = "waiting" => records'[i].accepts = 0
            BY <1>0, <1>1, <2>1, <2>3 DEF StoresOK
        <3> QED
            BY <1>0, <2>1, <3>1, <3>2 DEF StoresOK
    <2>5. SendsOK' /\ OutboxOK'
        BY <1>0, <2>1 DEF PInv, SendsOK, OutboxOK
    <2>6. RefusalSettlesBoth'
        <3>1. \A i \in DOMAIN records : i \in DOMAIN entries
            BY <1>0 DEF StoresOK
        <3> QED
            BY <1>1, <2>1, <2>3, <3>1 DEF PInv, RefusalSettlesBoth
    <2>7. TimeoutWithinBackoff => Ordered' /\ Fresh' /\ Tracked'
        <3> SUFFICES ASSUME TimeoutWithinBackoff PROVE Ordered' /\ Fresh' /\ Tracked'
            OBVIOUS
        <3>0. Ordered /\ Fresh /\ Tracked /\ T!Waiting' \subseteq T!Waiting
            BY <1>1, <2>3 DEF PInv, T!Waiting
        <3>1. Ordered'
            BY <2>1, <2>3, <3>0 DEF Ordered, T!Waiting
        <3>2. Fresh'
            BY <1>0, <3>0 DEF Fresh
        <3>3. Tracked'
            <4>1. \A i \in DOMAIN entries : entries[i].state = "sent" => ~J!Terminal(entries[i].state)
                BY DEF J!Terminal, J!TerminalStates
            <4> QED
                BY <1>0, <1>1, <2>1, <2>3, <3>0, <4>1 DEF Tracked
        <3> QED
            BY <3>1, <3>2, <3>3
    <2>8. ~ClearInFlight => LinkOK'
        <3>1. \A i : WasSent(i)' <=> WasSent(i)
            BY <2>1 DEF WasSent
        <3> QED
            BY <1>0, <2>1, <3>1 DEF PInv, LinkOK
    <2>9. TimeoutWithinBackoff' <=> TimeoutWithinBackoff
        BY DEF TimeoutWithinBackoff
    <2>10. Registered'
        <3>1. \A i \in DOMAIN entries : entries[i].state = "sent" => ~J!Terminal(entries[i].state)
            BY DEF J!Terminal, J!TerminalStates
        <3> QED
            BY <1>0, <1>1, <2>1, <2>3, <3>1 DEF PInv, Registered
    <2> QED
        BY <2>4, <2>5, <2>6, <2>7, <2>8, <2>9, <2>10 DEF PInv
<1>3. CASE J!AckApplies(a)
    <2> DEFINE e == entries[id]
               f == J!Acknowledged(e, a)
    <2>1. /\ id \in DOMAIN entries /\ e.command.device = a.device /\ ~J!Terminal(e.state)
          /\ entries' = [entries EXCEPT ![id] = f]
        BY <1>0, <1>3 DEF J!AckApplies, J!Acknowledge
    <2>2. AcknowledgedAs(e, a, f) /\ e \in Entry
        BY <1>0, <2>1, Fields, AcknowledgedEntry
    <2> HIDE DEF f
    <2>3. /\ DOMAIN entries' = DOMAIN entries /\ entries'[id] = f
          /\ \A i \in DOMAIN entries : i # id => entries'[i] = entries[i]
        BY <1>0, <2>1 DEF StoresOK
    <2>4. entries' \in [DOMAIN entries' -> Entry]
        BY <1>0, <2>1, <2>2, <2>3, Fields DEF AcknowledgedAs, StoresOK
    <2>5. \A i \in DOMAIN entries : entries'[i].command = entries[i].command
                                    /\ entries'[i].attempts = entries[i].attempts
        BY <2>2, <2>3 DEF AcknowledgedAs
    <2>6. ASSUME id \in DOMAIN records
          PROVE  /\ records'[id] \in Record /\ records'[id].expectation = records[id].expectation
                 /\ records'[id].state = "waiting" =>
                        records'[id] = records[id] /\ a.time > records[id].expectation.deadline
                 /\ records'[id].rejects > 0 => a.status = "rejected"
        <3>1. ~(records[id].rejects > 0)
            BY <2>1, <2>6 DEF PInv, RefusalSettlesBoth
        <3>2. records[id].expectation.device = a.device
            BY <1>0, <2>1, <2>6 DEF StoresOK
        <3> QED
            BY <1>1, <2>6, <3>1, <3>2 DEF ObservedAs
    <2>7. StoresOK'
        <3>1. records' \in [DOMAIN records' -> Record] /\ DOMAIN records' \subseteq DOMAIN entries'
            BY <1>0, <1>1, <2>3, <2>6, Fields DEF StoresOK
        <3>2. \A i \in DOMAIN records' :
                  LET x == records'[i].expectation
                  IN  /\ x.device = entries'[i].command.device /\ x.required = 1 /\ x.deadline # 0
                      /\ records'[i].state = "waiting" => records'[i].accepts = 0
            BY <1>0, <1>1, <2>5, <2>6 DEF StoresOK
        <3>3. \A i \in DOMAIN entries' : i \in Nat \ {0} /\ i < nextId' /\ entries'[i].command.id = i
            BY <1>0, <2>3, <2>5 DEF StoresOK
        <3>4. /\ now' \in Nat \ {0} /\ pc' \in {"idle", "due", "expect"} /\ nextId' \in Nat \ {0}
              /\ packets' \subseteq [id : Nat, device : Device] /\ acks' \subseteq Answer
            BY <1>0 DEF StoresOK
        <3> QED
            BY <2>4, <3>1, <3>2, <3>3, <3>4 DEF StoresOK
    <2>8. f.state # "sent" /\ (a.status = "rejected" => J!Terminal(f.state))
          /\ (~J!Terminal(f.state) => a.time <= f.next_attempt)
        BY <1>0, <2>2 DEF AcknowledgedAs, Answer, J!Terminal, J!TerminalStates
    <2>9. SendsOK' /\ OutboxOK'
        BY <1>0, <2>3, <2>8 DEF PInv, SendsOK, OutboxOK
    <2>10. RefusalSettlesBoth'
        BY <1>1, <2>1, <2>3, <2>6, <2>8 DEF PInv, RefusalSettlesBoth
    <2>11. TimeoutWithinBackoff => Ordered' /\ Fresh' /\ Tracked'
        <3> SUFFICES ASSUME TimeoutWithinBackoff PROVE Ordered' /\ Fresh' /\ Tracked'
            OBVIOUS
        <3>0. /\ Ordered /\ Fresh /\ Tracked /\ T!Waiting' \subseteq T!Waiting
              /\ T!Waiting \subseteq DOMAIN entries /\ T!Waiting \subseteq DOMAIN records
            BY <1>0, <1>1, <2>6 DEF PInv, T!Waiting, StoresOK
        <3>1. Ordered'
            <4> SUFFICES ASSUME NEW i \in T!Waiting', ~J!Terminal(entries'[i].state)
                         PROVE  records'[i].expectation.deadline <= entries'[i].next_attempt
                BY DEF Ordered
            <4>1. CASE i # id
                BY <1>1, <2>3, <3>0, <4>1 DEF Ordered
            <4>2. CASE i = id
                <5>1. /\ records'[id].expectation.deadline = records[id].expectation.deadline
                      /\ a.time > records[id].expectation.deadline
                    BY <2>6, <3>0, <4>2 DEF T!Waiting
                <5>2. a.time <= f.next_attempt /\ entries'[i] = f
                    BY <2>3, <2>8, <4>2
                <5>3. records[id].expectation.deadline \in Nat /\ f.next_attempt \in Nat
                    BY <1>0, <2>2, <3>0, <4>2, Fields DEF AcknowledgedAs, Entry
                <5> QED
                    BY <1>0, <4>2, <5>1, <5>2, <5>3
            <4> QED
                BY <4>1, <4>2
        <3>2. Fresh'
            BY <1>0, <3>0 DEF Fresh
        <3>3. Tracked'
            BY <1>0, <1>1, <2>3, <2>8, <3>0 DEF Tracked
        <3> QED
            BY <3>1, <3>2, <3>3
    <2>12. ~ClearInFlight => LinkOK'
        <3>1. \A i : WasSent(i) <=> WasSent(i)'
            BY <2>3, <2>5 DEF WasSent
        <3> SUFFICES ASSUME ~ClearInFlight PROVE LinkOK'
            OBVIOUS
        <3>2. entries[id].attempts >= 1
            BY DEF PInv, LinkOK, WasSent
        <3> QED
            BY <1>0, <2>3, <2>5, <3>1, <3>2 DEF PInv, LinkOK
    <2>13. TimeoutWithinBackoff' <=> TimeoutWithinBackoff
        BY DEF TimeoutWithinBackoff
    <2>14. Registered'
        BY <1>0, <1>1, <2>3, <2>6, <2>8 DEF PInv, Registered
    <2> QED
        BY <2>7, <2>9, <2>10, <2>11, <2>12, <2>13, <2>14 DEF PInv
<1> QED
    BY <1>2, <1>3

\* Every step keeps the invariant.
LEMMA NextPInv == PInv /\ [Next]_vars => PInv'
<1> SUFFICES ASSUME PInv, [Next]_vars PROVE PInv'
    OBVIOUS
<1>1. CASE \E d \in Device, intent \in Intent : Submit(d, intent)
    BY <1>1, SubmitKeeps
<1>2. CASE Round
    BY <1>2, TimeoutsKeep, DueKeeps, ExpectKeeps, EnvironmentKeeps DEF Round
<1>3. CASE \E a \in acks : Deliver(a)
    BY <1>3, DeliverKeeps
<1>4. CASE \E id \in DOMAIN entries : CancelCommand(id)
    BY <1>4, CancelKeeps
<1>5. CASE ClearAll
    BY <1>5, ClearKeeps
<1>6. CASE \/ \E p \in packets, status \in {"accepted", "busy", "rejected"}, again \in BOOLEAN :
                 DeviceAnswer(p, status, again)
           \/ \E p \in packets : LosePacket(p)
           \/ \E a \in acks : LoseAck(a)
           \/ Tick \/ UNCHANGED vars
    BY <1>6, EnvironmentKeeps
<1> QED
    BY <1>1, <1>2, <1>3, <1>4, <1>5, <1>6 DEF Next

\* Journal and tracker agree about every command between rounds (SidesAgree):
\* every send that is out has a record that waits or has timed out, with a deadline
\* no later than its own, and with exactly its own if the ack timeout is within the
\* backoff; no command counts as acknowledged that was never sent, provided that
\* clear() waits for the link to drain; and a refusal ends the command on both
\* sides.  The two provisos are up to the caller; commands, devices and retry policy
\* are any, and packets and answers are lost, repeated, delayed and reordered.
THEOREM JournalAndTrackerAgree == Spec => []SidesAgree
<1>1. PInv => SidesAgree
    <2> SUFFICES ASSUME PInv PROVE SidesAgree
        OBVIOUS
    <2>1. EverySendTracked
        BY DEF PInv, OutboxOK, Registered, Tracked, EverySendTracked
    <2>2. AcknowledgedWasSent
        BY DEF PInv, LinkOK, AcknowledgedWasSent
    <2> QED
        BY <2>1, <2>2 DEF PInv, SidesAgree
<1> QED
    BY <1>1, InitPInv, NextPInv, PTL DEF Spec

-----------------------------------------------------------------------------
(* The round and the link make only calls that journal and tracker are     *)
(* specified for, so what is proved of each alone holds of it here.        *)

\* They count alike.
LEMMA SameCardinality == \A S : J!Cardinality(S) = JP!Cardinality(S) /\ T!Cardinality(S) = JP!Cardinality(S)
BY Zenon DEF J!Cardinality, JP!Cardinality, T!Cardinality

\* The journal is the same whoever calls it.
LEMMA SameJournal ==
    /\ J!Init => JP!Init
    /\ \A c : J!AppendAccepted(c) => JP!AppendAccepted(c)
    /\ \A t, n : J!Due(t, n) => JP!Due(t, n)
    /\ \A a : J!Acknowledge(a) => JP!Acknowledge(a)
    /\ \A i : J!Cancel(i) => JP!Cancel(i)
    /\ J!Clear => JP!Clear
<1>1. J!ZeroStats = JP!ZeroStats /\ J!Active = JP!Active /\ J!TerminalStates = JP!TerminalStates
    BY DEF J!ZeroStats, JP!ZeroStats, J!Active, JP!Active, J!Terminal, JP!Terminal, J!TerminalStates,
           JP!TerminalStates
<1>2. \A n : J!RetryDelay(n) = JP!RetryDelay(n)
    BY Zenon DEF J!RetryDelay, JP!RetryDelay, J!SaturatingMultiply, JP!SaturatingMultiply
<1>3. J!Init => JP!Init
    BY <1>1 DEF J!Init, JP!Init
<1>4. \A c : J!AppendAccepted(c) => JP!AppendAccepted(c)
    BY <1>1, SameCardinality, Zenon DEF J!AppendAccepted, JP!AppendAccepted, J!DuplicateActiveCommand,
        JP!DuplicateActiveCommand, J!SameActiveIntent, JP!SameActiveIntent, J!IdTaken, JP!IdTaken,
        J!NewEntry, JP!NewEntry, J!NextIdAfter, JP!NextIdAfter
<1>5. \A t, n : J!Due(t, n) => JP!Due(t, n)
    <2>1. \A e, t : J!Overdue(e, t) = JP!Overdue(e, t)
        BY <1>1, Zenon DEF J!Overdue, JP!Overdue, J!Terminal, JP!Terminal
    <2>2. \A e, t : J!DueNow(e, t) = JP!DueNow(e, t)
        BY <1>1, <2>1, Zenon DEF J!DueNow, JP!DueNow, J!Terminal, JP!Terminal
    <2>3. \A e : J!Exhausted(e) = JP!Exhausted(e)
        BY Zenon DEF J!Exhausted, JP!Exhausted
    <2>4. \A e, t : J!Handled(e, t) = JP!Handled(e, t)
        BY <1>2, <2>1, <2>2, <2>3 DEF J!Handled, JP!Handled, J!Sent, JP!Sent, J!WithState, JP!WithState
    <2>5. \A t : J!Dispatchable(t) = JP!Dispatchable(t)
        BY <2>2, <2>3 DEF J!Dispatchable, JP!Dispatchable
    <2>6. \A t, n : J!Visited(t, n) = JP!Visited(t, n)
        BY <2>5, SameCardinality DEF J!Visited, JP!Visited
    <2>7. \A t, n : J!Dispatched(t, n) = JP!Dispatched(t, n)
        BY <2>5, <2>6 DEF J!Dispatched, JP!Dispatched
    <2> QED
        BY <2>1, <2>2, <2>3, <2>4, <2>6, <2>7, SameCardinality DEF J!Due, JP!Due
<1>6. \A a : J!Acknowledge(a) => JP!Acknowledge(a)
    <2>1. \A a : J!AckApplies(a) = JP!AckApplies(a)
        BY <1>1, Zenon DEF J!AckApplies, JP!AckApplies, J!Terminal, JP!Terminal
    <2>2. \A e, a : J!Acknowledged(e, a) = JP!Acknowledged(e, a)
        BY <1>2 DEF J!Acknowledged, JP!Acknowledged, J!WithState, JP!WithState
    <2>3. \A s : J!AckOutcome(s) = JP!AckOutcome(s)
        BY DEF J!AckOutcome, JP!AckOutcome
    <2> QED
        BY <2>1, <2>2, <2>3 DEF J!Acknowledge, JP!Acknowledge
<1>7. \A i : J!Cancel(i) => JP!Cancel(i)
    BY <1>1, Zenon DEF J!Cancel, JP!Cancel, J!Terminal, JP!Terminal, J!WithState, JP!WithState
<1>8. J!Clear => JP!Clear
    BY <1>1 DEF J!Clear, JP!Clear
<1> QED
    BY <1>3, <1>4, <1>5, <1>6, <1>7, <1>8

\* So is the tracker.
LEMMA SameTracker ==
    /\ T!InitTracker => JP!InitTracker
    /\ \A x : T!Expect(x) => JP!Expect(x)
    /\ \A a : T!Observe(a) => JP!Observe(a)
    /\ \A t : T!Timeouts(t) => JP!Timeouts(t)
    /\ \A i : T!CancelExpectation(i) => JP!CancelExpectation(i)
    /\ T!ResetTracker => JP!ResetTracker
<1>1. /\ T!ZeroTrackerStats = JP!ZeroTrackerStats /\ T!EndStates = JP!EndStates
      /\ T!Waiting = JP!Waiting /\ T!Observed = JP!Observed
    BY DEF T!ZeroTrackerStats, JP!ZeroTrackerStats, T!EndStates, JP!EndStates, T!Waiting, JP!Waiting,
           T!Observed, JP!Observed
<1>2. T!InitTracker => JP!InitTracker
    BY <1>1 DEF T!InitTracker, JP!InitTracker
<1>3. \A x : T!Expect(x) => JP!Expect(x)
    BY <1>1, Zenon DEF T!Expect, JP!Expect, T!Registrable, JP!Registrable, T!Ended, JP!Ended,
        T!NewRecord, JP!NewRecord, T!Required, JP!Required
<1>4. \A a : T!Observe(a) => JP!Observe(a)
    <2>1. \A r, a : T!Classify(r, a) = JP!Classify(r, a)
        BY <1>1 DEF T!Classify, JP!Classify, T!Ended, JP!Ended
    <2>2. \A r, k : T!RecordObservation(r, k) = JP!RecordObservation(r, k)
        BY DEF T!RecordObservation, JP!RecordObservation
    <2> QED
        BY <1>1, <2>1, <2>2, Zenon DEF T!Observe, JP!Observe
<1>5. \A t : T!Timeouts(t) => JP!Timeouts(t)
    <2>1. \A t : T!Late(t) = JP!Late(t)
        BY <1>1 DEF T!Late, JP!Late
    <2> QED
        BY <2>1, SameCardinality DEF T!Timeouts, JP!Timeouts
<1>6. \A i : T!CancelExpectation(i) => JP!CancelExpectation(i)
    BY <1>1, Zenon DEF T!CancelExpectation, JP!CancelExpectation, T!Ended, JP!Ended
<1>7. T!ResetTracker => JP!ResetTracker
    BY <1>1 DEF T!ResetTracker, JP!ResetTracker
<1> QED
    BY <1>2, <1>3, <1>4, <1>5, <1>6, <1>7

\* Every step is a call of the journal, with a value of its type, or none.
LEMMA JournalCalls == PInv /\ [Next]_vars => [JP!Next]_(JP!vars)
<1> SUFFICES ASSUME PInv, [Next]_vars, ~UNCHANGED journalVars PROVE JP!Next
    BY DEF journalVars, JP!vars
<1>1. now \in Nat /\ DueCount \in Nat /\ acks \subseteq Answer
    BY ControlAssumption DEF PInv, StoresOK
<1>2. ASSUME NEW d \in Device, NEW intent \in Intent, Submit(d, intent) PROVE JP!Next
    <2> DEFINE c == [id |-> 0, device |-> d, intent |-> intent, created |-> now, expires |-> 0]
    <2>1. c \in J!Command
        BY <1>1 DEF J!Command
    <2>2. JP!AppendAccepted(c)
        BY <1>2, SameJournal DEF Submit
    <2> QED
        BY <2>1, <2>2, Zenon DEF JP!Next
<1>3. ASSUME RoundDue PROVE JP!Next
    BY <1>1, <1>3, SameJournal DEF RoundDue, JP!Next
<1>4. ASSUME NEW a \in acks, Deliver(a) PROVE JP!Next
    <2>1. a \in J!Ack
        BY <1>1 DEF Answer, J!Ack, J!AckStatus
    <2>2. JP!Acknowledge(a)
        BY <1>4, SameJournal DEF Deliver
    <2> QED
        BY <2>1, <2>2, Zenon DEF JP!Next
<1>5. ASSUME NEW id \in DOMAIN entries, CancelCommand(id) PROVE JP!Next
    <2>1. JP!Cancel(id)
        BY <1>5, SameJournal DEF CancelCommand
    <2> QED
        BY <2>1, Zenon DEF JP!Next
<1>6. ASSUME ClearAll PROVE JP!Next
    BY <1>6, SameJournal, Zenon DEF ClearAll, JP!Next
<1>7. \/ \E d \in Device, intent \in Intent : Submit(d, intent)
      \/ RoundDue
      \/ \E a \in acks : Deliver(a)
      \/ \E id \in DOMAIN entries : CancelCommand(id)
      \/ ClearAll
    BY DEF Next, Round, RoundTimeouts, RoundExpect, RoundEnd, DeviceAnswer, LosePacket, LoseAck, Tick, vars
<1> QED
    BY <1>2, <1>3, <1>4, <1>5, <1>6, <1>7

\* Likewise the tracker: a refused expect() calls it in vain.
LEMMA TrackerCalls == PInv /\ [Next]_vars => [JP!NextTracker]_(JP!trackerVars)
<1> SUFFICES ASSUME PInv, [Next]_vars, ~UNCHANGED trackerVars PROVE JP!NextTracker
    BY DEF trackerVars, JP!trackerVars
<1>1. now \in Nat /\ AckTimeout \in Nat /\ acks \subseteq Answer
    BY ControlAssumption DEF PInv, StoresOK
<1>2. ASSUME RoundTimeouts PROVE JP!NextTracker
    BY <1>1, <1>2, SameTracker DEF RoundTimeouts, JP!NextTracker
<1>3. ASSUME NEW id \in outbox, RoundExpect(id) PROVE JP!NextTracker
    <2> DEFINE x == ExpectationFromEntry(entries[id])
    <2>1. id \in DOMAIN entries
        BY DEF PInv, OutboxOK
    <2>2. /\ entries[id].command \in J!Command /\ entries[id].last_send \in Nat
        BY <2>1, Fields DEF PInv
    <2>3. x \in T!Expectation
        BY <1>1, <2>2 DEF ExpectationFromEntry, T!Expectation, J!Command
    <2>4. T!Expect(x)
        BY <1>3 DEF RoundExpect
    <2> HIDE DEF x
    <2>5. JP!Expect(x)
        BY <2>4, SameTracker
    <2> QED
        BY <2>3, <2>5, Zenon DEF JP!NextTracker
<1>4. ASSUME NEW a \in acks, Deliver(a) PROVE JP!NextTracker
    <2>1. a \in J!Ack
        BY <1>1 DEF Answer, J!Ack, J!AckStatus
    <2>2. JP!Observe(a)
        BY <1>4, SameTracker DEF Deliver
    <2> QED
        BY <2>1, <2>2, Zenon DEF JP!NextTracker
<1>5. ASSUME NEW id \in DOMAIN entries, CancelCommand(id) PROVE JP!NextTracker
    <2>1. id \in T!Waiting /\ T!CancelExpectation(id)
        BY <1>5 DEF CancelCommand
    <2>2. id \in DOMAIN records /\ JP!CancelExpectation(id)
        BY <2>1, SameTracker DEF T!Waiting
    <2> QED
        BY <2>2, Zenon DEF JP!NextTracker
<1>6. ASSUME ClearAll PROVE JP!NextTracker
    BY <1>6, SameTracker, Zenon DEF ClearAll, JP!NextTracker
<1>7. \/ RoundTimeouts
      \/ \E id \in outbox : RoundExpect(id)
      \/ \E a \in acks : Deliver(a)
      \/ \E id \in DOMAIN entries : CancelCommand(id)
      \/ ClearAll
    BY DEF Next, Round, Submit, RoundDue, RoundEnd, DeviceAnswer, LosePacket, LoseAck, Tick, vars
<1> QED
    BY <1>2, <1>3, <1>4, <1>5, <1>6, <1>7

\* Over the unreliable link, in rounds and with a tracker beside it, the journal
\* runs as its own specification says.
THEOREM JournalImplemented == Spec => JP!Spec
<1>1. Init => JP!Init
    BY SameJournal DEF Init
<1> QED
    BY <1>1, InitPInv, NextPInv, JournalCalls, PTL DEF Spec, JP!Spec

\* So does the tracker, although acknowledgements reach it only through the
\* link and expectations only from what due() handed out.
THEOREM TrackerImplemented == Spec => JP!TrackerSpec
<1>1. Init => JP!InitTracker
    BY SameTracker DEF Init
<1> QED
    BY <1>1, InitPInv, NextPInv, TrackerCalls, PTL DEF Spec, JP!TrackerSpec

\* Hence every command is settled once and sent within its budget, its outcome
\* is final, and the verdict on it is what its answers say: for packets and
\* answers lost, duplicated, delayed and reordered.
THEOREM GuaranteesCarryOver ==
    Spec => []JP!CommandsAccounted /\ JP!OutcomeFinal /\ []JP!VerdictMatchesCounts
<1>1. JP!JournalAssumption
    BY ControlAssumption DEF J!JournalAssumption, JP!JournalAssumption, J!Command, JP!Command, J!Ack, JP!Ack,
        J!AckStatus, JP!AckStatus
<1>2. JP!Spec => []JP!CommandsAccounted
    BY <1>1, JP!CommandsSettledOnce
<1>3. JP!Spec => JP!OutcomeFinal
    BY <1>1, JP!OutcomesFinal
<1>4. JP!TrackerSpec => []JP!VerdictMatchesCounts
    <2>1. JP!TrackerAssumption
        BY ControlAssumption DEF T!TrackerAssumption, JP!TrackerAssumption, T!Expectation, JP!Expectation, J!Ack, JP!Ack,
            J!AckStatus, JP!AckStatus
    <2> QED
        BY <2>1, JP!VerdictExact
<1> QED
    BY <1>2, <1>3, <1>4, JournalImplemented, TrackerImplemented
=============================================================================
