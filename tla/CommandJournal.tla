--------------------------- MODULE CommandJournal ---------------------------
(***************************************************************************)
(* aethon::control::CommandJournal (src/control/command_journal.cpp):      *)
(* commands to devices are appended, handed out for sending by due() with  *)
(* exponential backoff, and settled by an acknowledgement, exhaustion,     *)
(* expiry or cancellation.                                                 *)
(*                                                                         *)
(* Abstracted: kind, label and payload, which the code only compares for   *)
(* equality, are one value (intent); the stored acknowledgement and the    *)
(* notes are only rendered; the packet made for a dispatch is the pair of  *)
(* command and attempt.  Multiplier is a whole number.                     *)
(***************************************************************************)
EXTENDS ControlMessages, FiniteSets

CONSTANTS
    Intent,             \* kind, label and payload of a command
    Commands,           \* the ControlCommand values callers append; id 0 asks for a fresh id
    Acks,               \* the CommandAck values callers pass to acknowledge()
    Time,               \* the now_ns values callers pass
    DueCounts,          \* the max_count values callers pass to due()
    MaxEntries,         \* CommandJournalConfig::max_entries
    DefaultTtl,         \* CommandJournalConfig::default_ttl_ns
    MaxAttempts, InitialDelay, MaxDelay, Multiplier,    \* RetryPolicy
    MaxId,              \* bound on the ids: the 64-bit counter never gets near its wrap
    MaxAppended,        \* bound on accepted commands between clears
    MaxRejections       \* bound on counted duplicate rejections

Command == [id : Nat, device : Device, intent : Intent, created : Nat, expires : Nat]

\* Assumed of the constants wherever this module is instantiated.
JournalAssumption ==
    /\ MaxEntries \in Nat /\ DefaultTtl \in Nat /\ MaxAttempts \in Nat
    /\ InitialDelay \in Nat /\ MaxDelay \in Nat /\ Multiplier \in Nat
    /\ MaxId \in Nat /\ MaxAppended \in Nat /\ MaxRejections \in Nat
    /\ Time \subseteq Nat /\ DueCounts \subseteq Nat
    /\ Commands \subseteq Command
    /\ Acks \subseteq Ack

VARIABLES
    entries,    \* entries_ : id -> [command, state, attempts, last_send, next_attempt]
    jstats,     \* stats_
    nextId      \* next_id_

vars == <<entries, jstats, nextId>>

-----------------------------------------------------------------------------
TerminalStates == {"acknowledged", "failed", "expired", "cancelled"}

Terminal(state) == state \in TerminalStates

ZeroStats == [appended |-> 0, dispatched |-> 0, acknowledged |-> 0, failed |-> 0,
              expired |-> 0, cancelled |-> 0, duplicate_rejections |-> 0]

Active == {i \in DOMAIN entries : ~Terminal(entries[i].state)}

SaturatingMultiply(value) ==
    IF value >= MaxDelay \/ value * Multiplier >= MaxDelay THEN MaxDelay
    ELSE IF value * Multiplier < 1 THEN 1 ELSE value * Multiplier

RetryDelay(attempts) ==
    LET delay[i \in 0..attempts] ==
            IF i <= 1 THEN InitialDelay ELSE SaturatingMultiply(delay[i - 1])
    IN  IF attempts = 0 THEN InitialDelay
        ELSE IF delay[attempts] < MaxDelay THEN delay[attempts] ELSE MaxDelay

-----------------------------------------------------------------------------
(* append()                                                                *)

SameActiveIntent(c, d) == c.device = d.device /\ c.intent = d.intent

DuplicateActiveCommand(c) == \E i \in Active : SameActiveIntent(entries[i].command, c)

IdTaken(c) == c.id # 0 /\ c.id \in DOMAIN entries

NextIdAfter(c) == IF c.id = 0 THEN nextId + 1
                  ELSE IF c.id + 1 > nextId THEN c.id + 1 ELSE nextId

NewEntry(c, id) ==
    [command |-> [id |-> id, device |-> c.device, intent |-> c.intent, created |-> c.created,
                  expires |-> IF c.expires = 0 THEN c.created + DefaultTtl ELSE c.expires],
     state |-> "pending", attempts |-> 0, last_send |-> 0, next_attempt |-> c.created]

AppendAccepted(c) ==
    LET id == IF c.id = 0 THEN nextId ELSE c.id
    IN  /\ Cardinality(DOMAIN entries) < MaxEntries
        /\ ~DuplicateActiveCommand(c) /\ ~IdTaken(c)
        /\ jstats.appended < MaxAppended
        /\ id <= MaxId
        /\ entries' = [i \in DOMAIN entries \cup {id} |->
                          IF i = id THEN NewEntry(c, id) ELSE entries[i]]
        /\ nextId' = NextIdAfter(c)
        /\ jstats' = [jstats EXCEPT !.appended = @ + 1]

AppendRejected(c) ==
    /\ Cardinality(DOMAIN entries) < MaxEntries
    /\ DuplicateActiveCommand(c) \/ IdTaken(c)
    /\ jstats.duplicate_rejections < MaxRejections
    /\ jstats' = [jstats EXCEPT !.duplicate_rejections = @ + 1]
    /\ UNCHANGED <<entries, nextId>>

-----------------------------------------------------------------------------
(* due(now, max): one pass in id order that stops once max commands have   *)
(* been handed out.  An entry is visited iff fewer than max of the entries *)
(* before it are handed out.                                               *)

Overdue(e, now) == ~Terminal(e.state) /\ e.command.expires # 0 /\ now >= e.command.expires

DueNow(e, now) == ~Terminal(e.state) /\ ~Overdue(e, now) /\ e.next_attempt <= now

\* mutant: one attempt too many
ExhaustedLate(e) == e.attempts > MaxAttempts

Exhausted(e) == e.attempts >= MaxAttempts

Dispatchable(now) == {i \in DOMAIN entries : DueNow(entries[i], now) /\ ~Exhausted(entries[i])}

Visited(now, max) ==
    {i \in DOMAIN entries : Cardinality({j \in Dispatchable(now) : j < i}) < max}

Dispatched(now, max) == Dispatchable(now) \cap Visited(now, max)

Sent(e, now) ==
    [command |-> e.command, state |-> "sent", attempts |-> e.attempts + 1, last_send |-> now,
     next_attempt |-> now + RetryDelay(e.attempts + 1)]

WithState(e, state) == [e EXCEPT !.state = state]

Handled(e, now) ==
    CASE Overdue(e, now)                     -> WithState(e, "expired")
      [] DueNow(e, now) /\ Exhausted(e)      -> WithState(e, "failed")
      [] DueNow(e, now) /\ ~Exhausted(e)     -> Sent(e, now)
      [] OTHER                               -> e

Due(now, max) ==
    LET visited == Visited(now, max)
    IN  /\ entries' = [i \in DOMAIN entries |->
                          IF i \in visited THEN Handled(entries[i], now) ELSE entries[i]]
        /\ jstats' = [jstats EXCEPT
                !.expired = @ + Cardinality({i \in visited : Overdue(entries[i], now)}),
                !.failed = @ + Cardinality({i \in visited : /\ DueNow(entries[i], now)
                                                            /\ Exhausted(entries[i])}),
                !.dispatched = @ + Cardinality(Dispatched(now, max))]
        /\ UNCHANGED nextId

-----------------------------------------------------------------------------
(* acknowledge().  An acknowledgement for an unknown command, from another *)
(* device or for a finished command changes nothing.                       *)

\* mutant: finished commands take late acknowledgements
AckAppliesLate(a) ==
    /\ a.command_id \in DOMAIN entries
    /\ entries[a.command_id].command.device = a.device

AckApplies(a) ==
    /\ a.command_id \in DOMAIN entries
    /\ entries[a.command_id].command.device = a.device
    /\ ~Terminal(entries[a.command_id].state)

Acknowledged(e, a) ==
    CASE a.status = "accepted" -> WithState(e, "acknowledged")
      [] a.status = "busy"     ->
            [WithState(e, "pending") EXCEPT !.next_attempt = a.time + RetryDelay(e.attempts + 1)]
      [] OTHER                 -> WithState(e, "failed")

AckOutcome(status) ==
    CASE status = "accepted" -> {"acknowledged"}
      [] status = "busy"     -> {}
      [] OTHER               -> {"failed"}

Acknowledge(a) ==
    /\ IF AckApplies(a)
       THEN /\ entries' = [entries EXCEPT ![a.command_id] = Acknowledged(@, a)]
            /\ jstats' = [f \in DOMAIN jstats |->
                             IF f \in AckOutcome(a.status) THEN jstats[f] + 1 ELSE jstats[f]]
       ELSE UNCHANGED <<entries, jstats>>
    /\ UNCHANGED nextId

-----------------------------------------------------------------------------
Cancel(id) ==
    /\ ~Terminal(entries[id].state)
    /\ entries' = [entries EXCEPT ![id] = WithState(@, "cancelled")]
    /\ jstats' = [jstats EXCEPT !.cancelled = @ + 1]
    /\ UNCHANGED nextId

Expire(now) ==
    /\ entries' = [i \in DOMAIN entries |->
                      IF Overdue(entries[i], now) THEN WithState(entries[i], "expired")
                                                  ELSE entries[i]]
    /\ jstats' = [jstats EXCEPT
            !.expired = @ + Cardinality({i \in DOMAIN entries : Overdue(entries[i], now)})]
    /\ UNCHANGED nextId

\* compact_completed(keep): the finished entries with the lowest ids go, until
\* keep entries are left
Removable(keep) ==
    LET finished == DOMAIN entries \ Active
    IN  {i \in finished : Cardinality({j \in finished : j < i}) + keep < Cardinality(DOMAIN entries)}

CompactCompleted(keep) ==
    /\ entries' = [i \in DOMAIN entries \ Removable(keep) |-> entries[i]]
    /\ UNCHANGED <<jstats, nextId>>

Clear ==
    /\ entries' = << >>
    /\ jstats' = ZeroStats
    /\ nextId' = 1

-----------------------------------------------------------------------------
Init ==
    /\ entries = << >>
    /\ jstats = ZeroStats
    /\ nextId = 1

Next ==
    \/ \E c \in Commands : AppendAccepted(c)
    \/ \E c \in Commands : AppendRejected(c)
    \/ \E now \in Time, max \in DueCounts : Due(now, max)
    \/ \E a \in Acks : Acknowledge(a)
    \/ \E id \in DOMAIN entries : Cancel(id)
    \/ \E now \in Time : Expire(now)
    \/ \E keep \in 0..MaxEntries : CompactCompleted(keep)
    \/ Clear

Spec == Init /\ [][Next]_vars

-----------------------------------------------------------------------------
(* Properties.                                                             *)

States == {"pending", "sent"} \cup TerminalStates

\* The entries and the statistics have their types; every stored id is
\* positive and below next_id_, so that a fresh id never replaces an entry.
TypeOK ==
    /\ DOMAIN entries \subseteq 1..MaxId
    /\ entries \in [DOMAIN entries -> [command : Command, state : States, attempts : Nat,
                                       last_send : Nat, next_attempt : Nat]]
    /\ nextId \in Nat \ {0}
    /\ \A i \in DOMAIN entries : i < nextId
    /\ jstats \in [DOMAIN ZeroStats -> Nat]

\* due() never hands a command out more often than retry.max_attempts, however
\* often busy answers put it back to pending, and the number of sends ever made
\* stays within max_attempts per accepted command.
DispatchBudget ==
    /\ \A i \in DOMAIN entries : entries[i].attempts <= MaxAttempts
    /\ jstats.dispatched <= MaxAttempts * jstats.appended

\* Every accepted command is unfinished in the journal or was counted in
\* exactly one of acknowledged, failed, expired and cancelled: no two of the
\* five ways to settle a command settle it twice, and compaction drops no
\* unfinished command.
CommandConservation ==
    jstats.appended = jstats.acknowledged + jstats.failed + jstats.expired + jstats.cancelled
                        + Cardinality(Active)

\* The outcome of a command is final: late or duplicate acknowledgements,
\* cancel, expire and due leave a finished entry exactly as it is.
OutcomeFinal ==
    [][\A i \in DOMAIN entries \cap DOMAIN entries' :
          Terminal(entries[i].state) => entries'[i] = entries[i]]_vars

\* Every accepted command is settled once and sent within its budget, whichever
\* of due(), acknowledge(), cancel() and expire() reach it and in what order.
CommandsAccounted == CommandConservation /\ DispatchBudget
=============================================================================
