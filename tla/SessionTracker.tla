--------------------------- MODULE SessionTracker ---------------------------
(***************************************************************************)
(* aethon::stream::SessionTracker (src/stream/session_tracker.cpp): per    *)
(* device, whether its session is open, the newest sequence number and     *)
(* packet time, and how many duplicates, gaps and time regressions the     *)
(* packets showed.                                                         *)
(*                                                                         *)
(* Abstracted: of the returned events only opened and closed are kept, as  *)
(* a count; the others go with a counter.  Sequence numbers are compared   *)
(* as the code does, without regard to the wrap at 2^32.                   *)
(***************************************************************************)
EXTENDS Integers, Sequences, FiniteSetsExt

CONSTANTS
    Device,
    Packets,        \* the packets that may arrive
    Time,           \* arrival times and the now_ns of expire_idle
    IdleTimeout,    \* SessionTrackerOptions::idle_timeout_ns
    MaxGap,         \* SessionTrackerOptions::max_gap_without_warning
    MaxObserved     \* bound on the packets observed per device between clears

\* Assumed of the constants wherever this module is instantiated.
SessionAssumption ==
    /\ Time \subseteq Nat /\ IdleTimeout \in Nat /\ MaxGap \in Nat /\ MaxObserved \in Nat
    /\ \A p \in Packets : p.device \in Device /\ p.sequence \in Nat /\ p.timestamp \in Nat

VARIABLES
    sessions,   \* sessions_ : device -> SessionState
    log,        \* history: per device, the packets observed since clear()
    events      \* history: per device, how often opened and closed were reported since clear()

sessionVars == <<sessions, log, events>>

-----------------------------------------------------------------------------
Bit(condition) == IF condition THEN 1 ELSE 0

Larger(a, b) == IF a > b THEN a ELSE b

NewSession(p, arrival) ==
    [opened_at |-> arrival, last_seen |-> arrival, last_time |-> p.timestamp,
     first |-> p.sequence, last |-> p.sequence, packets |-> 1, duplicates |-> 0, gaps |-> 0,
     regressions |-> 0, open |-> TRUE]

SequenceAfter(newer, older) == newer > older

\* mutant: the packet itself counts as missing
SequenceGapInclusive(newer, older) == newer - older

SequenceGap(newer, older) == IF newer <= older + 1 THEN 0 ELSE newer - older - 1

\* the session after a packet; a closed session is opened again
Observed(s, p, arrival) ==
    LET later == SequenceAfter(p.sequence, s.last)
    IN  [opened_at   |-> IF s.open THEN s.opened_at ELSE arrival,
         last_seen   |-> arrival,
         last_time   |-> Larger(s.last_time, p.timestamp),
         first       |-> s.first,
         last        |-> IF later THEN p.sequence ELSE s.last,
         packets     |-> s.packets + 1,
         duplicates  |-> s.duplicates + Bit(~later),
         gaps        |-> s.gaps + Bit(later /\ SequenceGap(p.sequence, s.last) > MaxGap),
         regressions |-> s.regressions + Bit(p.timestamp < s.last_time),
         open        |-> TRUE]

Observe(p, arrival) ==
    LET d     == p.device
        known == d \in DOMAIN sessions
        next  == IF known THEN Observed(sessions[d], p, arrival) ELSE NewSession(p, arrival)
    IN  /\ Len(log[d]) < MaxObserved
        /\ sessions' = [e \in DOMAIN sessions \cup {d} |-> IF e = d THEN next ELSE sessions[e]]
        /\ log' = [log EXCEPT ![d] = Append(@, p)]
        /\ events' = [events EXCEPT ![d].opened = @ + Bit(~known \/ ~sessions[d].open)]

Idle(now) ==
    {d \in DOMAIN sessions : /\ sessions[d].open
                             /\ now >= sessions[d].last_seen
                             /\ now - sessions[d].last_seen >= IdleTimeout}

ExpireIdle(now) ==
    LET idle == Idle(now)
    IN  /\ idle # {}
        /\ sessions' = [d \in DOMAIN sessions |->
                           IF d \in idle THEN [sessions[d] EXCEPT !.open = FALSE] ELSE sessions[d]]
        /\ events' = [d \in Device |->
                         IF d \in idle THEN [events[d] EXCEPT !.closed = @ + 1] ELSE events[d]]
        /\ UNCHANGED log

NoEvents == [d \in Device |-> [opened |-> 0, closed |-> 0]]

ClearSessions ==
    /\ sessions' = << >>
    /\ log' = [d \in Device |-> << >>]
    /\ events' = NoEvents

-----------------------------------------------------------------------------
InitSessions == sessions = << >> /\ log = [d \in Device |-> << >>] /\ events = NoEvents

NextSessions ==
    \/ \E p \in Packets, arrival \in Time : Observe(p, arrival)
    \/ \E now \in Time : ExpireIdle(now)
    \/ ClearSessions

SessionSpec == InitSessions /\ [][NextSessions]_sessionVars

-----------------------------------------------------------------------------
(* Properties.                                                             *)

\* What a session should say, computed from the whole log l of its device: the
\* newest sequence number before entry i, and the newest packet time.
NewestBefore(l, i) == Max({l[j].sequence : j \in 1..(i - 1)})

LatestBefore(l, i) == Max({l[j].timestamp : j \in 1..(i - 1)})

Duplicates(l) == {i \in 2..Len(l) : l[i].sequence <= NewestBefore(l, i)}

Gaps(l) == {i \in 2..Len(l) : l[i].sequence - NewestBefore(l, i) > MaxGap + 1}

Regressions(l) == {i \in 2..Len(l) : l[i].timestamp < LatestBefore(l, i)}

Matches(s, l) ==
    /\ Len(l) >= 1 /\ s.packets = Len(l)
    /\ s.first = l[1].sequence
    /\ s.last = NewestBefore(l, Len(l) + 1)
    /\ s.last_time = LatestBefore(l, Len(l) + 1)
    /\ s.duplicates = Cardinality(Duplicates(l))
    /\ s.gaps = Cardinality(Gaps(l))
    /\ s.regressions = Cardinality(Regressions(l))

\* Across closing and reopening, and in whatever order the packets arrive, the
\* session's fields are those of the whole log: last_sequence and the packet
\* time never move back, each packet is either an advance or a duplicate, and
\* gaps and regressions are counted against the newest packet, not the last one.
SessionMatchesLog == \A d \in DOMAIN sessions : Matches(sessions[d], log[d])

\* opened and closed events alternate: a device has been reported opened once
\* more than closed exactly while its session is open.
OpenCloseAlternate ==
    \A d \in Device :
        events[d].opened - events[d].closed = Bit(d \in DOMAIN sessions /\ sessions[d].open)

\* Incremental session state and published events say what the packet log says.
SessionsSound == SessionMatchesLog /\ OpenCloseAlternate
=============================================================================
