------------------------ MODULE FragmentReassembler ------------------------
(***************************************************************************)
(* aethon::protocol::FragmentReassembler (src/protocol/reassembler.cpp):   *)
(* fragments are collected per device and stream id until every one of the *)
(* announced count is there.                                               *)
(*                                                                         *)
(* A fragment is one transmission of part `sequence` of a message; the     *)
(* message stands for the header fields and the contents, and size for the *)
(* payload length.  The link delivers any fragment any number of times in  *)
(* any order.  A packet without fragment information is returned as it is  *)
(* and only counted.                                                       *)
(***************************************************************************)
EXTENDS Integers, Sequences, FiniteSets, Functions

CONSTANTS
    Fragments,          \* what the link may deliver
    MaxPayload,         \* max_payload_bytes_
    MaxSeen             \* bound on the number of deliveries

ASSUME ReassemblerAssumption ==
    /\ MaxPayload \in Nat /\ MaxSeen \in Nat
    /\ \A f \in Fragments : f.sequence \in Nat /\ f.count \in Nat /\ f.size \in Nat

VARIABLES
    pending,    \* pending_ : key -> [first, count, parts, received, total]
    stats,      \* stats_
    delivered,  \* history: the fragments delivered so far
    whole,      \* history: packets without fragment information
    discarded,  \* history: fragments dropped with an unfinished stream
    emitted,    \* history: the packets push() returned
    cleared     \* history: the keys clear() was called for

vars == <<pending, stats, delivered, whole, discarded, emitted, cleared>>

-----------------------------------------------------------------------------
Key(f) == <<f.device, f.stream>>

Keys == {Key(f) : f \in Fragments}

ZeroStats == [fragments_seen |-> 0, completed_messages |-> 0, duplicate_fragments |-> 0,
              rejected_fragments |-> 0]

BadCoordinates(f) == f.count = 0 \/ f.sequence >= f.count

NewStream(f) == [first |-> f.message, count |-> f.count, parts |-> << >>, received |-> 0, total |-> 0]

\* the stream of f after try_emplace
Stream(f) == IF Key(f) \in DOMAIN pending THEN pending[Key(f)] ELSE NewStream(f)

CountChanged(f) == Stream(f).count # f.count

Present(f) == f.sequence \in DOMAIN Stream(f).parts

\* mutant: a payload of exactly the limit is refused
OversizeAtLimit(f) == Stream(f).total + f.size >= MaxPayload

Oversize(f) == Stream(f).total + f.size > MaxPayload

Part(f) == [message |-> f.message, size |-> f.size]

Stored(f) ==
    LET s == Stream(f)
    IN  [first    |-> s.first,
         count    |-> s.count,
         parts    |-> [q \in DOMAIN s.parts \cup {f.sequence} |->
                          IF q = f.sequence THEN Part(f) ELSE s.parts[q]],
         received |-> s.received + 1,
         total    |-> s.total + f.size]

Complete(s) == s.received = s.count

Assembled(s) == [first |-> s.first, parts |-> [q \in DOMAIN s.parts |-> s.parts[q].message],
                 total |-> s.total]

\* how many fragments wait, stream by stream
Waiting == [k \in DOMAIN pending |-> pending[k].received]

With(k, s) == [j \in DOMAIN pending \cup {k} |-> IF j = k THEN s ELSE pending[j]]

Without(k) == [j \in DOMAIN pending \ {k} |-> pending[j]]

-----------------------------------------------------------------------------
(* push(), one action for each way through it.                             *)

CountSeen(outcome) ==
    /\ stats.fragments_seen < MaxSeen
    /\ stats' = [c \in DOMAIN stats |->
                    IF c \in {"fragments_seen"} \cup outcome THEN stats[c] + 1 ELSE stats[c]]

Seen(f, outcome) ==
    /\ CountSeen(outcome)
    /\ delivered' = delivered \cup {f}
    /\ UNCHANGED <<whole, cleared>>

PushUnfragmented ==
    /\ CountSeen({})
    /\ whole' = whole + 1
    /\ UNCHANGED <<pending, delivered, discarded, emitted, cleared>>

PushMalformed(f) ==
    /\ BadCoordinates(f) \/ CountChanged(f)
    /\ Seen(f, {"rejected_fragments"})
    /\ UNCHANGED <<pending, discarded, emitted>>

PushDuplicate(f) ==
    /\ ~BadCoordinates(f) /\ ~CountChanged(f) /\ Present(f)
    /\ Seen(f, {"duplicate_fragments"})
    /\ UNCHANGED <<pending, discarded, emitted>>

PushOversize(f) ==
    /\ ~BadCoordinates(f) /\ ~CountChanged(f) /\ ~Present(f) /\ Oversize(f)
    /\ Seen(f, {"rejected_fragments"})
    /\ pending' = Without(Key(f))
    /\ discarded' = discarded + Stream(f).received
    /\ UNCHANGED emitted

PushStored(f) ==
    /\ ~BadCoordinates(f) /\ ~CountChanged(f) /\ ~Present(f) /\ ~Oversize(f)
    /\ ~Complete(Stored(f))
    /\ Seen(f, {})
    /\ pending' = With(Key(f), Stored(f))
    /\ UNCHANGED <<discarded, emitted>>

PushCompleted(f) ==
    /\ ~BadCoordinates(f) /\ ~CountChanged(f) /\ ~Present(f) /\ ~Oversize(f)
    /\ Complete(Stored(f))
    /\ Seen(f, {"completed_messages"})
    /\ pending' = Without(Key(f))
    /\ emitted' = Append(emitted, Assembled(Stored(f)))
    /\ UNCHANGED discarded

Clear(k) ==
    /\ pending' = Without(k)
    /\ discarded' = discarded + (IF k \in DOMAIN pending THEN pending[k].received ELSE 0)
    /\ cleared' = cleared \cup {k}
    /\ UNCHANGED <<stats, delivered, whole, emitted>>

ClearAll ==
    /\ pending' = << >>
    /\ discarded' = discarded + SumFunction(Waiting)
    /\ cleared' = Keys
    /\ UNCHANGED <<stats, delivered, whole, emitted>>

-----------------------------------------------------------------------------
Init ==
    /\ pending = << >> /\ stats = ZeroStats
    /\ delivered = {} /\ whole = 0 /\ discarded = 0 /\ emitted = << >> /\ cleared = {}

Next ==
    \/ PushUnfragmented
    \/ \E f \in Fragments : PushMalformed(f)
    \/ \E f \in Fragments : PushDuplicate(f)
    \/ \E f \in Fragments : PushOversize(f)
    \/ \E f \in Fragments : PushStored(f)
    \/ \E f \in Fragments : PushCompleted(f)
    \/ \E k \in Keys : Clear(k)
    \/ ClearAll

Spec == Init /\ [][Next]_vars

-----------------------------------------------------------------------------
(* Properties.                                                             *)

\* Every packet pushed is accounted for once: passed through, rejected, ignored as a
\* duplicate, waiting in a stream, dropped with its stream, or part of an
\* emitted packet.
FragmentConservation ==
    stats.fragments_seen =
        whole + stats.rejected_fragments + stats.duplicate_fragments + discarded
            + SumFunction(Waiting)
            + SumFunction([n \in DOMAIN emitted |-> Cardinality(DOMAIN emitted[n].parts)])

Sent(m) == {f \in Fragments : f.message = m /\ ~BadCoordinates(f)}

\* The messages that have their stream id to themselves and are sent as one
\* fragment for each position
WellCut ==
    {m \in {f.message : f \in Fragments} :
        /\ \A f, g \in Fragments : (f.message = m /\ Key(f) = Key(g)) => g.message = m
        /\ \A f, g \in Sent(m) : /\ Key(f) = Key(g) /\ f.count = g.count
                                 /\ f.sequence = g.sequence => f = g
        /\ \A f \in Sent(m) : \A q \in 0..(f.count - 1) : \E g \in Sent(m) : g.sequence = q}

Size == [f \in Fragments |-> f.size]

\* An emitted packet of a message that does not share its stream id has that
\* message's parts only, and comes out after every one of its fragments was
\* delivered, never before.
EmittedWhole ==
    \A n \in DOMAIN emitted :
        LET m == emitted[n].first
        IN  /\ emitted[n].total <= MaxPayload
            /\ m \in WellCut =>
                  /\ Sent(m) \subseteq delivered
                  /\ \A q \in DOMAIN emitted[n].parts : emitted[n].parts[q] = m
                  /\ Cardinality(DOMAIN emitted[n].parts) = Cardinality(Sent(m))

\* Conversely a message that fits the limit, has its stream id to itself and was
\* not cleared is emitted once all of its fragments were delivered, in whatever
\* order and however often.
CompletesOnArrival ==
    \A m \in WellCut :
        (/\ Sent(m) # {} /\ Sent(m) \subseteq delivered
         /\ SumFunctionOnSet(Size, Sent(m)) <= MaxPayload
         /\ \A f \in Sent(m) : Key(f) \notin cleared)
        => \E n \in DOMAIN emitted : emitted[n].first = m

\* "ignores duplicates, and emits a completed packet only when all fragments
\* have arrived" (docs/api.md): repeated delivery of the same fragments yields
\* the message once.
EmittedOnce ==
    \A n, o \in DOMAIN emitted : n # o => emitted[n].first # emitted[o].first

\* push() emits the right messages at the right time: every fragment is accounted
\* for, what comes out is whole, and what arrived whole has come out.
MessagesWhole == FragmentConservation /\ EmittedWhole /\ CompletesOnArrival
=============================================================================
