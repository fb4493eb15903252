---------------------------- MODULE MCReceivePath ----------------------------
(* The objects a received packet passes, each on its own: StreamParser,        *)
(* FragmentReassembler, SessionTracker, IngestQueue and Collector.  In every   *)
(* behaviour one of them is at work, fed with anything the one before may      *)
(* deliver.                                                                    *)
EXTENDS FragmentReassembler, SessionTracker, Collector, IngestQueue, StreamParser

CONSTANTS d1, d2, mThree, mTwo, mOther, mLarge, mSingle, crc,
    Components      \* the components that may be at work

VARIABLE working    \* the component at work

-----------------------------------------------------------------------------
(* Five messages on four streams of two devices: one of three parts, two      *)
(* sharing a stream id with different counts, one too large and one with a    *)
(* single part; and fragments with impossible coordinates.                    *)
MCFragment(m, d, key, seq, count, size) ==
    [message |-> m, device |-> d, stream |-> key, sequence |-> seq, count |-> count, size |-> size]

MCFragments ==
    {MCFragment(mThree, d1, 1, q, 3, 1) : q \in 0..2}
    \cup {MCFragment(mTwo, d1, 2, q, 2, 1) : q \in 0..1}
    \cup {MCFragment(mOther, d1, 2, 0, 3, 1), MCFragment(mOther, d1, 2, 3, 3, 1)}
    \cup {MCFragment(mLarge, d2, 1, q, 2, 2) : q \in 0..1}

\* One message of two parts and one of a single part, no other traffic.
MCDuplicatedFragments ==
    {MCFragment(mTwo, d1, 2, q, 2, 1) : q \in 0..1} \cup {MCFragment(mSingle, d2, 1, 0, 1, 1)}

-----------------------------------------------------------------------------
(* One valid frame, without a body; the chunks are the frame, the frame with  *)
(* the start of another one, pieces of it and noise.                          *)
MCFrame == <<A, T, 0, crc>>

MCValidFrames == {MCFrame}

MCChunks == {<<A>>, <<T>>, <<T, 1>>, <<T, 9>>, <<0, crc>>, MCFrame, MCFrame \o <<A>>}

(* Packets in, out of and behind the sequence, with times that regress.       *)
MCPacket(d, seq, time) == [device |-> d, sequence |-> seq, timestamp |-> time]

MCDevice == {d1, d2}

MCPackets == {MCPacket(d1, 1, 2), MCPacket(d1, 2, 1), MCPacket(d1, 3, 3), MCPacket(d1, 5, 3),
              MCPacket(d2, 1, 1)}

(* Packets of different size, priority, deadline and arrival; the byte budget *)
(* and the packet limit both bind, under every overflow policy.               *)
MCEnvelope(d, kind, route, seq, size, arrival, deadline, prio) ==
    [device |-> d, kind |-> kind, route |-> route, sequence |-> seq, size |-> size,
     arrival |-> arrival, deadline |-> deadline, priority |-> prio]

MCEnvelopes ==
    {MCEnvelope(d1, "spectrum", -1, 1, 1, 1, 0, 1), MCEnvelope(d1, "heartbeat", -1, 2, 2, 2, 5, 1),
     MCEnvelope(d2, "spectrum", 200, 1, 3, 2, 4, 1), MCEnvelope(d2, "spectrum", -1, 2, 0, 3, 0, 0),
     MCEnvelope(d2, "control", -1, 3, 4, 3, 0, 1)}

(* Packets with capture times out of order, one with two warnings, one bad.   *)
MCCapture(valid, warnings, time) == [valid |-> valid, warnings |-> warnings, time |-> time]

MCReceived ==
    {MCCapture(TRUE, 0, 2), MCCapture(TRUE, 2, 1), MCCapture(TRUE, 0, 3), MCCapture(FALSE, 0, 1)}

ASSUME InstanceAssumption ==
    SessionAssumption /\ CollectorAssumption

-----------------------------------------------------------------------------
\* The queue's configuration matters only while the queue is at work.
MCInit ==
    /\ working \in Components
    /\ Init /\ InitParser /\ InitSessions /\ InitCollector /\ InitQueue
    /\ working # "queue" => config = [policy |-> "reject_new", drain |-> "fifo"]

MCNext ==
    /\ UNCHANGED working
    /\ \/ working = "reassembler" /\ Next /\ UNCHANGED <<parserVars, sessionVars, queueVars, collectorVars>>
       \/ working = "parser" /\ NextParser /\ UNCHANGED <<vars, sessionVars, queueVars, collectorVars>>
       \/ working = "sessions" /\ NextSessions /\ UNCHANGED <<vars, parserVars, queueVars, collectorVars>>
       \/ working = "queue" /\ NextQueue /\ UNCHANGED <<vars, parserVars, sessionVars, collectorVars>>
       \/ working = "collector" /\ NextCollector /\ UNCHANGED <<vars, parserVars, sessionVars, queueVars>>

MCSpec == MCInit /\ [][MCNext]_<<working, vars, parserVars, sessionVars, queueVars, collectorVars>>
=============================================================================
