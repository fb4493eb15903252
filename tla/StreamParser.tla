---------------------------- MODULE StreamParser ----------------------------
(***************************************************************************)
(* aethon::stream::StreamParser (src/stream/stream_parser.cpp): packets    *)
(* are cut out of a byte stream that arrives in chunks and carries noise.  *)
(*                                                                         *)
(* Cells stand for bytes: the magic takes the two cells A and T, the       *)
(* length field one cell (a number), the checksum one cell, so that a      *)
(* frame has its body length plus four cells.  decode_packet() accepts     *)
(* exactly the frames of ValidFrames.  What the error handler is told      *)
(* about oversized and damaged frames is left out.                         *)
(*                                                                         *)
(* push() appends the chunk and calls try_extract_one() until it returns   *)
(* false.  Each call is one step of the model.  A call that cut out a      *)
(* frame has called a handler, which may call push() or clear() itself;    *)
(* the loop of the inner push() leaves nothing to do for the outer one.    *)
(* For a frame that is too long the error handler is called before a cell  *)
(* is dropped; one that calls back there is not modelled.                  *)
(***************************************************************************)
EXTENDS Integers, Sequences, FiniteSetsExt, Functions

CONSTANTS
    A, T,               \* the cells of the magic
    Length,             \* the cells that are numbers
    Chunks,             \* the chunks push() is called with
    ValidFrames,        \* the frames decode_packet() accepts
    MaxPacket,          \* DecodeOptions::max_packet_size
    MaxStream           \* bound on the cells pushed between clears

MagicCells == 2
HeaderCells == 3
FrameOverhead == 4

\* The cells a stream is made of.
StreamCells == UNION {Range(chunk) : chunk \in Chunks}

ASSUME ParserAssumption ==
    /\ MaxPacket \in Nat /\ MaxStream \in Nat
    /\ A # T
    /\ Length \subseteq Nat
    /\ Chunks \subseteq Seq(StreamCells)
    /\ \A f \in ValidFrames :
          /\ Len(f) <= MaxPacket /\ f[1] = A /\ f[2] = T
          /\ f[3] \in Length /\ Len(f) = f[3] + FrameOverhead

VARIABLES
    buffer,     \* buffer_
    phase,      \* push() is not running, about to extract, behind an error, or in a handler
    stream,     \* history: all cells pushed since clear()
    parsed     \* history: the packets handed to the packet handler

parserVars == <<buffer, phase, stream, parsed>>

-----------------------------------------------------------------------------
MagicAt(s, i) == i + 1 <= Len(s) /\ s[i] = A /\ s[i + 1] = T

From(s, i) == SubSeq(s, i, Len(s))

\* mutant: the last cell of a magic that is not complete yet is thrown away
FromMagicEager(s) ==
    LET starts == {i \in 1..(Len(s) + 1) : i = Len(s) + 1 \/ MagicAt(s, i)}
    IN  From(s, Min(starts))

\* discard_until_magic(): stops at a magic or when less than a magic is left
FromMagic(s) ==
    LET starts == {i \in 1..(Len(s) + 1) : Len(s) - i + 1 < MagicCells \/ MagicAt(s, i)}
    IN  From(s, Min(starts))

\* a cell read as a number: noise in the length field may be any length
FieldOf(cell) == IF cell \in Length THEN cell ELSE MaxPacket

FrameLength(s) == FieldOf(s[3]) + FrameOverhead

TooLong(s) == FrameLength(s) > MaxPacket

\* try_extract_one(), by what discard_until_magic() left
Extractable(s) == Len(s) >= HeaderCells

\* mutant: the oversized frame is reported and left in place
ExtractTooLongInPlace(s) ==
    /\ Extractable(s) /\ TooLong(s)
    /\ buffer' = s
    /\ phase' = "error"
    /\ UNCHANGED parsed

ExtractTooLong(s) ==
    /\ Extractable(s) /\ TooLong(s)
    /\ buffer' = From(s, 2)
    /\ phase' = "error"
    /\ UNCHANGED parsed

ExtractWait(s) ==
    /\ ~(Extractable(s) /\ (TooLong(s) \/ Len(s) >= FrameLength(s)))
    /\ buffer' = s
    /\ phase' = "idle"
    /\ UNCHANGED parsed

\* decode_packet() and the packet handler: what a frame adds to the packets
Delivered(frame) == IF frame \in ValidFrames THEN <<frame>> ELSE << >>

\* the whole frame leaves the buffer before it is decoded
ExtractFrame(s) ==
    LET frame == SubSeq(s, 1, FrameLength(s))
    IN  /\ Extractable(s) /\ ~TooLong(s) /\ Len(s) >= FrameLength(s)
        /\ buffer' = From(s, FrameLength(s) + 1)
        /\ parsed' = parsed \o Delivered(frame)
        /\ phase' = "handler"

TryExtractOne ==
    /\ phase # "idle"
    /\ \/ ExtractTooLong(FromMagic(buffer))
       \/ ExtractWait(FromMagic(buffer))
       \/ ExtractFrame(FromMagic(buffer))
    /\ UNCHANGED stream

Push(chunk) ==
    /\ phase \in {"idle", "handler"}
    /\ Len(stream) + Len(chunk) <= MaxStream
    /\ buffer' = buffer \o chunk
    /\ stream' = stream \o chunk
    /\ phase' = "loop"
    /\ UNCHANGED parsed

ClearBuffer ==
    /\ phase \in {"idle", "handler"}
    /\ buffer' = << >> /\ stream' = << >> /\ parsed' = << >>
    /\ UNCHANGED phase

-----------------------------------------------------------------------------
InitParser == buffer = << >> /\ phase = "idle" /\ stream = << >> /\ parsed = << >>

NextParser == (\E chunk \in Chunks : Push(chunk)) \/ TryExtractOne \/ ClearBuffer

ParserSpec == InitParser /\ [][NextParser]_parserVars

-----------------------------------------------------------------------------
(* Properties.                                                             *)

\* The frames a parser would deliver that is given the whole of s at once.
Reference(s) ==
    LET n == Len(s)
        from[i \in 1..(n + 1)] ==
            IF i + 2 > n THEN << >>
            ELSE IF ~MagicAt(s, i) \/ TooLong(From(s, i)) THEN from[i + 1]
            ELSE LET next == i + FrameLength(From(s, i))
                 IN  IF next - 1 > n THEN << >> ELSE Delivered(SubSeq(s, i, next - 1)) \o from[next]
    IN  from[1]

\* Where the stream is cut into chunks, and whether handlers push more of it
\* while the loop runs, makes no difference to the packets delivered.
ChunkingIrrelevant == phase = "idle" => parsed = Reference(stream)

FrameStarts(s) ==
    {i \in DOMAIN s : \E f \in ValidFrames :
        i + Len(f) - 1 <= Len(s) /\ SubSeq(s, i, i + Len(f) - 1) = f}

\* The magic is found where a valid frame starts and nowhere else, neither in the
\* noise nor in the body of a frame.
MagicOnlyInFrames(s) ==
    /\ {i \in DOMAIN s : MagicAt(s, i)} = FrameStarts(s)
    /\ \A i, j \in FrameStarts(s) : i < j => i + FrameLength(From(s, i)) <= j

\* After noise that does not happen to contain the magic, every complete valid
\* frame is delivered; damaged frames are skipped.
RecoversAfterNoise ==
    (phase = "idle" /\ MagicOnlyInFrames(stream)) => Len(parsed) = Cardinality(FrameStarts(stream))

\* "noisy stream recovery where valid packets may appear after arbitrary link
\* garbage" (README.md): every complete valid frame is delivered, whatever is
\* in front of it.
RecoversAfterAnything == phase = "idle" => Len(parsed) >= Cardinality(FrameStarts(stream))

\* When push() returns, less than one maximal frame is buffered, however long
\* the announced length and however much noise arrived.
BufferBounded == phase = "idle" => Len(buffer) < Max({MaxPacket, HeaderCells})

\* push() returns: every pass of its loop consumes something or is the last one,
\* also for noise that looks like the start of a frame.
LoopConsumes == [][(TryExtractOne /\ phase' # "idle") => Len(buffer') < Len(buffer)]_parserVars

\* push() delivers what the stream holds, however it is cut and however noisy it
\* is, and keeps its buffer below one maximal frame.
StreamRecovered == ChunkingIrrelevant /\ RecoversAfterNoise /\ BufferBounded
=============================================================================
