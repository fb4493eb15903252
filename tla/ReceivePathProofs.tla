-------------------------- MODULE ReceivePathProofs --------------------------
(***************************************************************************)
(* Proofs about the receive path: StreamParser, FragmentReassembler,       *)
(* IngestQueue, SessionTracker and Collector, each for every value of its  *)
(* constants that satisfies its assumption.                                *)
(*                                                                         *)
(* Reassembler: everything in a stream came from a fragment delivered      *)
(* under its key, so a message that has its key to itself (WellCut) owns   *)
(* its stream; the size a stream has counted is that of the fragments it   *)
(* holds, so a message that fits is never given up; and what was delivered *)
(* of a message that is due waits in its stream (Kept).  A stream with     *)
(* every part does not wait, so a message that arrived has come out.       *)
(*                                                                         *)
(* Parser: its buffer is what is left of the stream from some position on, *)
(* and whatever follows, a parser given everything at once would deliver   *)
(* what this one has and then what it cuts from that position (Ahead).  A  *)
(* position is given up only when no cell that is still to come can change *)
(* what is cut there.                                                      *)
(*                                                                         *)
(* Sessions: the state that SessionTracker keeps from packet to packet     *)
(* says what the whole log of the device says.  The specification of a     *)
(* session takes maxima over the log; the induction carries what makes     *)
(* last_sequence and last_packet_time those maxima: some packet has the    *)
(* value and none is above it (Tops).                                      *)
(*                                                                         *)
(* Archive: what its stream has flushed and what waits in it are together  *)
(* a prefix of the cells of records 1, 2, 3, ..., and all of them while no *)
(* write has failed; a failed stream holds nothing back.                   *)
(*                                                                         *)
(* Queue: the byte counter is the sum of the payloads in the queue, so the *)
(* subtractions that clamp never do; an entry of devices() counts the      *)
(* packets its device has queued or one more, so that it goes only with    *)
(* the last of them.  That the selected packet exists is a fact about the  *)
(* orders select_next() and select_overflow_victim() compare by.           *)
(***************************************************************************)
EXTENDS FragmentReassembler, StreamParser, SessionTracker, Collector, IngestQueue, SumTheorems, SequenceTheorems

-----------------------------------------------------------------------------
(* FragmentReassembler.                                                    *)

Messages == {f.message : f \in Fragments}

\* The fragments of the stream's message that the stream holds.
Held(s) == {f \in Sent(s.first) : f.sequence \in DOMAIN s.parts}

\* f may be the fragment that part q of a stream of n parts under key k came from.
Origin(f, k, n) == f \in Fragments /\ Key(f) = k /\ f.count = n /\ ~BadCoordinates(f)

\* What holds of a stream under key k once the fragments D were delivered.
StreamSound(s, k, D) ==
    /\ s.count \in Nat /\ s.total \in Nat /\ s.total <= MaxPayload
    /\ DOMAIN s.parts \subseteq 0..(s.count - 1) /\ s.received = Cardinality(DOMAIN s.parts)
    /\ \E f \in D : Origin(f, k, s.count) /\ f.message = s.first
    /\ \A q \in DOMAIN s.parts :
          \E f \in D : Origin(f, k, s.count) /\ f.sequence = q /\ f.message = s.parts[q].message
    /\ s.first \in WellCut => s.total = SumFunctionOnSet(Size, Held(s))

\* What holds of an emitted packet once the fragments D were delivered.
PacketSound(e, D) ==
    /\ e.total <= MaxPayload /\ IsFiniteSet(DOMAIN e.parts)
    /\ e.first \in WellCut =>
          /\ Sent(e.first) \subseteq D
          /\ \A q \in DOMAIN e.parts : e.parts[q] = e.first
          /\ Cardinality(DOMAIN e.parts) = Cardinality(Sent(e.first))

PartsIn(q) == [n \in DOMAIN q |-> Cardinality(DOMAIN q[n].parts)]

Parts == PartsIn(emitted)

WaitsIn(p) == [j \in DOMAIN p |-> p[j].received]

\* A message that can be assembled and was not: all of it that was delivered waits
\* in its stream.
Due(m) ==
    /\ m \in WellCut /\ SumFunctionOnSet(Size, Sent(m)) <= MaxPayload
    /\ \A f \in Sent(m) : Key(f) \notin cleared
    /\ \A n \in DOMAIN emitted : emitted[n].first # m

Kept ==
    \A m \in Messages : Due(m) =>
        \A f \in Sent(m) \cap delivered :
            Key(f) \in DOMAIN pending /\ f.sequence \in DOMAIN pending[Key(f)].parts

StatsOK ==
    /\ stats \in [{"fragments_seen", "completed_messages", "duplicate_fragments", "rejected_fragments"} -> Nat]
    /\ whole \in Nat /\ discarded \in Nat

RInv ==
    /\ StatsOK
    /\ delivered \subseteq Fragments
    /\ IsFiniteSet(DOMAIN pending)
    /\ \A k \in DOMAIN pending : StreamSound(pending[k], k, delivered) /\ pending[k].received < pending[k].count
    /\ \E S : emitted \in Seq(S)
    /\ \A n \in DOMAIN emitted : PacketSound(emitted[n], delivered)
    /\ Kept
    /\ FragmentConservation

\* The fragments of a well-cut message are as many as its count says.
LEMMA SentCount ==
    ASSUME NEW m \in WellCut, NEW f \in Sent(m)
    PROVE  IsFiniteSet(Sent(m)) /\ Cardinality(Sent(m)) = f.count /\ f.count \in Nat \ {0}
<1> DEFINE b == [g \in Sent(m) |-> g.sequence]
           I == 0..(f.count - 1)
<1>1. \A g \in Sent(m) : g.sequence \in Nat /\ g.count \in Nat /\ ~(g.sequence >= g.count) /\ g.count # 0
    BY ReassemblerAssumption DEF Sent, BadCoordinates
<1>2. \A g, h \in Sent(m) : g.count = f.count /\ (g.sequence = h.sequence => g = h)
    BY DEF WellCut
<1>3. \A q \in I : \E g \in Sent(m) : g.sequence = q
    BY DEF WellCut
<1>4. b \in Injection(Sent(m), I)
    BY <1>1, <1>2 DEF Injection, IsInjective
<1>5. b \in Surjection(Sent(m), I)
    BY <1>1, <1>2, <1>3 DEF Surjection
<1>6. IsFiniteSet(I) /\ Cardinality(I) = f.count
    BY <1>1, FS_Interval
<1> HIDE DEF b, I
<1> QED
    BY <1>1, <1>4, <1>5, <1>6, FS_Injection

\* Every good fragment under the key of a well-cut message is one of its own.
LEMMA OwnKey ==
    ASSUME NEW k, NEW n, NEW f, NEW g, Origin(f, k, n), g \in Fragments, Key(g) = k, f.message \in WellCut
    PROVE  g.message = f.message /\ (~BadCoordinates(g) => g \in Sent(f.message) /\ g.count = n)
<1>1. f \in Sent(f.message) /\ f \in Fragments /\ Key(f) = k /\ f.count = n
    BY DEF Origin, Sent
<1>2. g.message = f.message
    BY <1>1 DEF WellCut
<1>3. ASSUME ~BadCoordinates(g) PROVE g \in Sent(f.message) /\ g.count = n
    <2>1. g \in Sent(f.message)
        BY <1>2, <1>3 DEF Sent
    <2> QED
        BY <1>1, <2>1 DEF WellCut
<1> QED
    BY <1>2, <1>3

\* Later deliveries do not disturb a stream or a packet.
LEMMA MoreDelivered ==
    ASSUME NEW D, NEW E, D \subseteq E
    PROVE  /\ \A s, k : StreamSound(s, k, D) => StreamSound(s, k, E)
           /\ \A e : PacketSound(e, D) => PacketSound(e, E)
BY DEF StreamSound, PacketSound

\* The stream of a fragment before it is stored.
LEMMA StreamOf ==
    ASSUME RInv, NEW f \in Fragments, ~BadCoordinates(f)
    PROVE  StreamSound(Stream(f), Key(f), delivered \cup {f})
<1> DEFINE D == delivered \cup {f}
<1>1. CASE Key(f) \in DOMAIN pending
    <2>1. StreamSound(pending[Key(f)], Key(f), delivered)
        BY <1>1 DEF RInv
    <2>2. Stream(f) = pending[Key(f)]
        BY <1>1 DEF Stream
    <2> QED
        BY <2>1, <2>2, MoreDelivered
<1>2. CASE Key(f) \notin DOMAIN pending
    <2> DEFINE s == NewStream(f)
    <2>1. Stream(f) = s
        BY <1>2 DEF Stream
    <2>2. /\ s.first = f.message /\ s.count = f.count /\ DOMAIN s.parts = {} /\ s.received = 0 /\ s.total = 0
        BY DEF NewStream
    <2>3. f.count \in Nat /\ Origin(f, Key(f), f.count) /\ MaxPayload \in Nat
        BY ReassemblerAssumption DEF Origin
    <2> HIDE DEF s
    <2>4. Held(s) = {}
        BY <2>2 DEF Held
    <2>5. SumFunctionOnSet(Size, Held(s)) = 0 /\ Cardinality(DOMAIN s.parts) = 0
        BY <2>2, <2>4, SumEmpty, FS_EmptySet
    <2>6. StreamSound(s, Key(f), D)
        BY <2>2, <2>3, <2>5 DEF StreamSound
    <2> QED
        BY <2>1, <2>6
<1> QED
    BY <1>1, <1>2

\* Storing a fragment keeps a stream sound; the payload stays below the limit.
LEMMA StoredSound ==
    ASSUME RInv, NEW f \in Fragments, ~BadCoordinates(f), ~CountChanged(f), ~Present(f), ~Oversize(f)
    PROVE  LET s == Stream(f)
               t == Stored(f)
           IN  /\ StreamSound(t, Key(f), delivered \cup {f})
               /\ s.received \in Nat /\ t.received = s.received + 1 /\ t.first = s.first /\ t.count = s.count
               /\ DOMAIN t.parts = DOMAIN s.parts \cup {f.sequence}
<1> DEFINE s == Stream(f)
           t == Stored(f)
           D == delivered \cup {f}
           k == Key(f)
<1>1. StreamSound(s, k, D)
    BY StreamOf
<1>2. /\ f.sequence \in Nat /\ f.count \in Nat /\ f.size \in Nat /\ f.sequence < f.count
      /\ s.count = f.count /\ s.count \in Nat /\ s.total \in Nat /\ MaxPayload \in Nat
      /\ f.sequence \notin DOMAIN s.parts /\ DOMAIN s.parts \subseteq 0..(s.count - 1)
      /\ s.received = Cardinality(DOMAIN s.parts)
    BY <1>1, ReassemblerAssumption DEF BadCoordinates, CountChanged, Present, StreamSound
<1>3. s.total + f.size <= MaxPayload
    BY <1>2 DEF Oversize
<1>4. /\ t.first = s.first /\ t.count = s.count /\ t.received = s.received + 1 /\ t.total = s.total + f.size
      /\ t.parts = [q \in DOMAIN s.parts \cup {f.sequence} |->
                       IF q = f.sequence THEN Part(f) ELSE s.parts[q]]
    BY DEF Stored
<1> HIDE DEF s, t
<1>5. /\ DOMAIN t.parts = DOMAIN s.parts \cup {f.sequence} /\ t.parts[f.sequence].message = f.message
      /\ \A q \in DOMAIN s.parts : t.parts[q] = s.parts[q]
    BY <1>2, <1>4 DEF Part
<1>6. IsFiniteSet(DOMAIN s.parts)
    <2> DEFINE I == 0..(s.count - 1)
    <2>1. s.count - 1 \in Int
        BY <1>2
    <2>2. IsFiniteSet(I)
        BY <2>1, FS_Interval
    <2>3. DOMAIN s.parts \in SUBSET I
        BY <1>2
    <2> HIDE DEF I
    <2> QED
        BY <2>2, <2>3, FS_Subset
<1>7. s.received \in Nat /\ t.received = Cardinality(DOMAIN t.parts)
    <2> DEFINE P == DOMAIN s.parts
    <2>1. IsFiniteSet(P) /\ f.sequence \notin P /\ s.received = Cardinality(P)
        BY <1>2, <1>6
    <2> HIDE DEF P
    <2>2. Cardinality(P) \in Nat /\ Cardinality(P \cup {f.sequence}) = Cardinality(P) + 1
        BY <2>1, FS_CardinalityType, FS_AddElement
    <2> QED
        BY <1>4, <1>5, <2>1, <2>2 DEF P
<1>8. DOMAIN t.parts \subseteq 0..(t.count - 1)
    BY <1>2, <1>4, <1>5
<1>9. PICK g \in D : Origin(g, k, s.count) /\ g.message = s.first
    BY <1>1 DEF StreamSound
<1>10. \A q \in DOMAIN t.parts :
          \E h \in D : Origin(h, k, t.count) /\ h.sequence = q /\ h.message = t.parts[q].message
    <2> SUFFICES ASSUME NEW q \in DOMAIN t.parts
                 PROVE  \E h \in D : Origin(h, k, t.count) /\ h.sequence = q /\ h.message = t.parts[q].message
        OBVIOUS
    <2>1. CASE q = f.sequence
        <3>1. Origin(f, k, t.count)
            BY <1>2, <1>4 DEF Origin
        <3> QED
            BY <1>5, <2>1, <3>1
    <2>2. CASE q \in DOMAIN s.parts
        <3>1. PICK h \in D : Origin(h, k, s.count) /\ h.sequence = q /\ h.message = s.parts[q].message
            BY <1>1, <2>2 DEF StreamSound
        <3> QED
            BY <1>4, <1>5, <2>2, <3>1
    <2> QED
        BY <1>5, <2>1, <2>2
<1>11. ASSUME t.first \in WellCut PROVE t.total = SumFunctionOnSet(Size, Held(t))
    <2> DEFINE m == s.first
    <2>1. m \in WellCut /\ s.total = SumFunctionOnSet(Size, Held(s))
        BY <1>1, <1>4, <1>11 DEF StreamSound
    <2>2. f \in Sent(m)
        BY <1>9, <2>1, OwnKey
    <2>3. \A h \in Sent(m) : h.sequence = f.sequence => h = f
        BY <2>1, <2>2 DEF WellCut
    <2>4. Held(t) = Held(s) \cup {f} /\ f \notin Held(s)
        BY <1>2, <1>4, <1>5, <2>2, <2>3 DEF Held
    <2>5. IsFiniteSet(Held(s)) /\ Held(s) \subseteq Fragments
        <3>1. IsFiniteSet(Sent(m))
            BY <2>1, <2>2, SentCount
        <3>2. Held(s) \in SUBSET Sent(m)
            BY DEF Held
        <3> QED
            BY <3>1, <3>2, FS_Subset DEF Sent
    <2>6. \A x \in Held(s) \cup {f} : Size[x] \in Nat
        BY <2>5, ReassemblerAssumption DEF Size
    <2>7. SumFunctionOnSet(Size, Held(s) \cup {f}) = Size[f] + SumFunctionOnSet(Size, Held(s))
        BY <2>4, <2>5, <2>6, SumAdd
    <2>8. Size[f] = f.size
        BY DEF Size
    <2> QED
        BY <1>2, <1>4, <2>1, <2>4, <2>7, <2>8
<1>12. \E h \in D : Origin(h, k, t.count) /\ h.message = t.first
    BY <1>4, <1>9
<1>13. StreamSound(t, k, D)
    <2>1. t.count \in Nat /\ t.total \in Nat /\ t.total <= MaxPayload
        BY <1>2, <1>3, <1>4
    <2> HIDE DEF D, k
    <2> QED
        BY <1>7, <1>8, <1>10, <1>11, <1>12, <2>1 DEF StreamSound
<1> QED
    BY <1>4, <1>5, <1>7, <1>13 DEF s, t
\* A good fragment under the key of a well-cut message finds a stream of that
\* message and of its count.
LEMMA StreamIsOwn ==
    ASSUME RInv, NEW f \in Fragments, ~BadCoordinates(f), NEW m \in WellCut, NEW g \in Sent(m), Key(g) = Key(f)
    PROVE  f \in Sent(m) /\ Stream(f).first = m /\ ~CountChanged(f)
<1>1. g.message = m /\ Origin(g, Key(f), g.count)
    BY DEF Sent, Origin
<1>2. f \in Sent(m) /\ f.message = m /\ f.count = g.count
    BY <1>1, OwnKey
<1>3. PICK h \in delivered \cup {f} : Origin(h, Key(f), Stream(f).count) /\ h.message = Stream(f).first
    BY StreamOf DEF StreamSound
<1>4. h \in Fragments /\ Key(h) = Key(f) /\ ~BadCoordinates(h) /\ h.count = Stream(f).count
    BY <1>3 DEF Origin
<1>5. h.message = m /\ h.count = g.count
    BY <1>1, <1>4, OwnKey
<1> QED
    BY <1>2, <1>3, <1>4, <1>5 DEF CountChanged

\* A message that fits is never given up as too large.
LEMMA FitsStays ==
    ASSUME RInv, NEW f \in Fragments, ~BadCoordinates(f), ~Present(f), NEW m \in WellCut, NEW g \in Sent(m),
           Key(g) = Key(f), SumFunctionOnSet(Size, Sent(m)) <= MaxPayload
    PROVE  ~Oversize(f)
<1> DEFINE s == Stream(f)
<1>1. f \in Sent(m) /\ s.first = m
    BY StreamIsOwn
<1>2. s.total = SumFunctionOnSet(Size, Held(s)) /\ s.total \in Nat
    BY <1>1, StreamOf DEF StreamSound
<1>3. f \notin Held(s) /\ Held(s) \cup {f} \in SUBSET Sent(m)
    BY <1>1 DEF Held, Present
<1>4. IsFiniteSet(Sent(m)) /\ \A x \in Sent(m) : Size[x] \in Nat
    BY SentCount, ReassemblerAssumption DEF Sent, Size
<1> HIDE DEF s
<1> DEFINE H == Held(s)
<1>5. IsFiniteSet(H) /\ H \in SUBSET Sent(m) /\ f \notin H /\ \A x \in H \cup {f} : Size[x] \in Nat
    BY <1>3, <1>4, FS_Subset
<1> HIDE DEF H
<1>6. SumFunctionOnSet(Size, H \cup {f}) = Size[f] + SumFunctionOnSet(Size, H)
    BY <1>5, SumAdd
<1>7. SumFunctionOnSet(Size, H \cup {f}) <= SumFunctionOnSet(Size, Sent(m))
    BY <1>3, <1>4, SumWithin DEF H
<1>8. SumFunctionOnSet(Size, Sent(m)) \in Nat /\ SumFunctionOnSet(Size, H) = s.total /\ Size[f] = f.size
      /\ f.size \in Nat /\ MaxPayload \in Nat
    BY <1>2, <1>4, SumTyped, ReassemblerAssumption DEF H, Size
<1> DEFINE a == SumFunctionOnSet(Size, Sent(m))
           t == s.total
           z == f.size
<1>9. a \in Nat /\ t \in Nat /\ z \in Nat /\ z + t <= a /\ a <= MaxPayload /\ MaxPayload \in Nat
    BY <1>2, <1>6, <1>7, <1>8
<1> HIDE DEF a, t, z
<1>10. ~(t + z > MaxPayload)
    BY <1>9
<1> QED
    BY <1>10 DEF Oversize, s, t, z

\* What push() returns is whole.
LEMMA AssembledSound ==
    ASSUME NEW t, NEW k, NEW D, StreamSound(t, k, D), Complete(t)
    PROVE  /\ PacketSound(Assembled(t), D) /\ Assembled(t).first = t.first
           /\ Cardinality(DOMAIN Assembled(t).parts) = t.received
<1> DEFINE e == Assembled(t)
           P == DOMAIN t.parts
           I == 0..(t.count - 1)
<1>1. /\ e.first = t.first /\ e.total = t.total /\ DOMAIN e.parts = P
      /\ \A q \in P : e.parts[q] = t.parts[q].message
    BY DEF Assembled
<1>2. /\ t.count \in Nat /\ t.total <= MaxPayload /\ P \in SUBSET I /\ t.received = Cardinality(P)
      /\ t.received = t.count
    BY DEF StreamSound, Complete
<1>3. IsFiniteSet(I) /\ Cardinality(I) = t.count
    <2> DEFINE n == t.count - 1
    <2>1. n \in Int /\ t.count = n + 1 /\ n >= -1
        BY <1>2
    <2> HIDE DEF n
    <2>2. IsFiniteSet(0..n) /\ Cardinality(0..n) = IF 0 > n THEN 0 ELSE n - 0 + 1
        BY <2>1, FS_Interval
    <2>3. Cardinality(0..n) = t.count
        BY <2>1, <2>2
    <2> QED
        BY <2>2, <2>3 DEF n
<1>4. P = I /\ IsFiniteSet(P)
    <2> HIDE DEF P, I
    <2> QED
        BY <1>2, <1>3, FS_Subset
<1>5. ASSUME t.first \in WellCut
      PROVE  /\ Sent(t.first) \subseteq D /\ \A q \in P : t.parts[q].message = t.first
             /\ Cardinality(P) = Cardinality(Sent(t.first))
    <2> DEFINE m == t.first
    <2>1. PICK g \in D : Origin(g, k, t.count) /\ g.message = m
        BY DEF StreamSound
    <2>2. g \in Sent(m)
        BY <2>1 DEF Origin, Sent
    <2>3. ASSUME NEW q \in P
          PROVE  \E h \in D : h \in Sent(m) /\ h.sequence = q /\ h.message = t.parts[q].message
        <3>1. PICK h \in D : Origin(h, k, t.count) /\ h.sequence = q /\ h.message = t.parts[q].message
            BY DEF StreamSound
        <3>2. h \in Fragments /\ Key(h) = k /\ ~BadCoordinates(h)
            BY <3>1 DEF Origin
        <3>3. h \in Sent(m)
            BY <1>5, <2>1, <3>2, OwnKey
        <3> QED
            BY <3>1, <3>3
    <2>4. \A q \in P : t.parts[q].message = m
        BY <2>3 DEF Sent
    <2>5. Cardinality(Sent(m)) = g.count /\ g.count = t.count
        BY <1>5, <2>1, <2>2, SentCount DEF Origin
    <2>6. ASSUME NEW h \in Sent(m) PROVE h \in D
        <3>1. h.count = t.count
            BY <1>5, <2>2, <2>5 DEF WellCut
        <3>2. h.sequence \in I
            BY <1>2, <3>1, ReassemblerAssumption DEF Sent, BadCoordinates
        <3>3. PICK j \in D : j \in Sent(m) /\ j.sequence = h.sequence
            BY <1>4, <2>3, <3>2
        <3>4. j = h
            BY <1>5, <3>3 DEF WellCut
        <3> QED
            BY <3>4
    <2> QED
        BY <1>2, <2>4, <2>5, <2>6
<1>6. PacketSound(e, D)
    <2> HIDE DEF e, P, I
    <2> QED
        BY <1>1, <1>2, <1>4, <1>5 DEF PacketSound
<1> QED
    BY <1>1, <1>2, <1>6
-----------------------------------------------------------------------------
(* The accounts of a step.                                                 *)

\* The parts waiting in the streams can be summed.
LEMMA WaitingCounts ==
    ASSUME RInv
    PROVE  /\ Counts(Waiting) /\ DOMAIN Waiting = DOMAIN pending
           /\ \A k \in DOMAIN pending : Waiting[k] = pending[k].received /\ pending[k].received \in Nat
<1>1. \A k \in DOMAIN pending : pending[k].received \in Nat
    <2> SUFFICES ASSUME NEW k \in DOMAIN pending PROVE pending[k].received \in Nat
        OBVIOUS
    <2> DEFINE P == DOMAIN pending[k].parts
               n == pending[k].count - 1
    <2>1. n \in Int /\ P \in SUBSET (0..n) /\ pending[k].received = Cardinality(P)
        BY DEF RInv, StreamSound
    <2> HIDE DEF P, n
    <2>2. IsFiniteSet(0..n)
        BY <2>1, FS_Interval
    <2>3. IsFiniteSet(P)
        BY <2>1, <2>2, FS_Subset
    <2> QED
        BY <2>1, <2>3, FS_CardinalityType
<1> QED
    BY <1>1 DEF Waiting, Counts, RInv

\* The waiting fragments after one stream has changed or gone.
LEMMA WaitingMoves ==
    ASSUME RInv, NEW k, NEW s, NEW p,
           \/ p = With(k, s) /\ s.received \in Nat
           \/ p = Without(k) /\ s.received = 0
    PROVE  /\ IsFiniteSet(DOMAIN p)
           /\ \E r \in Nat : /\ SumFunction(Waiting) = At(Waiting, k) + r
                             /\ SumFunction(WaitsIn(p)) = s.received + r
<1> DEFINE g == WaitsIn(p)
<1>1. Counts(Waiting) /\ DOMAIN Waiting = DOMAIN pending /\ IsFiniteSet(DOMAIN pending)
      /\ \A j \in DOMAIN pending : Waiting[j] = pending[j].received /\ pending[j].received \in Nat
    BY WaitingCounts DEF RInv
<1>2. CASE p = With(k, s) /\ s.received \in Nat
    <2>1. DOMAIN p = DOMAIN pending \cup {k} /\ p[k] = s /\ \A j \in DOMAIN pending : j # k => p[j] = pending[j]
        BY <1>2 DEF With
    <2>2. IsFiniteSet(DOMAIN p)
        BY <1>1, <2>1, FS_AddElement
    <2>3. DOMAIN g = DOMAIN p /\ g[k] = s.received
          /\ \A j \in DOMAIN pending : j # k => g[j] = Waiting[j]
        BY <1>1, <2>1 DEF WaitsIn
    <2>4. Counts(g)
        BY <1>1, <1>2, <2>1, <2>2, <2>3 DEF Counts
    <2> HIDE DEF g
    <2>5. DOMAIN Waiting \ {k} = DOMAIN g \ {k} /\ \A y \in DOMAIN Waiting \ {k} : Waiting[y] = g[y]
        BY <1>1, <2>1, <2>3
    <2>6. At(g, k) = s.received
        BY <2>1, <2>3 DEF At
    <2>7. \E r \in Nat : SumFunction(Waiting) = At(Waiting, k) + r /\ SumFunction(g) = At(g, k) + r
        BY <1>1, <2>4, <2>5, SumChange
    <2> QED
        BY <2>2, <2>6, <2>7 DEF g
<1>3. CASE p = Without(k) /\ s.received = 0
    <2>1. DOMAIN p = DOMAIN pending \ {k} /\ \A j \in DOMAIN p : p[j] = pending[j]
        BY <1>3 DEF Without
    <2>2. IsFiniteSet(DOMAIN p)
        BY <1>1, <2>1, FS_Subset
    <2>3. DOMAIN g = DOMAIN p /\ \A j \in DOMAIN p : g[j] = Waiting[j]
        BY <1>1, <2>1 DEF WaitsIn
    <2>4. Counts(g)
        BY <1>1, <2>1, <2>2, <2>3 DEF Counts
    <2> HIDE DEF g
    <2>5. DOMAIN Waiting \ {k} = DOMAIN g \ {k} /\ \A y \in DOMAIN Waiting \ {k} : Waiting[y] = g[y]
        BY <1>1, <2>1, <2>3
    <2>6. At(g, k) = s.received
        BY <1>3, <2>1, <2>3 DEF At
    <2>7. \E r \in Nat : SumFunction(Waiting) = At(Waiting, k) + r /\ SumFunction(g) = At(g, k) + r
        BY <1>1, <2>4, <2>5, SumChange
    <2> QED
        BY <2>2, <2>6, <2>7 DEF g
<1> QED
    BY <1>2, <1>3

\* The waiting fragments after a stream is dropped.
LEMMA DroppedMoves ==
    ASSUME RInv, NEW k, pending' = Without(k)
    PROVE  /\ IsFiniteSet(DOMAIN pending') /\ SumFunction(Waiting)' \in Nat
           /\ SumFunction(Waiting) = At(Waiting, k) + SumFunction(Waiting)'
<1> DEFINE s == [received |-> 0]
           p == pending'
<1>1. p = Without(k) /\ s.received = 0
    OBVIOUS
<1>2. SumFunction(Waiting)' = SumFunction(WaitsIn(p))
    BY DEF Waiting, WaitsIn
<1> HIDE DEF s, p
<1>3. /\ IsFiniteSet(DOMAIN p)
      /\ \E r \in Nat : /\ SumFunction(Waiting) = At(Waiting, k) + r
                        /\ SumFunction(WaitsIn(p)) = s.received + r
    BY <1>1, WaitingMoves
<1>4. PICK r \in Nat : /\ SumFunction(Waiting) = At(Waiting, k) + r
                      /\ SumFunction(WaitsIn(p)) = s.received + r
    BY <1>3
<1>5. SumFunction(Waiting)' = r
    BY <1>1, <1>2, <1>4
<1> QED
    BY <1>3, <1>4, <1>5 DEF p

\* The stream of a fragment holds its share of what waits.
LEMMA StreamWaits ==
    ASSUME RInv, NEW f
    PROVE  At(Waiting, Key(f)) = Stream(f).received /\ Stream(f).received \in Nat
BY WaitingCounts DEF At, Stream, NewStream

\* The parts of the emitted messages can be summed.
LEMMA PartsCount == ASSUME RInv PROVE Counts(Parts) /\ SumFunction(Parts) \in Nat
<1>1. PICK S : emitted \in Seq(S)
    BY DEF RInv
<1>2. DOMAIN emitted = 1..Len(emitted) /\ Len(emitted) \in Nat
    BY <1>1
<1>3. IsFiniteSet(1..Len(emitted))
    BY <1>2, FS_Interval
<1>4. \A n \in DOMAIN emitted : Cardinality(DOMAIN emitted[n].parts) \in Nat
    BY FS_CardinalityType DEF RInv, PacketSound
<1>5. Counts(Parts)
    BY <1>2, <1>3, <1>4 DEF Counts, Parts, PartsIn
<1> QED
    BY <1>5, SumTyped DEF Counts, SumFunction

\* The fragments in emitted packets after one more packet.
LEMMA PartsMove ==
    ASSUME RInv, NEW e, IsFiniteSet(DOMAIN e.parts), NEW q, q = Append(emitted, e)
    PROVE  /\ \E S : q \in Seq(S)
           /\ DOMAIN q = DOMAIN emitted \cup {Len(emitted) + 1} /\ q[Len(emitted) + 1] = e
           /\ \A n \in DOMAIN emitted : q[n] = emitted[n]
           /\ SumFunction(PartsIn(q))
                = Cardinality(DOMAIN e.parts) + SumFunction(Parts)
<1> DEFINE x == Len(emitted) + 1
           g == PartsIn(q)
<1>1. PICK S : emitted \in Seq(S)
    BY DEF RInv
<1>2. emitted \in Seq(S \cup {e}) /\ e \in S \cup {e}
    BY <1>1
<1>3. q \in Seq(S \cup {e}) /\ Len(q) = x /\ q[x] = e /\ \A n \in 1..Len(emitted) : q[n] = emitted[n]
    BY <1>2, AppendProperties
<1>4. Len(emitted) \in Nat /\ DOMAIN emitted = 1..Len(emitted) /\ DOMAIN q = 1..x
    BY <1>1, <1>3
<1>5. DOMAIN q = DOMAIN emitted \cup {x} /\ x \notin DOMAIN emitted /\ \A n \in DOMAIN emitted : q[n] = emitted[n]
    BY <1>3, <1>4
<1>6. Counts(Parts) /\ SumFunction(Parts) \in Nat /\ DOMAIN Parts = DOMAIN emitted
    BY PartsCount DEF Parts, PartsIn
<1>7. DOMAIN g = DOMAIN q /\ g[x] = Cardinality(DOMAIN e.parts) /\ \A n \in DOMAIN emitted : g[n] = Parts[n]
    BY <1>3, <1>5 DEF Parts, PartsIn
<1>8. Counts(g)
    <2>1. Cardinality(DOMAIN e.parts) \in Nat
        BY FS_CardinalityType
    <2>2. IsFiniteSet(DOMAIN q)
        BY <1>5, <1>6, FS_AddElement DEF Counts
    <2> QED
        BY <1>5, <1>6, <1>7, <2>1, <2>2 DEF Counts
<1> HIDE DEF g, x
<1>9. PICK r \in Nat : SumFunction(Parts) = At(Parts, x) + r /\ SumFunction(g) = At(g, x) + r
    BY <1>5, <1>6, <1>7, <1>8, SumChange
<1>10. At(Parts, x) = 0 /\ At(g, x) = Cardinality(DOMAIN e.parts)
    BY <1>5, <1>6, <1>7 DEF At
<1>11. SumFunction(g) = Cardinality(DOMAIN e.parts) + SumFunction(Parts)
    BY <1>9, <1>10
<1> QED
    BY <1>3, <1>5, <1>11 DEF g, x

\* The accounts before a step.
LEMMA Accounts ==
    ASSUME RInv
    PROVE  /\ stats.fragments_seen = whole + stats.rejected_fragments + stats.duplicate_fragments
                    + discarded + SumFunction(Waiting) + SumFunction(Parts)
           /\ stats.fragments_seen \in Nat /\ stats.rejected_fragments \in Nat
           /\ stats.duplicate_fragments \in Nat /\ whole \in Nat /\ discarded \in Nat
           /\ SumFunction(Waiting) \in Nat /\ SumFunction(Parts) \in Nat
<1>1. SumFunction(Waiting) \in Nat
    BY WaitingCounts, SumTyped DEF Counts, SumFunction
<1> QED
    BY <1>1, PartsCount DEF RInv, StatsOK, FragmentConservation, Parts, PartsIn

\* What push() counts.
LEMMA CountsSeen ==
    ASSUME RInv, NEW o \in SUBSET {"completed_messages", "duplicate_fragments", "rejected_fragments"},
           CountSeen(o)
    PROVE  /\ stats' \in [{"fragments_seen", "completed_messages", "duplicate_fragments",
                           "rejected_fragments"} -> Nat]
           /\ stats'.fragments_seen = stats.fragments_seen + 1
           /\ stats'.rejected_fragments
                = stats.rejected_fragments + (IF "rejected_fragments" \in o THEN 1 ELSE 0)
           /\ stats'.duplicate_fragments
                = stats.duplicate_fragments + (IF "duplicate_fragments" \in o THEN 1 ELSE 0)
<1>1. stats \in [{"fragments_seen", "completed_messages", "duplicate_fragments", "rejected_fragments"} -> Nat]
    BY DEF RInv, StatsOK
<1>2. stats' = [c \in DOMAIN stats |-> IF c \in {"fragments_seen"} \cup o THEN stats[c] + 1 ELSE stats[c]]
    BY DEF CountSeen
<1> QED
    BY <1>1, <1>2
-----------------------------------------------------------------------------
(* The steps.                                                              *)

\* The invariant holds at the start.
LEMMA InitRInv == Init => RInv
<1> SUFFICES ASSUME Init PROVE RInv
    OBVIOUS
<1>1. /\ DOMAIN pending = {} /\ DOMAIN emitted = {} /\ delivered = {} /\ whole = 0 /\ discarded = 0
      /\ emitted = << >>
    BY DEF Init
<1>2. StatsOK /\ stats.fragments_seen = 0 /\ stats.rejected_fragments = 0 /\ stats.duplicate_fragments = 0
    BY DEF Init, ZeroStats, StatsOK
<1>3. SumFunction(Waiting) = 0 /\ SumFunction(Parts) = 0
    BY <1>1, SumEmpty DEF SumFunction, Waiting, Parts, PartsIn
<1>4. FragmentConservation
    BY <1>1, <1>2, <1>3 DEF FragmentConservation, Parts, PartsIn
<1>5. \E S : emitted \in Seq(S)
    <2>1. emitted \in Seq({})
        BY <1>1
    <2> QED
        BY <2>1
<1>6. IsFiniteSet(DOMAIN pending)
    BY <1>1, FS_EmptySet
<1> QED
    BY <1>1, <1>2, <1>4, <1>5, <1>6 DEF RInv, Kept

\* A push that stores and returns nothing.
LEMMA RefusedKeeps ==
    ASSUME RInv, NEW f \in Fragments, PushMalformed(f) \/ PushDuplicate(f)
    PROVE  RInv'
<1>1. UNCHANGED <<pending, discarded, emitted, whole, cleared>> /\ delivered' = delivered \cup {f}
    BY DEF PushMalformed, PushDuplicate, Seen
<1>2. /\ StatsOK' /\ stats'.fragments_seen = stats.fragments_seen + 1
      /\ stats'.rejected_fragments + stats'.duplicate_fragments
            = stats.rejected_fragments + stats.duplicate_fragments + 1
      /\ stats'.rejected_fragments \in Nat /\ stats'.duplicate_fragments \in Nat
    <2>0. stats.rejected_fragments \in Nat /\ stats.duplicate_fragments \in Nat
        BY Accounts
    <2>1. CASE PushMalformed(f)
        <3>1. CountSeen({"rejected_fragments"})
            BY <2>1 DEF PushMalformed, Seen
        <3>2. /\ stats' \in [{"fragments_seen", "completed_messages", "duplicate_fragments",
                             "rejected_fragments"} -> Nat]
              /\ stats'.fragments_seen = stats.fragments_seen + 1
              /\ stats'.rejected_fragments = stats.rejected_fragments + 1
              /\ stats'.duplicate_fragments = stats.duplicate_fragments
            BY <2>0, <3>1, CountsSeen
        <3> QED
            BY <1>1, <2>0, <3>2 DEF StatsOK, RInv
    <2>2. CASE PushDuplicate(f)
        <3>1. CountSeen({"duplicate_fragments"})
            BY <2>2 DEF PushDuplicate, Seen
        <3>2. /\ stats' \in [{"fragments_seen", "completed_messages", "duplicate_fragments",
                             "rejected_fragments"} -> Nat]
              /\ stats'.fragments_seen = stats.fragments_seen + 1
              /\ stats'.rejected_fragments = stats.rejected_fragments
              /\ stats'.duplicate_fragments = stats.duplicate_fragments + 1
            BY <2>0, <3>1, CountsSeen
        <3> QED
            BY <1>1, <2>0, <3>2 DEF StatsOK, RInv
    <2> QED
        BY <2>1, <2>2
<1>3. /\ \A k \in DOMAIN pending' : StreamSound(pending'[k], k, delivered')
                                    /\ pending'[k].received < pending'[k].count
      /\ \A n \in DOMAIN emitted' : PacketSound(emitted'[n], delivered')
    BY <1>1, MoreDelivered DEF RInv
<1>4. Kept'
    <2> SUFFICES ASSUME NEW m \in Messages, Due(m)', NEW g \in Sent(m) \cap delivered'
                 PROVE  Key(g) \in DOMAIN pending /\ g.sequence \in DOMAIN pending[Key(g)].parts
        BY <1>1 DEF Kept
    <2>1. Due(m)
        BY <1>1 DEF Due
    <2>2. CASE g \in delivered
        BY <2>1, <2>2 DEF RInv, Kept
    <2>3. CASE g = f
        <3>1. ~BadCoordinates(f) /\ ~CountChanged(f)
            BY <2>1, <2>3, StreamIsOwn DEF Sent, Due
        <3>2. f.sequence \in DOMAIN Stream(f).parts
            BY <3>1 DEF PushMalformed, PushDuplicate, Present
        <3> QED
            BY <2>3, <3>2 DEF Stream, NewStream
    <2> QED
        BY <1>1, <2>2, <2>3
<1>5. FragmentConservation'
    <2>1. SumFunction(Waiting)' = SumFunction(Waiting) /\ SumFunction(Parts)' = SumFunction(Parts)
        BY <1>1 DEF Waiting, Parts
    <2>2. stats'.fragments_seen = whole' + stats'.rejected_fragments + stats'.duplicate_fragments
                + discarded' + SumFunction(Waiting)' + SumFunction(Parts)'
        BY <1>1, <1>2, <2>1, Accounts
    <2> QED
        BY <2>2 DEF FragmentConservation, Parts, PartsIn
<1> QED
    BY <1>1, <1>2, <1>3, <1>4, <1>5 DEF RInv

\* A fragment whose stream grows too large takes the stream with it.
LEMMA OversizeKeeps ==
    ASSUME RInv, NEW f \in Fragments, PushOversize(f)
    PROVE  RInv'
<1> DEFINE k == Key(f)
<1>1. /\ pending' = Without(k) /\ discarded' = discarded + Stream(f).received
      /\ UNCHANGED <<emitted, whole, cleared>> /\ delivered' = delivered \cup {f}
      /\ CountSeen({"rejected_fragments"})
      /\ ~BadCoordinates(f) /\ ~CountChanged(f) /\ ~Present(f) /\ Oversize(f)
    BY DEF PushOversize, Seen
<1>2. DOMAIN pending' = DOMAIN pending \ {k} /\ \A j \in DOMAIN pending' : pending'[j] = pending[j]
    BY <1>1 DEF Without
<1>3. /\ stats' \in [{"fragments_seen", "completed_messages", "duplicate_fragments",
                      "rejected_fragments"} -> Nat]
      /\ stats'.fragments_seen = stats.fragments_seen + 1
      /\ stats'.rejected_fragments = stats.rejected_fragments + 1
      /\ stats'.duplicate_fragments = stats.duplicate_fragments
    BY <1>1, CountsSeen, Accounts
<1>4. Stream(f).received \in Nat /\ At(Waiting, k) = Stream(f).received
    BY StreamWaits
<1>5. StatsOK'
    BY <1>1, <1>3, <1>4 DEF StatsOK, RInv
<1>6. /\ \A j \in DOMAIN pending' : StreamSound(pending'[j], j, delivered')
                                    /\ pending'[j].received < pending'[j].count
      /\ \A n \in DOMAIN emitted' : PacketSound(emitted'[n], delivered')
    BY <1>1, <1>2, MoreDelivered DEF RInv
<1>7. Kept'
    <2> SUFFICES ASSUME NEW m \in Messages, Due(m)', NEW g \in Sent(m) \cap delivered'
                 PROVE  Key(g) \in DOMAIN pending' /\ g.sequence \in DOMAIN pending'[Key(g)].parts
        BY DEF Kept
    <2>1. Due(m)
        BY <1>1 DEF Due
    <2>2. Key(g) # k
        BY <1>1, <2>1, FitsStays DEF Due
    <2>3. g \in delivered
        BY <1>1, <2>2
    <2> QED
        BY <1>2, <2>1, <2>2, <2>3 DEF RInv, Kept
<1>8. IsFiniteSet(DOMAIN pending') /\ FragmentConservation'
    <2>1. IsFiniteSet(DOMAIN pending')
        BY <1>1, DroppedMoves
    <2>2. SumFunction(Parts)' = SumFunction(Parts)
        BY <1>1 DEF Parts
    <2>3. SumFunction(Waiting) = Stream(f).received + SumFunction(Waiting)' /\ SumFunction(Waiting)' \in Nat
        BY <1>1, <1>4, DroppedMoves
    <2>4. stats'.fragments_seen = whole' + stats'.rejected_fragments + stats'.duplicate_fragments
                + discarded' + SumFunction(Waiting)' + SumFunction(Parts)'
        BY <1>1, <1>3, <1>4, <2>2, <2>3, Accounts
    <2> QED
        BY <2>1, <2>4 DEF FragmentConservation, Parts, PartsIn
<1> QED
    BY <1>1, <1>5, <1>6, <1>7, <1>8 DEF RInv

\* A fragment is stored in its stream.
LEMMA StoredKeeps ==
    ASSUME RInv, NEW f \in Fragments, PushStored(f)
    PROVE  RInv'
<1> DEFINE k == Key(f)
           s == Stream(f)
           t == Stored(f)
<1>1. /\ pending' = With(k, t) /\ delivered' = delivered \cup {f}
      /\ UNCHANGED <<emitted, whole, cleared, discarded>> /\ CountSeen({})
      /\ ~BadCoordinates(f) /\ ~CountChanged(f) /\ ~Present(f) /\ ~Oversize(f) /\ ~Complete(t)
    BY DEF PushStored, Seen
<1>2. /\ StreamSound(t, k, delivered') /\ s.received \in Nat /\ t.received = s.received + 1
      /\ DOMAIN t.parts = DOMAIN s.parts \cup {f.sequence}
    BY <1>1, StoredSound
<1>3. t.received < t.count
    <2> DEFINE P == DOMAIN t.parts
               n == t.count - 1
    <2>1. n \in Int /\ P \in SUBSET (0..n) /\ t.received = Cardinality(P) /\ t.count \in Nat /\ t.received \in Nat
        BY <1>2 DEF StreamSound
    <2> HIDE DEF P, n
    <2>2. Cardinality(P) <= Cardinality(0..n)
        <3> DEFINE I == 0..n
        <3>1. IsFiniteSet(I)
            BY <2>1, FS_Interval
        <3>2. P \in SUBSET I
            BY <2>1
        <3> HIDE DEF I
        <3>3. Cardinality(P) <= Cardinality(I)
            BY <3>1, <3>2, FS_Subset
        <3> QED
            BY <3>3 DEF I
    <2>3. Cardinality(0..n) = IF 0 > n THEN 0 ELSE n - 0 + 1
        BY <2>1, FS_Interval
    <2>4. t.received <= t.count
        BY <2>1, <2>2, <2>3 DEF n
    <2> QED
        BY <1>1, <2>1, <2>4 DEF Complete
<1> HIDE DEF t
<1>4. /\ DOMAIN pending' = DOMAIN pending \cup {k} /\ pending'[k] = t
      /\ \A j \in DOMAIN pending : j # k => pending'[j] = pending[j]
    BY <1>1 DEF With
<1>5. /\ stats' \in [{"fragments_seen", "completed_messages", "duplicate_fragments",
                      "rejected_fragments"} -> Nat]
      /\ stats'.fragments_seen = stats.fragments_seen + 1
      /\ stats'.rejected_fragments = stats.rejected_fragments
      /\ stats'.duplicate_fragments = stats.duplicate_fragments
    BY <1>1, CountsSeen, Accounts
<1>6. StatsOK'
    BY <1>1, <1>5 DEF StatsOK, RInv
<1>7. /\ \A j \in DOMAIN pending' : StreamSound(pending'[j], j, delivered')
                                    /\ pending'[j].received < pending'[j].count
      /\ \A n \in DOMAIN emitted' : PacketSound(emitted'[n], delivered')
    BY <1>1, <1>2, <1>3, <1>4, MoreDelivered DEF RInv
<1>8. Kept'
    <2> SUFFICES ASSUME NEW m \in Messages, Due(m)', NEW g \in Sent(m) \cap delivered'
                 PROVE  Key(g) \in DOMAIN pending' /\ g.sequence \in DOMAIN pending'[Key(g)].parts
        BY DEF Kept
    <2>1. Due(m)
        BY <1>1 DEF Due
    <2>2. CASE g = f
        BY <1>2, <1>4, <2>2
    <2>3. CASE g \in delivered
        <3>1. Key(g) \in DOMAIN pending /\ g.sequence \in DOMAIN pending[Key(g)].parts
            BY <2>1, <2>3 DEF RInv, Kept
        <3>2. CASE Key(g) = k
            <4>1. s = pending[k]
                BY <3>1, <3>2 DEF Stream
            <4> QED
                BY <1>2, <1>4, <3>1, <3>2, <4>1
        <3>3. CASE Key(g) # k
            BY <1>4, <3>1, <3>3
        <3> QED
            BY <3>2, <3>3
    <2> QED
        BY <1>1, <2>2, <2>3
<1>9. IsFiniteSet(DOMAIN pending') /\ FragmentConservation'
    <2>1. /\ IsFiniteSet(DOMAIN pending')
          /\ \E r \in Nat : /\ SumFunction(Waiting) = At(Waiting, k) + r
                            /\ SumFunction(WaitsIn(pending')) = t.received + r
        BY <1>1, <1>2, WaitingMoves
    <2>2. SumFunction(Waiting)' = SumFunction(WaitsIn(pending'))
          /\ SumFunction(Parts)' = SumFunction(Parts)
        BY <1>1 DEF Waiting, Parts, WaitsIn
    <2>3. SumFunction(Waiting)' = SumFunction(Waiting) + 1
        BY <1>2, <2>1, <2>2, StreamWaits
    <2>4. stats'.fragments_seen = whole' + stats'.rejected_fragments + stats'.duplicate_fragments
                + discarded' + SumFunction(Waiting)' + SumFunction(Parts)'
        BY <1>1, <1>5, <2>2, <2>3, Accounts
    <2> QED
        BY <2>1, <2>4 DEF FragmentConservation, Parts, PartsIn
<1> QED
    BY <1>1, <1>6, <1>7, <1>8, <1>9 DEF RInv

\* A fragment completes its stream and the message comes out.
LEMMA CompletedKeeps ==
    ASSUME RInv, NEW f \in Fragments, PushCompleted(f)
    PROVE  RInv'
<1> DEFINE k == Key(f)
           s == Stream(f)
           t == Stored(f)
           e == Assembled(t)
<1>1. /\ pending' = Without(k) /\ delivered' = delivered \cup {f} /\ emitted' = Append(emitted, e)
      /\ UNCHANGED <<whole, cleared, discarded>> /\ CountSeen({"completed_messages"})
      /\ ~BadCoordinates(f) /\ ~CountChanged(f) /\ ~Present(f) /\ ~Oversize(f) /\ Complete(t)
    BY DEF PushCompleted, Seen
<1>2. /\ StreamSound(t, k, delivered') /\ s.received \in Nat /\ t.received = s.received + 1
      /\ t.first = s.first
    BY <1>1, StoredSound
<1>3. /\ PacketSound(e, delivered') /\ e.first = s.first
      /\ Cardinality(DOMAIN e.parts) = t.received
    BY <1>1, <1>2, AssembledSound
<1>4. IsFiniteSet(DOMAIN e.parts)
    BY <1>3 DEF PacketSound
<1> HIDE DEF t, e
<1>5. DOMAIN pending' = DOMAIN pending \ {k} /\ \A j \in DOMAIN pending' : pending'[j] = pending[j]
    BY <1>1 DEF Without
<1>6. /\ \E S : emitted' \in Seq(S)
      /\ DOMAIN emitted' = DOMAIN emitted \cup {Len(emitted) + 1} /\ emitted'[Len(emitted) + 1] = e
      /\ \A n \in DOMAIN emitted : emitted'[n] = emitted[n]
      /\ SumFunction(PartsIn(emitted'))
            = Cardinality(DOMAIN e.parts) + SumFunction(Parts)
    <2> DEFINE q == emitted'
    <2>1. q = Append(emitted, e)
        BY <1>1
    <2> HIDE DEF q
    <2>2. \E S : q \in Seq(S)
        BY <1>4, <2>1, PartsMove
    <2>3. DOMAIN q = DOMAIN emitted \cup {Len(emitted) + 1} /\ q[Len(emitted) + 1] = e
        BY <1>4, <2>1, PartsMove
    <2>4. \A n \in DOMAIN emitted : q[n] = emitted[n]
        BY <1>4, <2>1, PartsMove
    <2>5. SumFunction(PartsIn(q)) = Cardinality(DOMAIN e.parts) + SumFunction(Parts)
        BY <1>4, <2>1, PartsMove
    <2> QED
        BY <2>2, <2>3, <2>4, <2>5 DEF q
<1>7. /\ stats' \in [{"fragments_seen", "completed_messages", "duplicate_fragments",
                      "rejected_fragments"} -> Nat]
      /\ stats'.fragments_seen = stats.fragments_seen + 1
      /\ stats'.rejected_fragments = stats.rejected_fragments
      /\ stats'.duplicate_fragments = stats.duplicate_fragments
    <2>1. stats.rejected_fragments \in Nat /\ stats.duplicate_fragments \in Nat
        BY Accounts
    <2> QED
        BY <1>1, <2>1, CountsSeen
<1>8. StatsOK'
    BY <1>1, <1>7 DEF StatsOK, RInv
<1>9. /\ \A j \in DOMAIN pending' : StreamSound(pending'[j], j, delivered')
                                    /\ pending'[j].received < pending'[j].count
      /\ \A n \in DOMAIN emitted' : PacketSound(emitted'[n], delivered')
    BY <1>1, <1>3, <1>5, <1>6, MoreDelivered DEF RInv
<1>10. Kept'
    <2> SUFFICES ASSUME NEW m \in Messages, Due(m)', NEW g \in Sent(m) \cap delivered'
                 PROVE  Key(g) \in DOMAIN pending' /\ g.sequence \in DOMAIN pending'[Key(g)].parts
        BY DEF Kept
    <2>1. Due(m) /\ s.first # m /\ m \in WellCut
        BY <1>1, <1>3, <1>6 DEF Due
    <2>2. Key(g) # k
        BY <1>1, <2>1, StreamIsOwn
    <2>3. g \in delivered
        BY <1>1, <2>2
    <2> QED
        BY <1>5, <2>1, <2>2, <2>3 DEF RInv, Kept
<1>11. IsFiniteSet(DOMAIN pending') /\ FragmentConservation'
    <2>1. IsFiniteSet(DOMAIN pending')
        BY <1>1, DroppedMoves
    <2>2. SumFunction(Parts)' = SumFunction(PartsIn(emitted'))
        BY DEF Parts
    <2>3. SumFunction(Waiting) = s.received + SumFunction(Waiting)' /\ SumFunction(Waiting)' \in Nat
        BY <1>1, DroppedMoves, StreamWaits
    <2>4. SumFunction(Parts)' = s.received + 1 + SumFunction(Parts)
        BY <1>2, <1>3, <1>6, <2>2
    <2>5. stats'.fragments_seen = whole' + stats'.rejected_fragments + stats'.duplicate_fragments
                + discarded' + SumFunction(Waiting)' + SumFunction(Parts)'
        <3> DEFINE w == SumFunction(Waiting)'
                   v == SumFunction(Waiting)
                   x == SumFunction(Parts)'
                   y == SumFunction(Parts)
                   r == s.received
        <3>1. w \in Nat /\ y \in Nat /\ r \in Nat /\ v = r + w /\ x = r + 1 + y
            BY <1>2, <2>3, <2>4, Accounts
        <3>2. stats.fragments_seen = whole + stats.rejected_fragments + stats.duplicate_fragments
                    + discarded + v + y
            BY Accounts
        <3> HIDE DEF w, v, x, y, r
        <3> DEFINE a == stats.fragments_seen
                   b == stats.rejected_fragments
                   c == stats.duplicate_fragments
        <3>3. a = whole + b + c + discarded + v + y /\ a \in Nat /\ b \in Nat /\ c \in Nat
              /\ whole \in Nat /\ discarded \in Nat
            BY <3>2, Accounts
        <3>4. stats'.fragments_seen = a + 1 /\ stats'.rejected_fragments = b /\ stats'.duplicate_fragments = c
              /\ whole' = whole /\ discarded' = discarded
            BY <1>1, <1>7
        <3> HIDE DEF a, b, c
        <3>5. a + 1 = whole + b + c + discarded + w + x
            BY <3>1, <3>3
        <3> QED
            BY <3>4, <3>5 DEF w, x
    <2> QED
        BY <2>1, <2>5 DEF FragmentConservation, Parts, PartsIn
<1> QED
    BY <1>1, <1>6, <1>8, <1>9, <1>10, <1>11 DEF RInv
\* A packet without fragment information is only counted.
LEMMA UnfragmentedKeeps == ASSUME RInv, PushUnfragmented PROVE RInv'
<1>1. UNCHANGED <<pending, delivered, discarded, emitted, cleared>> /\ whole' = whole + 1 /\ CountSeen({})
    BY DEF PushUnfragmented
<1>2. /\ stats' \in [{"fragments_seen", "completed_messages", "duplicate_fragments",
                      "rejected_fragments"} -> Nat]
      /\ stats'.fragments_seen = stats.fragments_seen + 1
      /\ stats'.rejected_fragments = stats.rejected_fragments
      /\ stats'.duplicate_fragments = stats.duplicate_fragments
    BY <1>1, CountsSeen, Accounts
<1>3. StatsOK'
    BY <1>1, <1>2 DEF StatsOK, RInv
<1>4. SumFunction(Waiting)' = SumFunction(Waiting) /\ SumFunction(Parts)' = SumFunction(Parts)
    BY <1>1 DEF Waiting, Parts
<1>5. stats'.fragments_seen = whole' + stats'.rejected_fragments + stats'.duplicate_fragments
            + discarded' + SumFunction(Waiting)' + SumFunction(Parts)'
    BY <1>1, <1>2, <1>4, Accounts
<1>6. FragmentConservation'
    BY <1>5 DEF FragmentConservation, Parts, PartsIn
<1>7. Kept'
    BY <1>1 DEF RInv, Kept, Due
<1> QED
    BY <1>1, <1>3, <1>6, <1>7 DEF RInv

\* clear(key): the fragments of the stream become discarded ones, and its messages
\* are no longer due.
LEMMA ClearKeeps == ASSUME RInv, NEW k \in Keys, Clear(k) PROVE RInv'
<1>1. /\ pending' = Without(k) /\ cleared' = cleared \cup {k}
      /\ discarded' = discarded + (IF k \in DOMAIN pending THEN pending[k].received ELSE 0)
      /\ UNCHANGED <<stats, delivered, whole, emitted>>
    BY DEF Clear
<1>2. DOMAIN pending' = DOMAIN pending \ {k} /\ \A j \in DOMAIN pending' : pending'[j] = pending[j]
    BY <1>1 DEF Without
<1>3. discarded' = discarded + At(Waiting, k) /\ At(Waiting, k) \in Nat
    BY <1>1, WaitingCounts DEF At
<1>4. /\ IsFiniteSet(DOMAIN pending') /\ SumFunction(Waiting)' \in Nat
      /\ SumFunction(Waiting) = At(Waiting, k) + SumFunction(Waiting)'
    BY <1>1, DroppedMoves
<1>5. StatsOK'
    BY <1>1, <1>3 DEF StatsOK, RInv
<1>6. /\ \A j \in DOMAIN pending' : StreamSound(pending'[j], j, delivered')
                                    /\ pending'[j].received < pending'[j].count
      /\ \A n \in DOMAIN emitted' : PacketSound(emitted'[n], delivered')
    BY <1>1, <1>2 DEF RInv
<1>7. Kept'
    <2> SUFFICES ASSUME NEW m \in Messages, Due(m)', NEW g \in Sent(m) \cap delivered'
                 PROVE  Key(g) \in DOMAIN pending' /\ g.sequence \in DOMAIN pending'[Key(g)].parts
        BY DEF Kept
    <2>1. Due(m) /\ Key(g) # k
        BY <1>1 DEF Due
    <2> QED
        BY <1>1, <1>2, <2>1 DEF RInv, Kept
<1>8. FragmentConservation'
    <2> DEFINE v == At(Waiting, k)
               w == SumFunction(Waiting)'
    <2>1. v \in Nat /\ w \in Nat /\ SumFunction(Waiting) = v + w /\ discarded' = discarded + v
        BY <1>3, <1>4
    <2>2. SumFunction(Parts)' = SumFunction(Parts)
        BY <1>1 DEF Parts
    <2> HIDE DEF v, w
    <2>3. stats.fragments_seen = whole + stats.rejected_fragments + stats.duplicate_fragments
                + discarded' + w + SumFunction(Parts)
        BY <2>1, Accounts
    <2> QED
        BY <1>1, <2>2, <2>3 DEF w, FragmentConservation, Parts, PartsIn
<1> QED
    BY <1>1, <1>4, <1>5, <1>6, <1>7, <1>8 DEF RInv

\* clear(): every stream is dropped.
LEMMA ClearAllKeeps == ASSUME RInv, ClearAll PROVE RInv'
<1>1. /\ pending' = << >> /\ cleared' = Keys /\ discarded' = discarded + SumFunction(Waiting)
      /\ UNCHANGED <<stats, delivered, whole, emitted>>
    BY DEF ClearAll
<1>2. DOMAIN pending' = {} /\ IsFiniteSet(DOMAIN pending')
    BY <1>1, FS_EmptySet
<1>3. SumFunction(Waiting)' = 0 /\ SumFunction(Parts)' = SumFunction(Parts)
    <2>1. DOMAIN Waiting' = {}
        BY <1>2 DEF Waiting
    <2>2. SumFunction(Waiting)' = SumFunctionOnSet(Waiting', {})
        BY <2>1 DEF SumFunction
    <2> QED
        BY <1>1, <2>2, SumEmpty DEF Parts
<1>4. StatsOK'
    BY <1>1, Accounts DEF StatsOK, RInv
<1>5. stats'.fragments_seen = whole' + stats'.rejected_fragments + stats'.duplicate_fragments
            + discarded' + SumFunction(Waiting)' + SumFunction(Parts)'
    BY <1>1, <1>3, Accounts
<1>6. FragmentConservation'
    BY <1>5 DEF FragmentConservation, Parts, PartsIn
<1>7. Kept'
    <2> SUFFICES ASSUME NEW m \in Messages, Due(m)', NEW g \in Sent(m) \cap delivered' PROVE FALSE
        BY DEF Kept
    <2> QED
        BY <1>1 DEF Due, Sent, Keys
<1>8. \A n \in DOMAIN emitted' : PacketSound(emitted'[n], delivered')
    BY <1>1 DEF RInv
<1> QED
    BY <1>1, <1>2, <1>4, <1>6, <1>7, <1>8 DEF RInv

\* Every step of the reassembler keeps the invariant.
LEMMA NextRInv == RInv /\ [Next]_vars => RInv'
<1> SUFFICES ASSUME RInv, [Next]_vars PROVE RInv'
    OBVIOUS
<1>1. CASE PushUnfragmented
    BY <1>1, UnfragmentedKeeps
<1>2. CASE \E f \in Fragments : PushMalformed(f) \/ PushDuplicate(f)
    BY <1>2, RefusedKeeps
<1>3. CASE \E f \in Fragments : PushOversize(f)
    BY <1>3, OversizeKeeps
<1>4. CASE \E f \in Fragments : PushStored(f)
    BY <1>4, StoredKeeps
<1>5. CASE \E f \in Fragments : PushCompleted(f)
    BY <1>5, CompletedKeeps
<1>6. CASE \E k \in Keys : Clear(k)
    BY <1>6, ClearKeeps
<1>7. CASE ClearAll
    BY <1>7, ClearAllKeeps
<1>8. CASE UNCHANGED vars
    <2>1. UNCHANGED <<pending, stats, delivered, whole, discarded, emitted, cleared>>
        BY <1>8 DEF vars
    <2>2. StatsOK' /\ Kept' /\ FragmentConservation'
        BY <2>1 DEF RInv, StatsOK, Kept, Due, FragmentConservation, Waiting
    <2> QED
        BY <2>1, <2>2 DEF RInv
<1> QED
    BY <1>1, <1>2, <1>3, <1>4, <1>5, <1>6, <1>7, <1>8 DEF Next

\* A well-cut message of which everything was delivered and nothing came out would
\* wait in its stream with every part, and a stream with every part does not wait.
LEMMA ArrivedIsOut == RInv => CompletesOnArrival
<1> SUFFICES ASSUME RInv, NEW m \in WellCut, Sent(m) # {}, Sent(m) \subseteq delivered,
                    SumFunctionOnSet(Size, Sent(m)) <= MaxPayload,
                    \A f \in Sent(m) : Key(f) \notin cleared,
                    \A n \in DOMAIN emitted : emitted[n].first # m
             PROVE  FALSE
    BY DEF CompletesOnArrival
<1>1. PICK f \in Sent(m) : TRUE
    OBVIOUS
<1> DEFINE k == Key(f)
           s == pending[k]
           P == DOMAIN s.parts
           I == 0..(f.count - 1)
<1>2. m \in Messages /\ Due(m)
    BY DEF WellCut, Messages, Due
<1>3. \A g \in Sent(m) : Key(g) = k /\ g.sequence \in DOMAIN pending[Key(g)].parts /\ Key(g) \in DOMAIN pending
    <2>1. \A g \in Sent(m) : Key(g) = k
        BY DEF WellCut
    <2> QED
        BY <1>2, <2>1 DEF RInv, Kept
<1>4. k \in DOMAIN pending /\ \A g \in Sent(m) : g.sequence \in P
    BY <1>3
<1>5. /\ StreamSound(s, k, delivered) /\ s.received < s.count
    BY <1>4 DEF RInv
<1>6. f.count \in Nat \ {0} /\ f.message = m /\ f \in Fragments /\ ~BadCoordinates(f)
    BY SentCount DEF Sent
<1>7. s.count = f.count
    <2>1. PICK h \in delivered : Origin(h, k, s.count)
        BY <1>5 DEF StreamSound
    <2> QED
        BY <1>6, <2>1, OwnKey DEF Origin
<1>8. P \in SUBSET I /\ s.received = Cardinality(P)
    BY <1>5, <1>7 DEF StreamSound
<1>9. I \subseteq P
    <2> SUFFICES ASSUME NEW q \in I PROVE q \in P
        OBVIOUS
    <2>1. PICK g \in Sent(m) : g.sequence = q
        BY DEF WellCut
    <2> QED
        BY <1>4, <2>1
<1>10. P = I
    BY <1>8, <1>9
<1>11. Cardinality(I) = f.count
    <2> DEFINE n == f.count - 1
    <2>1. n \in Int /\ f.count = n + 1 /\ n >= 0
        BY <1>6
    <2> HIDE DEF n
    <2>2. Cardinality(0..n) = IF 0 > n THEN 0 ELSE n - 0 + 1
        BY <2>1, FS_Interval
    <2>3. Cardinality(0..n) = f.count
        BY <2>1, <2>2
    <2> QED
        BY <2>3 DEF n
<1> QED
    BY <1>5, <1>6, <1>7, <1>8, <1>10, <1>11

\* FragmentReassembler::push emits the right messages at the right time, for every
\* set of fragments, every limit and every order and number of deliveries: each
\* packet pushed is accounted for once, a message that has its stream id to itself
\* comes out with its own parts and only when all of them arrived, and one that
\* arrived and was not cleared has come out.
THEOREM MessagesComeOutWhole == Spec => []MessagesWhole
<1>1. RInv => MessagesWhole
    <2> SUFFICES ASSUME RInv PROVE MessagesWhole
        OBVIOUS
    <2>1. EmittedWhole
        BY DEF RInv, PacketSound, EmittedWhole
    <2>2. FragmentConservation
        BY DEF RInv
    <2> QED
        BY <2>1, <2>2, ArrivedIsOut DEF MessagesWhole
<1> QED
    BY <1>1, InitRInv, NextRInv, PTL DEF Spec

-----------------------------------------------------------------------------
(* StreamParser: streams and their cells.                                  *)

\* t is s with more behind it.
Continues(t, s) == Len(s) <= Len(t) /\ \A i \in 1..Len(s) : t[i] = s[i]

\* A part of a stream.
LEMMA PartOfStream ==
    ASSUME NEW s \in Seq(StreamCells), NEW i \in Int, NEW j \in Int, i >= 1, j <= Len(s)
    PROVE  /\ SubSeq(s, i, j) \in Seq(StreamCells)
           /\ Len(SubSeq(s, i, j)) = IF i <= j THEN j - i + 1 ELSE 0
           /\ \A k \in 1..(j - i + 1) : SubSeq(s, i, j)[k] = s[i + k - 1]
<1>1. \A k \in i..j : s[k] \in StreamCells
    BY LenProperties
<1> QED
    BY <1>1, SubSeqProperties

\* What is left of a stream from a position on.
LEMMA FromIs ==
    ASSUME NEW s \in Seq(StreamCells), NEW i \in 1..(Len(s) + 1)
    PROVE  /\ From(s, i) \in Seq(StreamCells) /\ Len(From(s, i)) = Len(s) - i + 1
           /\ \A k \in 1..(Len(s) - i + 1) : From(s, i)[k] = s[i + k - 1]
<1> DEFINE n == Len(s)
<1>1. n \in Nat /\ i \in Int /\ i >= 1 /\ i <= n + 1
    BY LenProperties
<1>2. n \in Int /\ n <= Len(s)
    BY <1>1
<1> HIDE DEF n
<1>3. /\ SubSeq(s, i, n) \in Seq(StreamCells) /\ Len(SubSeq(s, i, n)) = IF i <= n THEN n - i + 1 ELSE 0
      /\ \A k \in 1..(n - i + 1) : SubSeq(s, i, n)[k] = s[i + k - 1]
    BY <1>1, <1>2, PartOfStream
<1>4. Len(SubSeq(s, i, n)) = n - i + 1
    BY <1>1, <1>3
<1> QED
    BY <1>3, <1>4 DEF From, n

\* Dropping cells twice is dropping them at once.
LEMMA FromFrom ==
    ASSUME NEW s \in Seq(StreamCells), NEW i \in 1..(Len(s) + 1), NEW j \in 1..(Len(s) - i + 2)
    PROVE  i + j - 1 \in 1..(Len(s) + 1) /\ From(From(s, i), j) = From(s, i + j - 1)
<1> DEFINE u == From(s, i)
           v == From(u, j)
           k == i + j - 1
           w == From(s, k)
<1>1. Len(s) \in Nat /\ k \in 1..(Len(s) + 1)
    BY LenProperties
<1>2. u \in Seq(StreamCells) /\ Len(u) = Len(s) - i + 1 /\ \A m \in 1..(Len(s) - i + 1) : u[m] = s[i + m - 1]
    BY FromIs
<1> HIDE DEF u
<1>3. j \in 1..(Len(u) + 1)
    BY <1>1, <1>2
<1>4. v \in Seq(StreamCells) /\ Len(v) = Len(u) - j + 1 /\ \A m \in 1..(Len(u) - j + 1) : v[m] = u[j + m - 1]
    BY <1>2, <1>3, FromIs
<1> HIDE DEF v
<1>5. w \in Seq(StreamCells) /\ Len(w) = Len(s) - k + 1 /\ \A m \in 1..(Len(s) - k + 1) : w[m] = s[k + m - 1]
    <2> HIDE DEF k
    <2> QED
        BY <1>1, FromIs
<1> HIDE DEF w
<1>6. Len(v) = Len(w)
    BY <1>1, <1>2, <1>4, <1>5
<1>7. ASSUME NEW m \in 1..Len(v) PROVE v[m] = w[m]
    <2>1. Len(v) = Len(s) - k + 1 /\ m \in 1..(Len(s) - k + 1) /\ m \in 1..(Len(u) - j + 1)
        BY <1>4, <1>5, <1>6, <1>7
    <2>2. w[m] = s[k + m - 1] /\ v[m] = u[j + m - 1]
        BY <1>4, <1>5, <2>1
    <2>3. j + m - 1 \in 1..(Len(s) - i + 1)
        BY <1>1, <2>1
    <2>4. u[j + m - 1] = s[i + (j + m - 1) - 1]
        BY <1>2, <2>3
    <2>5. i + (j + m - 1) - 1 = k + m - 1
        BY <1>1, <2>1
    <2> QED
        BY <2>2, <2>4, <2>5
<1>8. v = w
    BY <1>4, <1>5, <1>6, <1>7, SeqEqual
<1> QED
    BY <1>1, <1>8 DEF v, w, u

\* discard_until_magic() drops cells at which no magic starts.
LEMMA MagicFound ==
    ASSUME NEW s \in Seq(StreamCells)
    PROVE  \E m \in 1..(Len(s) + 1) :
              /\ FromMagic(s) = From(s, m) /\ (Len(s) - m + 1 < MagicCells \/ MagicAt(s, m))
              /\ \A i \in 1..(m - 1) : i + 1 <= Len(s) /\ ~MagicAt(s, i)
<1> DEFINE n == Len(s)
           starts == {i \in 1..(n + 1) : n - i + 1 < MagicCells \/ MagicAt(s, i)}
<1>1. n \in Nat
    BY LenProperties
<1>2. n + 1 \in starts
    BY <1>1 DEF MagicCells
<1>3. starts \subseteq Nat
    OBVIOUS
<1>4. FromMagic(s) = From(s, Min(starts))
    BY DEF FromMagic
<1>5. PICK m \in starts : \A k \in starts : m <= k
    <2> HIDE DEF starts
    <2> QED
        BY <1>2, <1>3, LeastNumber
<1>6. Min(starts) \in starts /\ \A k \in starts : Min(starts) <= k
    <2> HIDE DEF starts
    <2> QED
        BY <1>5 DEF Min
<1> DEFINE p == Min(starts)
<1>7. p \in 1..(n + 1) /\ (n - p + 1 < MagicCells \/ MagicAt(s, p)) /\ FromMagic(s) = From(s, p)
    BY <1>4, <1>6
<1>8. \A k \in starts : p <= k
    BY <1>6
<1> HIDE DEF p
<1>9. ASSUME NEW i \in 1..(p - 1) PROVE i + 1 <= n /\ ~MagicAt(s, i)
    <2>1. i \in 1..(n + 1) /\ ~(p <= i)
        BY <1>1, <1>7
    <2>2. i \notin starts
        BY <1>8, <2>1
    <2>3. ~(n - i + 1 < MagicCells) /\ ~MagicAt(s, i)
        BY <2>1, <2>2
    <2> QED
        BY <1>1, <2>1, <2>3 DEF MagicCells
<1> QED
    BY <1>7, <1>9

-----------------------------------------------------------------------------
(* What a parser delivers that is given the whole stream.                  *)

NextFrame(s, i) == i + FrameLength(From(s, i))

\* The frames from position i on, if g are those from every later position.
CutAt(g, s, i) ==
    IF i + 2 > Len(s) THEN << >>
    ELSE IF ~MagicAt(s, i) \/ TooLong(From(s, i)) THEN g[i + 1]
    ELSE IF NextFrame(s, i) - 1 > Len(s) THEN << >>
    ELSE Delivered(SubSeq(s, i, NextFrame(s, i) - 1)) \o g[NextFrame(s, i)]

IsCut(g, s) == g = [i \in 1..(Len(s) + 1) |-> CutAt(g, s, i)]

Cut(s) == CHOOSE g : IsCut(g, s)

\* The reference is the cut from the first position on.
LEMMA ReferenceIsCut == ASSUME NEW s PROVE Reference(s) = Cut(s)[1]
BY DEF Reference, Cut, IsCut, CutAt, NextFrame

\* A frame is at least as long as what is around its body.
LEMMA FrameLengthIs ==
    ASSUME NEW s
    PROVE  FrameLength(s) \in Nat /\ FrameLength(s) >= FrameOverhead
<1>1. FieldOf(s[3]) \in Nat
    BY ParserAssumption DEF FieldOf
<1> QED
    BY <1>1 DEF FrameLength, FrameOverhead

\* Only valid frames are delivered.
LEMMA DeliveredIs == ASSUME NEW f PROVE Delivered(f) \in Seq(ValidFrames)
<1>1. CASE f \in ValidFrames
    <2>1. <<f>> \in Seq(ValidFrames)
        BY <1>1
    <2> QED
        BY <1>1, <2>1 DEF Delivered
<1>2. CASE f \notin ValidFrames
    <2>1. << >> \in Seq(ValidFrames)
        BY EmptySeq
    <2> QED
        BY <1>2, <2>1 DEF Delivered
<1> QED
    BY <1>1, <1>2

\* Only later positions matter, and the frames are valid ones.
LEMMA CutAhead ==
    ASSUME NEW s \in Seq(StreamCells), NEW i \in 1..(Len(s) + 1), NEW g, NEW h,
           \A j \in (i + 1)..(Len(s) + 1) : g[j] = h[j]
    PROVE  CutAt(g, s, i) = CutAt(h, s, i)
<1>1. Len(s) \in Nat
    BY LenProperties
<1>2. NextFrame(s, i) \in Nat /\ NextFrame(s, i) >= i + 4
    BY <1>1, FrameLengthIs DEF NextFrame, FrameOverhead
<1>3. CASE i + 2 > Len(s)
    BY <1>3 DEF CutAt
<1>4. CASE ~(i + 2 > Len(s)) /\ (~MagicAt(s, i) \/ TooLong(From(s, i)))
    <2>1. i + 1 \in (i + 1)..(Len(s) + 1)
        BY <1>1, <1>4
    <2> QED
        BY <1>4, <2>1 DEF CutAt
<1>5. CASE ~(i + 2 > Len(s)) /\ ~(~MagicAt(s, i) \/ TooLong(From(s, i)))
    <2>1. ~(NextFrame(s, i) - 1 > Len(s)) => NextFrame(s, i) \in (i + 1)..(Len(s) + 1)
        BY <1>1, <1>2
    <2> QED
        BY <1>5, <2>1 DEF CutAt
<1> QED
    BY <1>3, <1>4, <1>5

\* What is cut is valid frames, if it is from every later position.
LEMMA CutTyped ==
    ASSUME NEW s \in Seq(StreamCells), NEW i \in 1..(Len(s) + 1), NEW g,
           \A j \in (i + 1)..(Len(s) + 1) : g[j] \in Seq(ValidFrames)
    PROVE  CutAt(g, s, i) \in Seq(ValidFrames)
<1>1. Len(s) \in Nat
    BY LenProperties
<1>2. NextFrame(s, i) \in Nat /\ NextFrame(s, i) >= i + 4
    BY <1>1, FrameLengthIs DEF NextFrame, FrameOverhead
<1>0. << >> \in Seq(ValidFrames)
    BY EmptySeq
<1>3. CASE i + 2 > Len(s)
    BY <1>0, <1>3 DEF CutAt
<1>4. CASE ~(i + 2 > Len(s)) /\ (~MagicAt(s, i) \/ TooLong(From(s, i)))
    <2>1. i + 1 \in (i + 1)..(Len(s) + 1)
        BY <1>1, <1>4
    <2> QED
        BY <1>4, <2>1 DEF CutAt
<1>5. CASE ~(i + 2 > Len(s)) /\ ~(~MagicAt(s, i) \/ TooLong(From(s, i)))
    <2>1. CASE NextFrame(s, i) - 1 > Len(s)
        BY <1>0, <1>5, <2>1 DEF CutAt
    <2>2. CASE ~(NextFrame(s, i) - 1 > Len(s))
        <3> DEFINE d == Delivered(SubSeq(s, i, NextFrame(s, i) - 1))
                   r == g[NextFrame(s, i)]
        <3>1. NextFrame(s, i) \in (i + 1)..(Len(s) + 1)
            BY <1>1, <1>2, <2>2
        <3>2. d \in Seq(ValidFrames) /\ r \in Seq(ValidFrames)
            BY <3>1, DeliveredIs
        <3>3. CutAt(g, s, i) = d \o r
            BY <1>5, <2>2 DEF CutAt
        <3> HIDE DEF d, r
        <3> QED
            BY <3>2, <3>3, ConcatProperties
    <2> QED
        BY <2>1, <2>2
<1> QED
    BY <1>3, <1>4, <1>5

\* The function exists: the frames can be found from the end of the stream.
LEMMA CutExists ==
    ASSUME NEW s \in Seq(StreamCells)
    PROVE  \E g : IsCut(g, s)
<1> DEFINE n == Len(s)
           I == 1..(n + 1)
           Good(g, k) == \A i \in I : i > n + 1 - k => g[i] = CutAt(g, s, i)
           Bad == {k \in Nat : k <= n + 1 /\ ~ \E g : g = [i \in I |-> g[i]] /\ Good(g, k)}
<1>1. n \in Nat
    BY LenProperties
<1>2. Bad = {}
    <2> SUFFICES ASSUME Bad # {} PROVE FALSE
        OBVIOUS
    <2>1. PICK k \in Bad : \A m \in Bad : k <= m
        <3>1. Bad \subseteq Nat
            OBVIOUS
        <3> HIDE DEF Bad
        <3> QED
            BY <3>1, LeastNumber
    <2>2. k \in Nat /\ k <= n + 1 /\ ~ \E g : g = [i \in I |-> g[i]] /\ Good(g, k)
        OBVIOUS
    <2>3. k # 0
        <3> SUFFICES ASSUME k = 0 PROVE FALSE
            OBVIOUS
        <3> DEFINE g == [i \in I |-> << >>]
        <3>1. g = [i \in I |-> g[i]]
            OBVIOUS
        <3>2. Good(g, k)
            BY <1>1
        <3> HIDE DEF g, Good
        <3> QED
            BY <2>2, <3>1, <3>2
    <2> DEFINE m == k - 1
               p == n + 1 - m
    <2>4. m \in Nat /\ m <= n + 1 /\ m < k /\ p \in I
        BY <1>1, <2>2, <2>3
    <2>5. m \notin Bad
        <3> HIDE DEF Bad
        <3> QED
            BY <2>1, <2>2, <2>4
    <2>6. PICK g : g = [i \in I |-> g[i]] /\ Good(g, m)
        <3> HIDE DEF Good, I
        <3> QED
            BY <2>4, <2>5
    <2> DEFINE h == [i \in I |-> IF i = p THEN CutAt(g, s, p) ELSE g[i]]
    <2>7. h = [i \in I |-> h[i]]
        OBVIOUS
    <2>8. Good(h, k)
        <3> SUFFICES ASSUME NEW i \in I, i > n + 1 - k PROVE h[i] = CutAt(h, s, i)
            OBVIOUS
        <3>1. i >= p
            BY <1>1, <2>2
        <3>2. \A j \in (i + 1)..(n + 1) : g[j] = h[j]
            BY <1>1, <2>4, <3>1
        <3>3. CutAt(g, s, i) = CutAt(h, s, i)
            <4> HIDE DEF h, Good
            <4> QED
                BY <3>2, CutAhead
        <3>4. h[i] = CutAt(g, s, i)
            <4>1. CASE i = p
                BY <4>1
            <4>2. CASE i # p
                <5>1. i > n + 1 - m
                    BY <1>1, <2>4, <3>1, <4>2
                <5>2. g[i] = CutAt(g, s, i)
                    BY <2>6, <5>1
                <5> QED
                    BY <4>2, <5>2
            <4> QED
                BY <4>1, <4>2
        <3> QED
            BY <3>3, <3>4
    <2> HIDE DEF h, Good, I
    <2> QED
        BY <2>2, <2>7, <2>8
<1>3. PICK g : g = [i \in I |-> g[i]] /\ Good(g, n + 1)
    <2> DEFINE k == n + 1
    <2>1. k \in Nat /\ k <= k
        BY <1>1
    <2>3. Bad = {j \in Nat : j <= k /\ ~ \E g : g = [i \in I |-> g[i]] /\ Good(g, j)}
        OBVIOUS
    <2> HIDE DEF k, Good, I, Bad
    <2>2. k \notin Bad
        BY <1>2
    <2>4. \E g : g = [i \in I |-> g[i]] /\ Good(g, k)
        BY <2>1, <2>2, <2>3
    <2> QED
        BY <2>4 DEF k
<1>4. \A i \in I : g[i] = CutAt(g, s, i)
    BY <1>1, <1>3
<1>5. IsCut(g, s)
    BY <1>3, <1>4 DEF IsCut
<1> QED
    BY <1>5

\* The frames from a position on.
LEMMA CutIs ==
    ASSUME NEW s \in Seq(StreamCells)
    PROVE  \A i \in 1..(Len(s) + 1) : Cut(s)[i] = CutAt(Cut(s), s, i) /\ Cut(s)[i] \in Seq(ValidFrames)
<1> DEFINE g == Cut(s)
           n == Len(s)
           Bad == {i \in 1..(n + 1) : g[i] \notin Seq(ValidFrames)}
<1>0. n \in Nat
    BY LenProperties
<1>1. IsCut(g, s)
    BY CutExists DEF Cut
<1> HIDE DEF g
<1>2. \A i \in 1..(n + 1) : g[i] = CutAt(g, s, i)
    BY <1>1 DEF IsCut
<1>3. Bad = {}
    <2> SUFFICES ASSUME Bad # {} PROVE FALSE
        OBVIOUS
    <2>1. PICK i \in Bad : \A k \in Bad : k <= i
        <3>1. n + 1 \in Nat /\ Bad \subseteq 1..(n + 1)
            BY <1>0
        <3> HIDE DEF Bad
        <3> QED
            BY <3>1, GreatestNumber
    <2>2. i \in 1..(n + 1) /\ g[i] \notin Seq(ValidFrames)
        OBVIOUS
    <2>3. \A j \in (i + 1)..(n + 1) : g[j] \in Seq(ValidFrames)
        BY <1>0, <2>1, <2>2
    <2>4. CutAt(g, s, i) \in Seq(ValidFrames)
        BY <2>2, <2>3, CutTyped
    <2> QED
        BY <1>2, <2>2, <2>4
<1> QED
    BY <1>2, <1>3 DEF g

-----------------------------------------------------------------------------
(* How far a parser is.                                                    *)

\* A cell at which no magic starts adds nothing.
LEMMA CutNoMagic ==
    ASSUME NEW s \in Seq(StreamCells), NEW i \in 1..Len(s), ~MagicAt(s, i)
    PROVE  Cut(s)[i] = Cut(s)[i + 1]
<1> DEFINE g == Cut(s)
<1>1. Len(s) \in Nat /\ i \in 1..(Len(s) + 1) /\ i + 1 \in 1..(Len(s) + 1)
    BY LenProperties
<1>2. g[i] = CutAt(g, s, i) /\ g[i + 1] = CutAt(g, s, i + 1)
    <2> HIDE DEF g
    <2>1. \A k \in 1..(Len(s) + 1) : g[k] = CutAt(g, s, k)
        BY CutIs DEF g
    <2> QED
        BY <1>1, <2>1
<1> HIDE DEF g
<1>3. CASE i + 2 > Len(s)
    <2>1. (i + 1) + 2 > Len(s)
        BY <1>1, <1>3
    <2> QED
        BY <1>2, <1>3, <2>1 DEF CutAt, g
<1>4. CASE ~(i + 2 > Len(s))
    BY <1>2, <1>4 DEF CutAt, g
<1> QED
    BY <1>3, <1>4

\* What is the same at every two neighbours is the same at both ends.
LEMMA SameThroughout ==
    ASSUME NEW g, NEW n \in Nat, NEW p \in 1..n, NEW q \in 1..n, p <= q,
           \A i \in p..(q - 1) : g[i] = g[i + 1]
    PROVE  g[p] = g[q]
<1> DEFINE Bad == {i \in p..q : g[i] # g[q]}
<1>1. Bad = {}
    <2> SUFFICES ASSUME Bad # {} PROVE FALSE
        OBVIOUS
    <2>1. PICK i \in Bad : \A k \in Bad : k <= i
        <3>1. Bad \subseteq 1..n
            OBVIOUS
        <3> HIDE DEF Bad
        <3> QED
            BY <3>1, GreatestNumber
    <2>2. i \in p..(q - 1) /\ i + 1 \in p..q /\ ~(i + 1 <= i)
        OBVIOUS
    <2>3. i + 1 \notin Bad
        BY <2>1, <2>2
    <2>4. g[i + 1] = g[q]
        BY <2>2, <2>3
    <2> QED
        BY <2>2, <2>4
<1> QED
    BY <1>1

\* What stands at a position of what is left.
LEMMA MagicInRest ==
    ASSUME NEW s \in Seq(StreamCells), NEW i \in 1..(Len(s) + 1), NEW k \in 1..(Len(s) - i + 1)
    PROVE  MagicAt(From(s, i), k) <=> MagicAt(s, i + k - 1)
<1> DEFINE u == From(s, i)
<1>1. Len(s) \in Nat
    BY LenProperties
<1>2. u \in Seq(StreamCells) /\ Len(u) = Len(s) - i + 1 /\ \A m \in 1..(Len(s) - i + 1) : u[m] = s[i + m - 1]
    BY FromIs
<1> HIDE DEF u
<1>3. CASE k + 1 <= Len(s) - i + 1
    <2>1. k + 1 \in 1..(Len(s) - i + 1) /\ i + (k + 1) - 1 = (i + k - 1) + 1
        BY <1>1, <1>3
    <2>2. u[k] = s[i + k - 1]
        BY <1>2
    <2>3. u[k + 1] = s[i + (k + 1) - 1]
        BY <1>2, <2>1
    <2>4. u[k + 1] = s[(i + k - 1) + 1]
        BY <2>1, <2>3
    <2>5. k + 1 <= Len(u) <=> (i + k - 1) + 1 <= Len(s)
        BY <1>1, <1>2
    <2> QED
        BY <2>2, <2>4, <2>5 DEF MagicAt, u
<1>4. CASE ~(k + 1 <= Len(s) - i + 1)
    <2>1. ~(k + 1 <= Len(u)) /\ ~((i + k - 1) + 1 <= Len(s))
        BY <1>1, <1>2, <1>4
    <2> QED
        BY <2>1 DEF MagicAt, u
<1> QED
    BY <1>3, <1>4

\* The length announced at a position.
LEMMA LengthInRest ==
    ASSUME NEW s \in Seq(StreamCells), NEW i \in 1..(Len(s) + 1), i + 2 <= Len(s)
    PROVE  FrameLength(From(s, i)) = FieldOf(s[i + 2]) + FrameOverhead
<1> DEFINE u == From(s, i)
<1>1. Len(s) \in Nat /\ 3 \in 1..(Len(s) - i + 1) /\ i + 3 - 1 = i + 2
    BY LenProperties
<1>2. \A m \in 1..(Len(s) - i + 1) : u[m] = s[i + m - 1]
    BY FromIs
<1> HIDE DEF u
<1>3. u[3] = s[i + 3 - 1]
    BY <1>1, <1>2
<1>4. u[3] = s[i + 2]
    BY <1>1, <1>3
<1> QED
    BY <1>4 DEF FrameLength, u

\* More behind a stream does not change what stands in it.
LEMMA InContinued ==
    ASSUME NEW s \in Seq(StreamCells), NEW t \in Seq(StreamCells), Continues(t, s), NEW i \in 1..(Len(s) + 1)
    PROVE  /\ i \in 1..(Len(t) + 1) /\ Len(s) \in Nat /\ Len(t) \in Nat /\ Len(s) <= Len(t)
           /\ i + 1 <= Len(s) => (MagicAt(s, i) <=> MagicAt(t, i))
           /\ i + 2 <= Len(s) => FrameLength(From(s, i)) = FrameLength(From(t, i))
<1>1. Len(s) \in Nat /\ Len(t) \in Nat /\ Len(s) <= Len(t) /\ i \in 1..(Len(t) + 1)
    BY LenProperties DEF Continues
<1>2. ASSUME i + 1 <= Len(s) PROVE MagicAt(s, i) <=> MagicAt(t, i)
    <2>1. i \in 1..Len(s) /\ i + 1 \in 1..Len(s) /\ i + 1 <= Len(t)
        BY <1>1, <1>2
    <2>2. t[i] = s[i] /\ t[i + 1] = s[i + 1]
        BY <2>1 DEF Continues
    <2> QED
        BY <1>2, <2>1, <2>2 DEF MagicAt
<1>3. ASSUME i + 2 <= Len(s) PROVE FrameLength(From(s, i)) = FrameLength(From(t, i))
    <2>1. i + 2 \in 1..Len(s) /\ i + 2 <= Len(t)
        BY <1>1, <1>3
    <2>2. t[i + 2] = s[i + 2]
        BY <2>1 DEF Continues
    <2>3. FrameLength(From(s, i)) = FieldOf(s[i + 2]) + FrameOverhead
        BY <1>3, LengthInRest
    <2>4. FrameLength(From(t, i)) = FieldOf(t[i + 2]) + FrameOverhead
        BY <1>1, <2>1, LengthInRest
    <2> QED
        BY <2>2, <2>3, <2>4
<1> QED
    BY <1>1, <1>2, <1>3

\* The parser with b buffered, s pushed and d delivered is at position p of the
\* stream: whatever follows, what it still has to deliver is what is cut from there.
Ahead(b, s, d, p) ==
    /\ p \in 1..(Len(s) + 1) /\ b = From(s, p)
    /\ \A t \in Seq(StreamCells) : Continues(t, s) => Cut(t)[1] = d \o Cut(t)[p]

\* discard_until_magic() moves the parser to a position where a magic starts or too little is left.
LEMMA AheadMagic ==
    ASSUME NEW s \in Seq(StreamCells), NEW d \in Seq(ValidFrames), NEW b, NEW p, Ahead(b, s, d, p)
    PROVE  \E q : Ahead(FromMagic(b), s, d, q) /\ (Len(s) - q + 1 < MagicCells \/ MagicAt(s, q)) /\ q >= p
<1> DEFINE n == Len(s)
<1>1. n \in Nat /\ p \in 1..(n + 1) /\ b = From(s, p)
    BY LenProperties DEF Ahead
<1>2. b \in Seq(StreamCells) /\ Len(b) = n - p + 1
    BY <1>1, FromIs
<1>3. PICK m \in 1..(Len(b) + 1) :
         /\ FromMagic(b) = From(b, m) /\ (Len(b) - m + 1 < MagicCells \/ MagicAt(b, m))
         /\ \A i \in 1..(m - 1) : i + 1 <= Len(b) /\ ~MagicAt(b, i)
    BY <1>2, MagicFound
<1> DEFINE q == p + m - 1
<1>4. m \in 1..(n - p + 2) /\ q \in 1..(n + 1) /\ q >= p
    BY <1>1, <1>2
<1>5. FromMagic(b) = From(s, q)
    <2>1. From(From(s, p), m) = From(s, p + m - 1)
        BY <1>1, <1>4, FromFrom
    <2> QED
        BY <1>1, <1>3, <2>1
<1>6. n - q + 1 < MagicCells \/ MagicAt(s, q)
    <2>1. CASE Len(b) - m + 1 < MagicCells
        BY <1>1, <1>2, <2>1 DEF MagicCells
    <2>2. CASE ~(Len(b) - m + 1 < MagicCells)
        <3>1. MagicAt(From(s, p), m) /\ m \in 1..(n - p + 1)
            BY <1>1, <1>2, <1>3, <2>2 DEF MagicCells
        <3>2. MagicAt(s, p + m - 1)
            BY <1>1, <3>1, MagicInRest
        <3> QED
            BY <3>2
    <2> QED
        BY <2>1, <2>2
<1>7. ASSUME NEW i \in p..(q - 1) PROVE i \in 1..(n + 1) /\ i + 1 <= n /\ ~MagicAt(s, i)
    <2> DEFINE k == i - p + 1
    <2>1. k \in 1..(m - 1) /\ k \in 1..(n - p + 1) /\ p + k - 1 = i
        BY <1>1, <1>4
    <2>2. k + 1 <= Len(b) /\ ~MagicAt(b, k)
        <3> HIDE DEF k
        <3> QED
            BY <1>3, <2>1
    <2>3. MagicAt(From(s, p), k) <=> MagicAt(s, p + k - 1)
        <3> HIDE DEF k
        <3> QED
            BY <1>1, <2>1, MagicInRest
    <2>4. ~MagicAt(s, i)
        BY <1>1, <2>1, <2>2, <2>3
    <2> QED
        BY <1>1, <1>2, <2>2, <2>4
<1> HIDE DEF q
<1>8. ASSUME NEW t \in Seq(StreamCells), Continues(t, s) PROVE Cut(t)[1] = d \o Cut(t)[q]
    <2>1. Len(t) \in Nat /\ n <= Len(t)
        BY <1>8, LenProperties DEF Continues
    <2>2. ASSUME NEW i \in p..(q - 1) PROVE Cut(t)[i] = Cut(t)[i + 1]
        <3>1. i \in 1..(n + 1) /\ i + 1 <= n /\ ~MagicAt(s, i)
            BY <1>7
        <3>2. ~MagicAt(t, i)
            BY <1>8, <3>1, InContinued
        <3>3. i \in 1..Len(t)
            BY <1>1, <2>1, <3>1
        <3> QED
            BY <3>2, <3>3, CutNoMagic
    <2>3. p \in 1..(Len(t) + 1) /\ q \in 1..(Len(t) + 1) /\ p <= q /\ Len(t) + 1 \in Nat
        BY <1>1, <1>4, <2>1
    <2>4. Cut(t)[p] = Cut(t)[q]
        BY <2>2, <2>3, SameThroughout
    <2> QED
        BY <1>8, <2>4 DEF Ahead
<1>9. Ahead(FromMagic(b), s, d, q)
    BY <1>4, <1>5, <1>8 DEF Ahead
<1> QED
    BY <1>4, <1>6, <1>9

\* What is cut at a position at which three cells have arrived.
LEMMA CutThere ==
    ASSUME NEW s \in Seq(StreamCells), NEW t \in Seq(StreamCells), Continues(t, s),
           NEW i \in 1..(Len(s) + 1), i + 2 <= Len(s)
    PROVE  LET n == FrameLength(From(s, i))
           IN  /\ n \in Nat /\ n >= FrameOverhead
               /\ n > MaxPacket => Cut(t)[i] = Cut(t)[i + 1]
               /\ (~(n > MaxPacket) /\ MagicAt(s, i) /\ i + n - 1 <= Len(s))
                     => Cut(t)[i] = Delivered(SubSeq(t, i, i + n - 1)) \o Cut(t)[i + n]
               /\ (~(n > MaxPacket) /\ MagicAt(s, i) /\ t = s /\ i + n - 1 > Len(s)) => Cut(t)[i] = << >>
<1> DEFINE n == FrameLength(From(s, i))
           g == Cut(t)
<1>1. n \in Nat /\ n >= FrameOverhead
    BY FrameLengthIs
<1>2. /\ i \in 1..(Len(t) + 1) /\ Len(s) \in Nat /\ Len(t) \in Nat /\ Len(s) <= Len(t)
      /\ i + 1 <= Len(s) => (MagicAt(s, i) <=> MagicAt(t, i))
      /\ n = FrameLength(From(t, i))
    BY InContinued
<1>3. g[i] = CutAt(g, t, i)
    <2> HIDE DEF g
    <2>1. \A k \in 1..(Len(t) + 1) : g[k] = CutAt(g, t, k)
        BY CutIs DEF g
    <2> QED
        BY <1>2, <2>1
<1> HIDE DEF g
<1>4. ~(i + 2 > Len(t)) /\ i + 1 <= Len(s)
    BY <1>2
<1>5. TooLong(From(t, i)) <=> n > MaxPacket
    BY <1>2 DEF TooLong
<1>6. NextFrame(t, i) = i + n
    BY <1>2 DEF NextFrame
<1> HIDE DEF n
<1>7. ASSUME n > MaxPacket PROVE g[i] = g[i + 1]
    BY <1>3, <1>4, <1>5, <1>7 DEF CutAt
<1>8. ASSUME ~(n > MaxPacket), MagicAt(s, i), i + n - 1 <= Len(s)
      PROVE  g[i] = Delivered(SubSeq(t, i, i + n - 1)) \o g[i + n]
    <2>1. ~(i + n - 1 > Len(t))
        BY <1>1, <1>2, <1>8
    <2>2. MagicAt(t, i) /\ ~TooLong(From(t, i)) /\ ~(NextFrame(t, i) - 1 > Len(t))
        BY <1>1, <1>2, <1>4, <1>5, <1>6, <1>8, <2>1
    <2>3. g[i] = Delivered(SubSeq(t, i, NextFrame(t, i) - 1)) \o g[NextFrame(t, i)]
        BY <1>3, <1>4, <2>2, Zenon DEF CutAt
    <2> QED
        <3> DEFINE k == NextFrame(t, i)
        <3>1. k - 1 = i + n - 1 /\ k = i + n
            BY <1>1, <1>2, <1>6
        <3> HIDE DEF k
        <3>2. g[i] = Delivered(SubSeq(t, i, k - 1)) \o g[k]
            BY <2>3 DEF k
        <3> QED
            BY <3>1, <3>2
<1>9. ASSUME ~(n > MaxPacket), MagicAt(s, i), t = s, i + n - 1 > Len(s) PROVE g[i] = << >>
    <2>1. MagicAt(t, i) /\ ~TooLong(From(t, i)) /\ NextFrame(t, i) - 1 > Len(t)
        BY <1>1, <1>2, <1>4, <1>5, <1>6, <1>9
    <2> QED
        BY <1>3, <1>4, <2>1, Zenon DEF CutAt
<1> QED
    BY <1>1, <1>7, <1>8, <1>9 DEF n, g

\* Dropping the first cell of a frame that is too long moves the parser by one.
LEMMA AheadTooLong ==
    ASSUME NEW s \in Seq(StreamCells), NEW d \in Seq(ValidFrames), NEW b, NEW q, Ahead(b, s, d, q),
           Extractable(b), TooLong(b)
    PROVE  Ahead(From(b, 2), s, d, q + 1)
<1>1. Len(s) \in Nat /\ q \in 1..(Len(s) + 1) /\ b = From(s, q)
    BY LenProperties DEF Ahead
<1>2. Len(b) = Len(s) - q + 1
    BY <1>1, FromIs
<1>3. q + 2 <= Len(s)
    BY <1>1, <1>2 DEF Extractable, HeaderCells
<1>4. q + 1 \in 1..(Len(s) + 1) /\ From(b, 2) = From(s, q + 1)
    <2>1. 2 \in 1..(Len(s) - q + 2) /\ q + 2 - 1 = q + 1
        BY <1>1, <1>3
    <2>2. From(From(s, q), 2) = From(s, q + 2 - 1)
        BY <1>1, <2>1, FromFrom
    <2> QED
        BY <1>1, <1>3, <2>1, <2>2
<1>5. ASSUME NEW t \in Seq(StreamCells), Continues(t, s) PROVE Cut(t)[1] = d \o Cut(t)[q + 1]
    <2>1. FrameLength(From(s, q)) > MaxPacket
        BY <1>1 DEF TooLong
    <2>2. Cut(t)[q] = Cut(t)[q + 1]
        BY <1>1, <1>3, <1>5, <2>1, CutThere
    <2> QED
        BY <1>5, <2>2 DEF Ahead
<1> QED
    BY <1>4, <1>5 DEF Ahead

\* Three sequences can be joined in either order.
LEMMA ConcatThree ==
    ASSUME NEW S, NEW a \in Seq(S), NEW b \in Seq(S), NEW c \in Seq(S)
    PROVE  a \o (b \o c) = (a \o b) \o c
BY ConcatAssociative

\* Cutting out a frame moves the parser behind it.
LEMMA AheadFrame ==
    ASSUME NEW s \in Seq(StreamCells), NEW d \in Seq(ValidFrames), NEW b, NEW q, Ahead(b, s, d, q),
           Extractable(b), ~TooLong(b), Len(b) >= FrameLength(b), Len(s) - q + 1 < MagicCells \/ MagicAt(s, q)
    PROVE  /\ Ahead(From(b, FrameLength(b) + 1), s, d \o Delivered(SubSeq(b, 1, FrameLength(b))), q + FrameLength(b))
           /\ d \o Delivered(SubSeq(b, 1, FrameLength(b))) \in Seq(ValidFrames)
<1> DEFINE n == FrameLength(b)
           f == SubSeq(b, 1, n)
           e == Delivered(f)
<1>1. Len(s) \in Nat /\ q \in 1..(Len(s) + 1) /\ b = From(s, q)
    BY LenProperties DEF Ahead
<1>2. b \in Seq(StreamCells) /\ Len(b) = Len(s) - q + 1 /\ \A k \in 1..(Len(s) - q + 1) : b[k] = s[q + k - 1]
    BY <1>1, FromIs
<1>3. q + 2 <= Len(s) /\ MagicAt(s, q)
    BY <1>1, <1>2 DEF Extractable, HeaderCells, MagicCells
<1>4. n \in Nat /\ n >= FrameOverhead /\ ~(n > MaxPacket) /\ n = FrameLength(From(s, q))
    BY <1>1, FrameLengthIs DEF TooLong
<1>5. Len(b) >= n
    OBVIOUS
<1> HIDE DEF n
<1>6. q + n - 1 <= Len(s) /\ q + n \in 1..(Len(s) + 1) /\ q + n - 1 \in Int
    BY <1>1, <1>2, <1>4, <1>5
<1>7. From(b, n + 1) = From(s, q + n)
    <2>1. n + 1 \in 1..(Len(s) - q + 2) /\ q + (n + 1) - 1 = q + n
        BY <1>1, <1>4, <1>6
    <2>2. From(From(s, q), n + 1) = From(s, q + (n + 1) - 1)
        BY <1>1, <2>1, FromFrom
    <2> QED
        BY <1>1, <2>1, <2>2
<1>8. d \o e \in Seq(ValidFrames) /\ e \in Seq(ValidFrames)
    <2>1. e \in Seq(ValidFrames)
        BY DeliveredIs
    <2> HIDE DEF e
    <2> QED
        BY <2>1, ConcatProperties
<1>9. ASSUME NEW t \in Seq(StreamCells), Continues(t, s) PROVE Cut(t)[1] = (d \o e) \o Cut(t)[q + n]
    <2> DEFINE r == Cut(t)[q + n]
               h == SubSeq(t, q, q + n - 1)
    <2>0. Len(t) \in Nat /\ Len(s) <= Len(t) /\ \A i \in 1..Len(s) : t[i] = s[i]
        BY <1>9, LenProperties DEF Continues
    <2>1. r \in Seq(ValidFrames)
        <3>1. q + n \in 1..(Len(t) + 1)
            BY <1>6, <2>0
        <3> QED
            BY <3>1, CutIs
    <2>2. h = f
        <3>1. /\ h \in Seq(StreamCells) /\ Len(h) = (IF q <= q + n - 1 THEN (q + n - 1) - q + 1 ELSE 0)
              /\ \A k \in 1..((q + n - 1) - q + 1) : h[k] = t[q + k - 1]
            <4>1. q \in Int /\ q >= 1 /\ q + n - 1 <= Len(t)
                BY <1>1, <1>6, <2>0
            <4> QED
                BY <1>6, <4>1, PartOfStream
        <3>2. /\ f \in Seq(StreamCells) /\ Len(f) = (IF 1 <= n THEN n - 1 + 1 ELSE 0)
              /\ \A k \in 1..(n - 1 + 1) : f[k] = b[1 + k - 1]
            <4>1. n \in Int /\ 1 \in Int /\ 1 >= 1 /\ n <= Len(b)
                BY <1>4, <1>5
            <4> QED
                BY <1>2, <4>1, PartOfStream
        <3> HIDE DEF h, f
        <3>3. Len(h) = n /\ Len(f) = n
            BY <1>1, <1>4, <3>1, <3>2 DEF FrameOverhead
        <3>4. ASSUME NEW k \in 1..n PROVE h[k] = f[k]
            <4>1. k \in 1..((q + n - 1) - q + 1) /\ k \in 1..(n - 1 + 1) /\ k \in 1..(Len(s) - q + 1)
                BY <1>1, <1>4, <1>6
            <4>2. h[k] = t[q + k - 1]
                BY <3>1, <4>1
            <4>3. f[k] = b[1 + k - 1] /\ 1 + k - 1 = k
                BY <3>2, <4>1
            <4>4. b[k] = s[q + k - 1]
                BY <1>2, <4>1
            <4>5. q + k - 1 \in 1..Len(s)
                BY <1>1, <4>1
            <4>6. t[q + k - 1] = s[q + k - 1]
                BY <2>0, <4>5
            <4> QED
                BY <4>2, <4>3, <4>4, <4>6
        <3> QED
            BY <3>1, <3>2, <3>3, <3>4, SeqEqual
    <2>3. Cut(t)[q] = Delivered(h) \o r
        BY <1>1, <1>3, <1>4, <1>6, <1>9, CutThere
    <2>4. Cut(t)[1] = d \o Cut(t)[q]
        BY <1>9 DEF Ahead
    <2>5. Cut(t)[1] = d \o (e \o r)
        BY <2>2, <2>3, <2>4
    <2> HIDE DEF e, r
    <2>6. d \o (e \o r) = (d \o e) \o r
        BY <1>8, <2>1, ConcatThree
    <2> QED
        BY <2>5, <2>6 DEF r
<1>10. Ahead(From(b, n + 1), s, d \o e, q + n)
    <2> HIDE DEF e
    <2> QED
        BY <1>6, <1>7, <1>9 DEF Ahead
<1> QED
    BY <1>8, <1>10 DEF n, f, e

\* When nothing more can be cut, everything the stream holds was delivered.
LEMMA AheadWait ==
    ASSUME NEW s \in Seq(StreamCells), NEW d \in Seq(ValidFrames), NEW b, NEW q, Ahead(b, s, d, q),
           ~(Extractable(b) /\ (TooLong(b) \/ Len(b) >= FrameLength(b))),
           Len(s) - q + 1 < MagicCells \/ MagicAt(s, q)
    PROVE  d = Reference(s) /\ Len(b) < Max({MaxPacket, HeaderCells})
<1>1. Len(s) \in Nat /\ q \in 1..(Len(s) + 1) /\ b = From(s, q)
    BY LenProperties DEF Ahead
<1>2. Len(b) = Len(s) - q + 1
    BY <1>1, FromIs
<1>3. Continues(s, s)
    BY <1>1 DEF Continues
<1>4. Cut(s)[q] = << >>
    <2>1. CASE q + 2 > Len(s)
        <3> DEFINE g == Cut(s)
        <3>1. g[q] = CutAt(g, s, q)
            <4> HIDE DEF g
            <4>1. \A k \in 1..(Len(s) + 1) : g[k] = CutAt(g, s, k)
                BY CutIs DEF g
            <4> QED
                BY <1>1, <4>1
        <3> HIDE DEF g
        <3> QED
            BY <2>1, <3>1 DEF CutAt, g
    <2>2. CASE ~(q + 2 > Len(s))
        <3> DEFINE n == FrameLength(From(s, q))
        <3>1. Extractable(b) /\ MagicAt(s, q) /\ n \in Nat
            BY <1>1, <1>2, <2>2, FrameLengthIs DEF Extractable, HeaderCells, MagicCells
        <3>2. ~(n > MaxPacket) /\ ~(Len(b) >= n)
            BY <1>1, <3>1 DEF TooLong
        <3>3. q + n - 1 > Len(s) /\ q + 2 <= Len(s)
            <4> HIDE DEF n
            <4> QED
                BY <1>1, <1>2, <2>2, <3>1, <3>2
        <3> QED
            BY <1>1, <1>3, <3>1, <3>2, <3>3, CutThere
    <2> QED
        BY <2>1, <2>2
<1>5. d = Reference(s)
    <2>1. Cut(s)[1] = d \o << >>
        BY <1>3, <1>4 DEF Ahead
    <2>2. d \o << >> = d
        BY ConcatEmptySeq
    <2> QED
        BY <2>1, <2>2, ReferenceIsCut
<1> DEFINE m == Max({MaxPacket, HeaderCells})
<1>6. m \in Nat /\ m >= MaxPacket /\ m >= HeaderCells
    <2>1. MaxPacket \in Nat
        BY ParserAssumption
    <2>2. CASE MaxPacket >= HeaderCells
        <3>1. MaxPacket \in {MaxPacket, HeaderCells} /\ \A y \in {MaxPacket, HeaderCells} : MaxPacket >= y
            BY <2>1, <2>2
        <3>2. m \in {MaxPacket, HeaderCells} /\ \A y \in {MaxPacket, HeaderCells} : m >= y
            BY <3>1 DEF Max
        <3> HIDE DEF m
        <3> QED
            BY <2>1, <3>2 DEF HeaderCells
    <2>3. CASE ~(MaxPacket >= HeaderCells)
        <3>1. HeaderCells \in {MaxPacket, HeaderCells} /\ \A y \in {MaxPacket, HeaderCells} : HeaderCells >= y
            BY <2>1, <2>3 DEF HeaderCells
        <3>2. m \in {MaxPacket, HeaderCells} /\ \A y \in {MaxPacket, HeaderCells} : m >= y
            BY <3>1 DEF Max
        <3> HIDE DEF m
        <3> QED
            BY <2>1, <3>2 DEF HeaderCells
    <2> QED
        BY <2>2, <2>3
<1> HIDE DEF m
<1>7. Len(b) < m
    <2>1. CASE Extractable(b)
        <3>1. FrameLength(b) \in Nat /\ ~(FrameLength(b) > MaxPacket) /\ ~(Len(b) >= FrameLength(b)) /\ MaxPacket \in Nat
            BY <2>1, FrameLengthIs, ParserAssumption DEF TooLong
        <3> QED
            BY <1>1, <1>2, <1>6, <3>1
    <2>2. CASE ~Extractable(b)
        BY <1>1, <1>2, <1>6, <2>2 DEF Extractable, HeaderCells
    <2> QED
        BY <2>1, <2>2
<1> QED
    BY <1>5, <1>7 DEF m

\* A chunk is put behind what is buffered and behind the stream alike.
LEMMA AheadPush ==
    ASSUME NEW s \in Seq(StreamCells), NEW d, NEW b, NEW p, Ahead(b, s, d, p), NEW c \in Seq(StreamCells)
    PROVE  s \o c \in Seq(StreamCells) /\ Ahead(b \o c, s \o c, d, p)
<1> DEFINE u == s \o c
           n == Len(s)
           x == From(u, p)
           y == b \o c
<1>1. n \in Nat /\ Len(c) \in Nat /\ p \in 1..(n + 1) /\ b = From(s, p)
    BY LenProperties DEF Ahead
<1>2. u \in Seq(StreamCells) /\ Len(u) = n + Len(c) /\ \A i \in 1..(n + Len(c)) : u[i] = IF i <= n THEN s[i] ELSE c[i - n]
    BY ConcatProperties
<1>3. b \in Seq(StreamCells) /\ Len(b) = n - p + 1 /\ \A k \in 1..(n - p + 1) : b[k] = s[p + k - 1]
    BY <1>1, FromIs
<1>4. y \in Seq(StreamCells) /\ Len(y) = Len(b) + Len(c) /\ \A i \in 1..(Len(b) + Len(c)) : y[i] = IF i <= Len(b) THEN b[i] ELSE c[i - Len(b)]
    BY <1>3, ConcatProperties
<1> HIDE DEF u, y
<1>5. p \in 1..(Len(u) + 1)
    BY <1>1, <1>2
<1>6. x \in Seq(StreamCells) /\ Len(x) = Len(u) - p + 1 /\ \A k \in 1..(Len(u) - p + 1) : x[k] = u[p + k - 1]
    BY <1>2, <1>5, FromIs
<1> HIDE DEF x
<1>7. Len(x) = Len(y)
    BY <1>1, <1>2, <1>3, <1>4, <1>6
<1>8. ASSUME NEW k \in 1..Len(x) PROVE x[k] = y[k]
    <2>1. k \in 1..(Len(u) - p + 1) /\ k \in 1..(Len(b) + Len(c)) /\ p + k - 1 \in 1..(n + Len(c))
        BY <1>1, <1>2, <1>3, <1>4, <1>6, <1>7
    <2>0. PICK m \in 1..(n + Len(c)) : m = p + k - 1
        BY <2>1
    <2>2. x[k] = u[m]
        BY <1>6, <2>0, <2>1
    <2>3. u[m] = IF m <= n THEN s[m] ELSE c[m - n]
        BY <1>2, <2>0, Zenon
    <2>4. y[k] = IF k <= Len(b) THEN b[k] ELSE c[k - Len(b)]
        BY <1>4, <2>1
    <2>5. CASE k <= n - p + 1
        <3>1. k \in 1..(n - p + 1) /\ m <= n /\ k <= Len(b)
            BY <1>1, <1>3, <2>0, <2>5
        <3>2. b[k] = s[m]
            BY <1>3, <2>0, <3>1
        <3> QED
            BY <2>2, <2>3, <2>4, <3>1, <3>2
    <2>6. CASE ~(k <= n - p + 1)
        <3>1. ~(m <= n) /\ ~(k <= Len(b)) /\ m - n = k - Len(b)
            BY <1>1, <1>3, <2>0, <2>6
        <3> QED
            BY <2>2, <2>3, <2>4, <3>1
    <2> QED
        BY <2>5, <2>6
<1>9. y = x
    BY <1>4, <1>6, <1>7, <1>8, SeqEqual
<1>10. ASSUME NEW t \in Seq(StreamCells), Continues(t, u) PROVE Cut(t)[1] = d \o Cut(t)[p]
    <2>1. Len(t) \in Nat /\ n + Len(c) <= Len(t) /\ \A i \in 1..(n + Len(c)) : t[i] = u[i]
        BY <1>2, <1>10, LenProperties DEF Continues
    <2>2. ASSUME NEW i \in 1..n PROVE t[i] = s[i]
        <3>1. i \in 1..(n + Len(c)) /\ i <= n
            BY <1>1
        <3> QED
            BY <1>2, <2>1, <3>1
    <2>3. Continues(t, s)
        BY <1>1, <2>1, <2>2 DEF Continues
    <2> QED
        BY <2>3 DEF Ahead
<1> QED
    BY <1>2, <1>5, <1>9, <1>10 DEF Ahead, u, x, y

\* In front of the stream, nothing has been delivered.
LEMMA AheadNothing ==
    /\ << >> \in Seq(StreamCells) /\ << >> \in Seq(ValidFrames) /\ Ahead(<< >>, << >>, << >>, 1)
    /\ Reference(<< >>) = << >> /\ 0 < Max({MaxPacket, HeaderCells})
<1> DEFINE e == << >>
<1>1. e \in Seq(StreamCells) /\ e \in Seq(ValidFrames) /\ Len(e) = 0
    BY EmptySeq
<1>2. 1 \in 1..(Len(e) + 1)
    BY <1>1
<1>3. From(e, 1) = e
    <2> DEFINE u == From(e, 1)
    <2> HIDE DEF e
    <2>1. u \in Seq(StreamCells) /\ Len(u) = Len(e) - 1 + 1
        BY <1>1, <1>2, FromIs
    <2> HIDE DEF u
    <2>2. Len(u) = 0 /\ \A k \in 1..Len(u) : u[k] = e[k]
        BY <1>1, <2>1
    <2>3. u = e
        BY <1>1, <2>1, <2>2, SeqEqual
    <2> QED
        BY <2>3 DEF u
<1>4. ASSUME NEW t \in Seq(StreamCells) PROVE Cut(t)[1] = e \o Cut(t)[1]
    <2>1. Len(t) \in Nat /\ 1 \in 1..(Len(t) + 1)
        BY LenProperties
    <2> DEFINE r == Cut(t)[1]
    <2>2. r \in Seq(ValidFrames)
        BY <2>1, CutIs
    <2> HIDE DEF r
    <2>3. e \o r = r
        BY <2>2, ConcatEmptySeq
    <2> QED
        BY <2>3 DEF r
<1>5. Ahead(e, e, e, 1)
    <2> HIDE DEF e
    <2> QED
        BY <1>2, <1>3, <1>4 DEF Ahead
<1>6. Reference(e) = e /\ Len(e) < Max({MaxPacket, HeaderCells})
    <2>1. 1 \in Int /\ Len(e) - 1 + 1 < MagicCells
        BY <1>1 DEF MagicCells
    <2>2. ~Extractable(e)
        BY <1>1 DEF Extractable, HeaderCells
    <2> HIDE DEF e
    <2> QED
        BY <1>1, <1>5, <2>1, <2>2, AheadWait
<1> QED
    BY <1>1, <1>5, <1>6

-----------------------------------------------------------------------------
(* The inductive invariant of the parser.                                  *)

ParserTypes ==
    phase \in {"idle", "loop", "handler", "error"} /\ stream \in Seq(StreamCells) /\ parsed \in Seq(ValidFrames)

InPlace == \E p : Ahead(buffer, stream, parsed, p)

UpToDate == phase = "idle" => parsed = Reference(stream) /\ Len(buffer) < Max({MaxPacket, HeaderCells})

PInv == ParserTypes /\ InPlace /\ UpToDate

\* A new parser is in place.
LEMMA PInvInit == InitParser => PInv
<1> SUFFICES ASSUME InitParser PROVE PInv
    OBVIOUS
<1> USE DEF InitParser
<1>1. ParserTypes
    BY AheadNothing DEF ParserTypes
<1>2. InPlace
    BY AheadNothing DEF InPlace
<1>3. UpToDate
    <2>1. Len(<< >>) = 0
        BY EmptySeq
    <2> QED
        BY <2>1, AheadNothing DEF UpToDate
<1> QED
    BY <1>1, <1>2, <1>3 DEF PInv

\* A pass of the loop.
LEMMA PInvExtract ==
    ASSUME PInv, TryExtractOne
    PROVE  PInv' /\ (phase' # "idle" => Len(buffer') < Len(buffer))
<1>1. stream \in Seq(StreamCells) /\ parsed \in Seq(ValidFrames) /\ stream' = stream /\ Len(stream) \in Nat
    BY LenProperties DEF PInv, ParserTypes, TryExtractOne
<1>2. PICK p : Ahead(buffer, stream, parsed, p)
    BY DEF PInv, InPlace
<1>3. PICK q : /\ Ahead(FromMagic(buffer), stream, parsed, q) /\ q >= p
               /\ Len(stream) - q + 1 < MagicCells \/ MagicAt(stream, q)
    BY <1>1, <1>2, AheadMagic
<1> DEFINE b == FromMagic(buffer)
<1>4. p \in 1..(Len(stream) + 1) /\ q \in 1..(Len(stream) + 1) /\ Len(buffer) = Len(stream) - p + 1 /\ Len(b) = Len(stream) - q + 1
    BY <1>1, <1>2, <1>3, FromIs DEF Ahead
<1>5. ExtractTooLong(b) \/ ExtractWait(b) \/ ExtractFrame(b)
    BY DEF TryExtractOne
<1> HIDE DEF b
<1>6. CASE ExtractTooLong(b)
    <2>1. Ahead(From(b, 2), stream, parsed, q + 1)
        BY <1>1, <1>3, <1>6, AheadTooLong DEF ExtractTooLong, b
    <2>2. phase' = "error" /\ buffer' = From(b, 2) /\ parsed' = parsed
        BY <1>6 DEF ExtractTooLong
    <2>3. q + 1 \in 1..(Len(stream) + 1) /\ From(b, 2) = From(stream, q + 1)
        BY <2>1 DEF Ahead
    <2>4. Len(buffer') < Len(buffer)
        <3> DEFINE k == q + 1
        <3>1. k \in 1..(Len(stream) + 1) /\ k > p
            BY <1>3, <1>4, <2>3
        <3> HIDE DEF k
        <3>2. Len(From(stream, k)) = Len(stream) - k + 1
            BY <1>1, <3>1, FromIs
        <3>3. Len(buffer') = Len(stream) - k + 1
            BY <2>2, <2>3, <3>2 DEF k
        <3> QED
            BY <1>1, <1>4, <3>1, <3>3
    <2>5. PInv'
        BY <1>1, <2>1, <2>2 DEF PInv, ParserTypes, InPlace, UpToDate
    <2> QED
        BY <2>4, <2>5
<1>7. CASE ExtractWait(b)
    <2>1. phase' = "idle" /\ buffer' = b /\ parsed' = parsed
        BY <1>7 DEF ExtractWait
    <2>2. parsed = Reference(stream) /\ Len(b) < Max({MaxPacket, HeaderCells})
        BY <1>1, <1>3, <1>7, AheadWait DEF ExtractWait, b
    <2> QED
        BY <1>1, <1>3, <2>1, <2>2 DEF PInv, ParserTypes, InPlace, UpToDate, b
<1>8. CASE ExtractFrame(b)
    <2> DEFINE n == FrameLength(b)
               d == Delivered(SubSeq(b, 1, n))
    <2>1. Ahead(From(b, n + 1), stream, parsed \o d, q + n) /\ parsed \o d \in Seq(ValidFrames)
        BY <1>1, <1>3, <1>8, AheadFrame DEF ExtractFrame, b
    <2>2. phase' = "handler" /\ buffer' = From(b, n + 1) /\ parsed' = parsed \o d
        BY <1>8 DEF ExtractFrame
    <2>3. q + n \in 1..(Len(stream) + 1) /\ From(b, n + 1) = From(stream, q + n)
        BY <2>1 DEF Ahead
    <2>4. Len(buffer') < Len(buffer)
        <3> DEFINE k == q + n
        <3>1. k \in 1..(Len(stream) + 1) /\ k > p
            <4>1. n \in Nat /\ n >= FrameOverhead
                BY FrameLengthIs
            <4> HIDE DEF n
            <4> QED
                BY <1>3, <1>4, <2>3, <4>1 DEF FrameOverhead
        <3> HIDE DEF k
        <3>2. Len(From(stream, k)) = Len(stream) - k + 1
            BY <1>1, <3>1, FromIs
        <3>3. Len(buffer') = Len(stream) - k + 1
            BY <2>2, <2>3, <3>2 DEF k
        <3> QED
            BY <1>1, <1>4, <3>1, <3>3
    <2> HIDE DEF n, d
    <2>5. PInv'
        BY <1>1, <2>1, <2>2 DEF PInv, ParserTypes, InPlace, UpToDate
    <2> QED
        BY <2>4, <2>5
<1> QED
    BY <1>5, <1>6, <1>7, <1>8

\* Every step keeps the parser in place.
LEMMA PInvNext == PInv /\ [NextParser]_parserVars => PInv'
<1> SUFFICES ASSUME PInv, [NextParser]_parserVars PROVE PInv'
    OBVIOUS
<1>1. ASSUME NEW chunk \in Chunks, Push(chunk) PROVE PInv'
    <2>1. chunk \in Seq(StreamCells)
        BY ParserAssumption
    <2>2. stream \in Seq(StreamCells) /\ parsed \in Seq(ValidFrames)
        BY DEF PInv, ParserTypes
    <2>3. PICK p : Ahead(buffer, stream, parsed, p)
        BY DEF PInv, InPlace
    <2>4. stream \o chunk \in Seq(StreamCells) /\ Ahead(buffer \o chunk, stream \o chunk, parsed, p)
        BY <2>1, <2>2, <2>3, AheadPush
    <2>5. buffer' = buffer \o chunk /\ stream' = stream \o chunk /\ phase' = "loop" /\ parsed' = parsed
        BY <1>1 DEF Push
    <2> QED
        BY <2>2, <2>4, <2>5 DEF PInv, ParserTypes, InPlace, UpToDate
<1>2. CASE TryExtractOne
    BY <1>2, PInvExtract
<1>3. CASE ClearBuffer
    <2>1. buffer' = << >> /\ stream' = << >> /\ parsed' = << >> /\ phase' = phase /\ phase \in {"idle", "loop", "handler", "error"}
        BY <1>3 DEF ClearBuffer, PInv, ParserTypes
    <2>2. ParserTypes'
        BY <2>1, AheadNothing DEF ParserTypes
    <2>3. InPlace'
        BY <2>1, AheadNothing DEF InPlace
    <2>4. UpToDate'
        <3>1. Len(<< >>) = 0
            BY EmptySeq
        <3> QED
            BY <2>1, <3>1, AheadNothing DEF UpToDate
    <2> QED
        BY <2>2, <2>3, <2>4 DEF PInv
<1>4. CASE UNCHANGED parserVars
    BY <1>4 DEF parserVars, PInv, ParserTypes, InPlace, UpToDate
<1> QED
    BY <1>1, <1>2, <1>3, <1>4 DEF NextParser

-----------------------------------------------------------------------------
(* Valid frames among noise.                                               *)

\* A valid frame is cut where it starts.
LEMMA FrameThere ==
    ASSUME NEW s \in Seq(StreamCells), NEW i \in FrameStarts(s)
    PROVE  /\ i \in 1..Len(s) /\ MagicAt(s, i)
           /\ LET n == FrameLength(From(s, i))
              IN  /\ n \in Nat /\ n >= FrameOverhead /\ ~(n > MaxPacket) /\ i + n - 1 <= Len(s)
                  /\ \E f : Delivered(SubSeq(s, i, i + n - 1)) = <<f>>
<1>1. Len(s) \in Nat /\ DOMAIN s = 1..Len(s)
    BY LenProperties
<1>2. i \in 1..Len(s)
    BY <1>1 DEF FrameStarts
<1>3. PICK f \in ValidFrames : i + Len(f) - 1 <= Len(s) /\ SubSeq(s, i, i + Len(f) - 1) = f
    BY DEF FrameStarts
<1> DEFINE n == Len(f)
           u == SubSeq(s, i, i + n - 1)
<1>4. n <= MaxPacket /\ f[1] = A /\ f[2] = T /\ f[3] \in Length /\ n = f[3] + FrameOverhead /\ MaxPacket \in Nat /\ Length \subseteq Nat
    BY ParserAssumption
<1>6. i + n - 1 <= Len(s) /\ u = f
    BY <1>3
<1> HIDE DEF n
<1>5. n \in Nat /\ n >= FrameOverhead
    <2> DEFINE k == f[3]
    <2>1. k \in Nat /\ n = k + FrameOverhead
        BY <1>4
    <2> HIDE DEF k
    <2> QED
        BY <2>1 DEF FrameOverhead
<1>7. i + n - 1 \in Int /\ i + 3 <= Len(s) /\ i + n - 1 - i + 1 = n
    BY <1>1, <1>2, <1>5, <1>6 DEF FrameOverhead
<1>8. \A k \in 1..(i + n - 1 - i + 1) : u[k] = s[i + k - 1]
    <2>1. PICK j \in Int : j = i + n - 1
        BY <1>7
    <2>2. i \in Int /\ i >= 1 /\ j <= Len(s)
        BY <1>2, <1>6, <2>1
    <2>3. \A k \in 1..(j - i + 1) : SubSeq(s, i, j)[k] = s[i + k - 1]
        BY <2>2, PartOfStream
    <2>4. u = SubSeq(s, i, j)
        BY <2>1
    <2> HIDE DEF u
    <2>5. j - i + 1 = i + n - 1 - i + 1
        BY <1>5, <2>1, <2>2
    <2> QED
        BY <2>3, <2>4, <2>5, Zenon
<1>9. s[i] = f[1] /\ s[i + 1] = f[2] /\ s[i + 2] = f[3]
    <2>1. 1 \in 1..n /\ 2 \in 1..n /\ 3 \in 1..n /\ i + 1 - 1 = i /\ i + 2 - 1 = i + 1 /\ i + 3 - 1 = i + 2
        BY <1>2, <1>5 DEF FrameOverhead
    <2> HIDE DEF u
    <2>2. \A k \in 1..n : u[k] = s[i + k - 1]
        BY <1>7, <1>8
    <2>3. u[1] = s[i + 1 - 1] /\ u[2] = s[i + 2 - 1] /\ u[3] = s[i + 3 - 1]
        BY <2>1, <2>2
    <2> QED
        BY <1>6, <2>1, <2>3
<1>10. MagicAt(s, i)
    BY <1>1, <1>2, <1>4, <1>7, <1>9 DEF MagicAt
<1>11. FrameLength(From(s, i)) = n
    <2>1. FrameLength(From(s, i)) = FieldOf(s[i + 2]) + FrameOverhead
        BY <1>1, <1>2, <1>7, LengthInRest
    <2> QED
        BY <1>4, <1>9, <2>1 DEF FieldOf
<1>12. Delivered(u) = <<f>>
    BY <1>6 DEF Delivered
<1> QED
    BY <1>1, <1>2, <1>4, <1>5, <1>6, <1>10, <1>11, <1>12

\* From every position on, as many packets are cut as valid frames start there.
LEMMA CutAmongNoise ==
    ASSUME NEW s \in Seq(StreamCells), MagicOnlyInFrames(s)
    PROVE  Len(Reference(s)) = Cardinality(FrameStarts(s))
<1> DEFINE n == Len(s)
           g == Cut(s)
           S == FrameStarts(s)
           F(i) == {j \in S : j >= i}
           Bad == {i \in 1..(n + 1) : Len(g[i]) # Cardinality(F(i))}
<1>1. n \in Nat /\ DOMAIN s = 1..n
    BY LenProperties
<1>2. S \subseteq 1..n /\ \A i \in S : i + 3 <= n
    <2>1. ASSUME NEW i \in S PROVE i \in 1..n /\ i + 3 <= n
        <3> DEFINE m == FrameLength(From(s, i))
        <3>1. i \in 1..n /\ m \in Nat /\ m >= FrameOverhead /\ i + m - 1 <= n
            BY FrameThere
        <3> HIDE DEF m
        <3> QED
            BY <1>1, <3>1 DEF FrameOverhead
    <2> QED
        BY <2>1
<1> DEFINE Places == \A j \in S : j \in Int /\ j >= 1 /\ j <= n
<1>11. Places
    BY <1>1, <1>2
<1>3. IsFiniteSet(S) /\ \A i : F(i) \subseteq S /\ IsFiniteSet(F(i))
    <2>1. IsFiniteSet(1..n)
        BY <1>1, FS_Interval
    <2> HIDE DEF S
    <2>2. IsFiniteSet(S)
        BY <1>2, <2>1, FS_Subset
    <2>3. ASSUME NEW i PROVE F(i) \subseteq S /\ IsFiniteSet(F(i))
        <3>1. F(i) \subseteq S
            OBVIOUS
        <3> HIDE DEF F
        <3> QED
            BY <2>2, <3>1, FS_Subset
    <2> QED
        BY <2>2, <2>3
<1>4. \A i \in 1..n : MagicAt(s, i) <=> i \in S
    BY <1>1, <1>2 DEF MagicOnlyInFrames
<1>5. \A i, j \in S : i < j => i + FrameLength(From(s, i)) <= j
    BY DEF MagicOnlyInFrames
<1>6. \A i \in 1..(n + 1) : g[i] = CutAt(g, s, i) /\ g[i] \in Seq(ValidFrames)
    BY CutIs
<1> HIDE DEF g, S
<1>7. Bad = {}
    <2> SUFFICES ASSUME Bad # {} PROVE FALSE
        OBVIOUS
    <2>1. PICK i \in Bad : \A k \in Bad : k <= i
        <3>1. n + 1 \in Nat /\ Bad \subseteq 1..(n + 1)
            BY <1>1
        <3> HIDE DEF Bad
        <3> QED
            BY <3>1, GreatestNumber
    <2>2. i \in 1..(n + 1) /\ Len(g[i]) # Cardinality(F(i))
        OBVIOUS
    <2>3. ASSUME NEW j \in (i + 1)..(n + 1) PROVE Len(g[j]) = Cardinality(F(j))
        BY <1>1, <2>1, <2>2
    <2>4. CASE i = n + 1
        <3>1. i + 2 > n
            BY <1>1, <2>4
        <3>2. g[i] = << >>
            BY <1>6, <2>2, <3>1 DEF CutAt
        <3>3. F(i) = {}
            BY <1>1, <1>11, <2>4
        <3> QED
            BY <2>2, <3>2, <3>3, FS_EmptySet, EmptySeq
    <2>5. CASE i # n + 1 /\ ~MagicAt(s, i)
        <3>1. i \in 1..n /\ i + 1 \in (i + 1)..(n + 1)
            BY <1>1, <2>2, <2>5
        <3>2. g[i] = g[i + 1]
            BY <2>5, <3>1, CutNoMagic DEF g
        <3>3. i \notin S
            BY <1>4, <2>5, <3>1
        <3>4. F(i) = F(i + 1)
            <4>1. i \in Int
                BY <3>1
            <4>2. \A j \in S : j >= i <=> j >= i + 1
                BY <1>11, <3>3, <4>1
            <4> QED
                BY <4>2, Zenon
        <3>5. Len(g[i + 1]) = Cardinality(F(i + 1))
            BY <2>3, <3>1
        <3> HIDE DEF F
        <3> QED
            BY <2>2, <3>2, <3>4, <3>5
    <2>6. CASE i # n + 1 /\ MagicAt(s, i)
        <3> DEFINE m == FrameLength(From(s, i))
        <3>1. i \in 1..n /\ i \in S
            BY <1>1, <1>4, <2>2, <2>6
        <3>2. /\ m \in Nat /\ m >= FrameOverhead /\ ~(m > MaxPacket) /\ i + m - 1 <= n
              /\ \E f : Delivered(SubSeq(s, i, i + m - 1)) = <<f>>
            BY <3>1, FrameThere DEF S
        <3>3. Continues(s, s)
            BY <1>1 DEF Continues
        <3>4. i + 2 <= n
            BY <1>2, <3>1
        <3>5. g[i] = Delivered(SubSeq(s, i, i + m - 1)) \o g[i + m]
            BY <2>2, <2>6, <3>2, <3>3, <3>4, CutThere DEF g
        <3>6. PICK f : Delivered(SubSeq(s, i, i + m - 1)) = <<f>>
            BY <3>2
        <3>7. \A j \in S : i < j => i + m <= j
            BY <1>5, <3>1
        <3> DEFINE k == i + m
        <3> HIDE DEF m
        <3>8. k \in (i + 1)..(n + 1) /\ k > i
            BY <1>1, <3>1, <3>2 DEF FrameOverhead
        <3>9. g[i] = <<f>> \o g[k] /\ \A j \in S : i < j => k <= j
            BY <3>5, <3>6, <3>7
        <3> HIDE DEF k
        <3>10. Len(g[k]) = Cardinality(F(k)) /\ Len(g[k]) \in Nat
            <4>1. g[k] \in Seq(ValidFrames)
                BY <1>1, <1>6, <2>2, <3>8
            <4> QED
                BY <2>3, <3>8, <4>1, LenProperties
        <3>11. Len(g[i]) = Len(g[k]) + 1
            <4> DEFINE r == g[k]
                       V == ValidFrames \cup {f}
            <4>1. r \in Seq(ValidFrames)
                BY <1>1, <1>6, <2>2, <3>8
            <4> HIDE DEF r
            <4>2. r \in Seq(V)
                BY <4>1
            <4>3. <<f>> \in Seq(V) /\ Len(<<f>>) = 1
                OBVIOUS
            <4> HIDE DEF V
            <4>4. Len(<<f>> \o r) = Len(<<f>>) + Len(r) /\ Len(r) \in Nat
                BY <4>2, <4>3, ConcatProperties, LenProperties
            <4> QED
                BY <3>9, <4>3, <4>4 DEF r
        <3>12. F(k) = F(i) \ {i} /\ i \in F(i)
            <4>1. i \in Int /\ k \in Int /\ k > i
                BY <3>1, <3>8
            <4>2. \A j \in S : j >= k <=> j >= i /\ j # i
                BY <1>11, <3>9, <4>1
            <4>3. F(k) = F(i) \ {i}
                BY <4>2, Zenon
            <4>4. i \in F(i)
                BY <3>1, <4>1
            <4> QED
                BY <4>3, <4>4
        <3>13. Cardinality(F(k)) = Cardinality(F(i)) - 1 /\ Cardinality(F(i)) \in Nat
            <4>1. IsFiniteSet(F(i))
                BY <1>3
            <4> HIDE DEF F
            <4> QED
                BY <3>12, <4>1, Smaller
        <3> HIDE DEF F
        <3> QED
            BY <2>2, <3>10, <3>11, <3>13
    <2> QED
        BY <2>4, <2>5, <2>6
<1>8. 1 \in 1..(n + 1)
    BY <1>1
<1>9. Len(g[1]) = Cardinality(F(1))
    BY <1>7, <1>8
<1>10. F(1) = S
    BY <1>11
<1> HIDE DEF F
<1> QED
    BY <1>9, <1>10, ReferenceIsCut DEF g, S

\* What push() has delivered when it returns is what the stream holds, whatever the
\* chunks, the noise and the handlers were, and its buffer stays below one frame.
THEOREM ParserRecovers == ParserSpec => []StreamRecovered
<1>1. PInv => StreamRecovered
    <2> SUFFICES ASSUME PInv PROVE StreamRecovered
        OBVIOUS
    <2>1. ChunkingIrrelevant /\ BufferBounded
        BY DEF PInv, UpToDate, ChunkingIrrelevant, BufferBounded
    <2>2. RecoversAfterNoise
        <3> SUFFICES ASSUME phase = "idle", MagicOnlyInFrames(stream)
                     PROVE  Len(parsed) = Cardinality(FrameStarts(stream))
            BY DEF RecoversAfterNoise
        <3>1. stream \in Seq(StreamCells) /\ parsed = Reference(stream)
            BY DEF PInv, ParserTypes, UpToDate
        <3>2. Len(Reference(stream)) = Cardinality(FrameStarts(stream))
            BY <3>1, CutAmongNoise
        <3> QED
            BY <3>1, <3>2
    <2> QED
        BY <2>1, <2>2 DEF StreamRecovered
<1> QED
    BY <1>1, PInvInit, PInvNext, PTL DEF ParserSpec

\* Every pass of push()'s loop but its last consumes something of the buffer.
THEOREM ParserAdvances == ParserSpec => LoopConsumes
<1>1. PInv => [(TryExtractOne /\ phase' # "idle") => Len(buffer') < Len(buffer)]_parserVars
    BY PInvExtract
<1> QED
    BY <1>1, PInvInit, PInvNext, PTL DEF ParserSpec, LoopConsumes

-----------------------------------------------------------------------------
(* SessionTracker.                                                         *)
Session == [opened_at : Nat, last_seen : Nat, last_time : Nat, first : Nat, last : Nat, packets : Nat,
            duplicates : Nat, gaps : Nat, regressions : Nat, open : BOOLEAN]

\* last and last_time are reached by packets of the log and exceeded by none.
Tops(s, l) ==
    /\ \E j \in 1..Len(l) : l[j].sequence = s.last
    /\ \A j \in 1..Len(l) : l[j].sequence <= s.last
    /\ \E j \in 1..Len(l) : l[j].timestamp = s.last_time
    /\ \A j \in 1..Len(l) : l[j].timestamp <= s.last_time

SInv ==
    /\ log \in [Device -> Seq(Packets)]
    /\ DOMAIN sessions \subseteq Device
    /\ \A d \in DOMAIN sessions :
          sessions[d] \in Session /\ Matches(sessions[d], log[d]) /\ Tops(sessions[d], log[d])
    /\ \A d \in Device \ DOMAIN sessions : log[d] = << >>
    /\ events \in [Device -> [opened : Nat, closed : Nat]]
    /\ OpenCloseAlternate

-----------------------------------------------------------------------------
(* Operators.                                                              *)

\* The largest element is Max.
LEMMA MaxIs ==
    ASSUME NEW Below \in SUBSET Int, NEW m \in Below, \A y \in Below : y <= m
    PROVE  Max(Below) = m
<1>1. \A y \in Below : m >= y
    OBVIOUS
<1>2. \A x \in Below : (\A y \in Below : x >= y) => x = m
    OBVIOUS
<1> QED
    BY <1>1, <1>2 DEF Max

\* A condition counts 0 or 1.
LEMMA BitTyped == ASSUME NEW c PROVE Bit(c) \in {0, 1}
BY DEF Bit

\* Counting one more candidate.
LEMMA CountOneMore ==
    ASSUME NEW n \in Nat, NEW D \in SUBSET (2..n)
    PROVE  Cardinality(D \cup {n + 1}) = Cardinality(D) + 1 /\ Cardinality(D) \in Nat
<1>1. IsFiniteSet(2..n)
    BY FS_Interval
<1>2. IsFiniteSet(D)
    BY <1>1, FS_Subset
<1>3. n + 1 \notin D
    OBVIOUS
<1> QED
    BY <1>2, <1>3, FS_CardinalityType, FS_AddElement

\* The log up to a packet does not change when another one is appended.
LEMMA EarlierStays ==
    ASSUME NEW l \in Seq(Packets), NEW p \in Packets
    PROVE  LET m == Append(l, p)
           IN  /\ m \in Seq(Packets) /\ Len(m) = Len(l) + 1 /\ m[Len(l) + 1] = p
               /\ \A j \in 1..Len(l) : m[j] = l[j]
               /\ \A i \in 1..Len(l) + 1 : /\ NewestBefore(m, i) = NewestBefore(l, i)
                                          /\ LatestBefore(m, i) = LatestBefore(l, i)
<1> DEFINE m == Append(l, p)
<1>1. /\ m \in Seq(Packets) /\ Len(m) = Len(l) + 1 /\ m[Len(l) + 1] = p
      /\ \A j \in 1..Len(l) : m[j] = l[j]
    BY AppendProperties
<1> HIDE DEF m
<1>2. ASSUME NEW i \in 1..Len(l) + 1
      PROVE  NewestBefore(m, i) = NewestBefore(l, i) /\ LatestBefore(m, i) = LatestBefore(l, i)
    <2>1. Len(l) \in Nat
        BY LenProperties
    <2>2. \A j \in 1..(i - 1) : m[j] = l[j]
        BY <1>1, <2>1
    <2>3. /\ {m[j].sequence : j \in 1..(i - 1)} = {l[j].sequence : j \in 1..(i - 1)}
          /\ {m[j].timestamp : j \in 1..(i - 1)} = {l[j].timestamp : j \in 1..(i - 1)}
        BY <2>2
    <2> QED
        BY <2>3 DEF NewestBefore, LatestBefore
<1> QED
    BY <1>1, <1>2 DEF m

\* What Tops is for.
LEMMA TopsAreMaxima ==
    ASSUME SessionAssumption, NEW l \in Seq(Packets), NEW s, Tops(s, l)
    PROVE  s.last = NewestBefore(l, Len(l) + 1) /\ s.last_time = LatestBefore(l, Len(l) + 1)
<1>1. Len(l) \in Nat /\ (Len(l) + 1) - 1 = Len(l)
    BY LenProperties
<1>2. \A j \in 1..Len(l) : l[j] \in Packets
    BY ElementOfSeq
<1>3. \A j \in 1..Len(l) : l[j].sequence \in Nat /\ l[j].timestamp \in Nat
    BY <1>2 DEF SessionAssumption
<1>4. s.last = Max({l[j].sequence : j \in 1..Len(l)})
    <2> DEFINE Below == {l[j].sequence : j \in 1..Len(l)}
    <2>1. Below \in SUBSET Int /\ s.last \in Below /\ \A y \in Below : y <= s.last
        BY <1>3 DEF Tops
    <2> HIDE DEF Below
    <2>2. Max(Below) = s.last
        BY <2>1, MaxIs
    <2> QED
        BY <2>2 DEF Below
<1>5. s.last_time = Max({l[j].timestamp : j \in 1..Len(l)})
    <2> DEFINE Below == {l[j].timestamp : j \in 1..Len(l)}
    <2>1. Below \in SUBSET Int /\ s.last_time \in Below /\ \A y \in Below : y <= s.last_time
        BY <1>3 DEF Tops
    <2> HIDE DEF Below
    <2>2. Max(Below) = s.last_time
        BY <2>1, MaxIs
    <2> QED
        BY <2>2 DEF Below
<1> QED
    BY <1>1, <1>4, <1>5 DEF NewestBefore, LatestBefore
-----------------------------------------------------------------------------
(* One packet.                                                             *)

\* The first packet opens a session that says what the log says.
LEMMA FirstPacket ==
    ASSUME SessionAssumption, NEW p \in Packets, NEW arrival \in Time
    PROVE  LET s == NewSession(p, arrival)
               l == Append(<< >>, p)
           IN  l \in Seq(Packets) /\ s \in Session /\ Matches(s, l) /\ Tops(s, l)
<1> DEFINE s == NewSession(p, arrival)
           l == Append(<< >>, p)
<1>1. l \in Seq(Packets) /\ Len(l) = 1 /\ l[1] = p
    OBVIOUS
<1>2. p.sequence \in Nat /\ p.timestamp \in Nat /\ arrival \in Nat
    BY DEF SessionAssumption
<1>3. s \in Session /\ s.last = p.sequence /\ s.last_time = p.timestamp /\ s.first = p.sequence
      /\ s.packets = 1 /\ s.duplicates = 0 /\ s.gaps = 0 /\ s.regressions = 0
    BY <1>2 DEF NewSession, Session
<1> HIDE DEF s, l
<1>4. Tops(s, l)
    BY <1>1, <1>2, <1>3 DEF Tops
<1>5. s.last = NewestBefore(l, Len(l) + 1) /\ s.last_time = LatestBefore(l, Len(l) + 1)
    BY <1>1, <1>4, TopsAreMaxima
<1>6. Duplicates(l) = {} /\ Gaps(l) = {} /\ Regressions(l) = {}
    BY <1>1 DEF Duplicates, Gaps, Regressions
<1>7. Matches(s, l)
    BY <1>1, <1>3, <1>5, <1>6, FS_EmptySet DEF Matches
<1> QED
    BY <1>1, <1>3, <1>4, <1>7 DEF s, l

\* A further packet, in, out of or behind the sequence, updates the session to
\* what the longer log says; closing and reopening make no difference.
LEMMA FurtherPacket ==
    ASSUME SessionAssumption, NEW s \in Session, NEW l \in Seq(Packets), Matches(s, l), Tops(s, l),
           NEW p \in Packets, NEW arrival \in Time
    PROVE  LET t == Observed(s, p, arrival)
               m == Append(l, p)
           IN  m \in Seq(Packets) /\ t \in Session /\ Matches(t, m) /\ Tops(t, m)
<1> DEFINE t == Observed(s, p, arrival)
           m == Append(l, p)
           k == Len(l)
           later == p.sequence > s.last
           gap == p.sequence - s.last > MaxGap + 1
           back == p.timestamp < s.last_time
<1>1. k \in Nat /\ k >= 1
    BY LenProperties DEF Matches
<1>2. /\ m \in Seq(Packets) /\ Len(m) = k + 1 /\ m[k + 1] = p
      /\ \A j \in 1..k : m[j] = l[j]
      /\ \A i \in 1..k + 1 : /\ NewestBefore(m, i) = NewestBefore(l, i)
                             /\ LatestBefore(m, i) = LatestBefore(l, i)
    BY EarlierStays
<1>3. /\ p.sequence \in Nat /\ p.timestamp \in Nat /\ arrival \in Nat /\ MaxGap \in Nat
      /\ s.last \in Nat /\ s.last_time \in Nat /\ s.first \in Nat /\ s.packets \in Nat
      /\ s.duplicates \in Nat /\ s.gaps \in Nat /\ s.regressions \in Nat /\ s.opened_at \in Nat
    BY DEF SessionAssumption, Session
<1>4. /\ t.first = s.first /\ t.packets = s.packets + 1
      /\ t.last = IF later THEN p.sequence ELSE s.last
      /\ t.last_time = IF back THEN s.last_time ELSE p.timestamp
      /\ t.duplicates = s.duplicates + Bit(~later)
      /\ t.gaps = s.gaps + Bit(gap)
      /\ t.regressions = s.regressions + Bit(back)
    <2>1. (SequenceAfter(p.sequence, s.last) /\ SequenceGap(p.sequence, s.last) > MaxGap) <=> gap
        <3> DEFINE a == p.sequence
                   b == s.last
        <3>1. a \in Nat /\ b \in Nat /\ MaxGap \in Nat
            BY <1>3
        <3> HIDE DEF a, b
        <3>2. (SequenceAfter(a, b) /\ SequenceGap(a, b) > MaxGap) <=> a - b > MaxGap + 1
            BY <3>1 DEF SequenceAfter, SequenceGap
        <3> QED
            BY <3>2 DEF a, b
    <2>2. Larger(s.last_time, p.timestamp) = IF back THEN s.last_time ELSE p.timestamp
        BY <1>3 DEF Larger
    <2>3. SequenceAfter(p.sequence, s.last) <=> later
        BY DEF SequenceAfter
    <2>4. /\ t.gaps = s.gaps + Bit(SequenceAfter(p.sequence, s.last)
                                    /\ SequenceGap(p.sequence, s.last) > MaxGap)
          /\ t.last_time = Larger(s.last_time, p.timestamp)
          /\ t.last = IF SequenceAfter(p.sequence, s.last) THEN p.sequence ELSE s.last
          /\ t.duplicates = s.duplicates + Bit(~SequenceAfter(p.sequence, s.last))
          /\ t.first = s.first /\ t.packets = s.packets + 1
          /\ t.regressions = s.regressions + Bit(back)
        BY DEF Observed
    <2> HIDE DEF t, gap, back, later
    <2> QED
        BY <2>1, <2>2, <2>3, <2>4 DEF Bit
<1>5. t \in Session
    <2>1. s.duplicates + Bit(~SequenceAfter(p.sequence, s.last)) \in Nat
        BY <1>3 DEF Bit
    <2>2. s.regressions + Bit(back) \in Nat
        BY <1>3 DEF Bit
    <2>3. s.gaps + Bit(SequenceAfter(p.sequence, s.last)
                        /\ SequenceGap(p.sequence, s.last) > MaxGap) \in Nat
        BY <1>3 DEF Bit
    <2>4. Larger(s.last_time, p.timestamp) \in Nat
        BY <1>3 DEF Larger
    <2> QED
        <3> DEFINE last == IF SequenceAfter(p.sequence, s.last) THEN p.sequence ELSE s.last
                   opened == IF s.open THEN s.opened_at ELSE arrival
                   time == Larger(s.last_time, p.timestamp)
                   doubled == s.duplicates + Bit(~SequenceAfter(p.sequence, s.last))
                   gapped == s.gaps + Bit(SequenceAfter(p.sequence, s.last)
                                           /\ SequenceGap(p.sequence, s.last) > MaxGap)
                   turned == s.regressions + Bit(back)
                   n == s.packets + 1
        <3>0. last \in Nat /\ opened \in Nat /\ n \in Nat /\ s.first \in Nat /\ arrival \in Nat
            BY <1>3
        <3>1. time \in Nat /\ doubled \in Nat /\ gapped \in Nat /\ turned \in Nat
            BY <2>1, <2>2, <2>3, <2>4, Zenon
        <3>2. t = [opened_at |-> opened, last_seen |-> arrival, last_time |-> time, first |-> s.first,
                   last |-> last, packets |-> n, duplicates |-> doubled, gaps |-> gapped,
                   regressions |-> turned, open |-> TRUE]
            BY DEF Observed
        <3> HIDE DEF last, opened, time, doubled, gapped, turned, n
        <3> QED
            BY <3>0, <3>1, <3>2 DEF Session
<1>6. /\ s.last = NewestBefore(l, k + 1) /\ s.last_time = LatestBefore(l, k + 1)
      /\ s.packets = k /\ s.first = l[1].sequence
      /\ s.duplicates = Cardinality(Duplicates(l)) /\ s.gaps = Cardinality(Gaps(l))
      /\ s.regressions = Cardinality(Regressions(l))
    BY DEF Matches
<1>7. \A j \in 1..k : l[j].sequence \in Nat /\ l[j].timestamp \in Nat
    <2>1. \A j \in 1..k : l[j] \in Packets
        BY ElementOfSeq
    <2> QED
        BY <2>1 DEF SessionAssumption
<1> HIDE DEF t, m, k
<1>8. /\ t.last \in Nat /\ s.last <= t.last /\ p.sequence <= t.last
      /\ t.last_time \in Nat /\ s.last_time <= t.last_time /\ p.timestamp <= t.last_time
    <2> DEFINE u == s.last
               v == s.last_time
               x == t.last
               y == t.last_time
    <2>1. /\ u \in Nat /\ v \in Nat /\ p.sequence \in Nat /\ p.timestamp \in Nat
          /\ x = IF p.sequence > u THEN p.sequence ELSE u
          /\ y = IF p.timestamp < v THEN v ELSE p.timestamp
        BY <1>3, <1>4
    <2> HIDE DEF u, v, x, y
    <2>2. x \in Nat /\ y \in Nat /\ u <= x /\ v <= y /\ p.sequence <= x /\ p.timestamp <= y
        BY <2>1
    <2> QED
        BY <2>2 DEF u, v, x, y
<1>9. Tops(t, m)
    <2>1. \A j \in 1..Len(m) : j \in 1..k \/ j = k + 1
        BY <1>1, <1>2
    <2>2. 1..k \subseteq 1..Len(m) /\ k + 1 \in 1..Len(m)
        BY <1>1, <1>2
    <2>3. \A j \in 1..Len(m) : m[j].sequence <= t.last /\ m[j].timestamp <= t.last_time
        <3> SUFFICES ASSUME NEW j \in 1..Len(m)
                     PROVE  m[j].sequence <= t.last /\ m[j].timestamp <= t.last_time
            OBVIOUS
        <3>1. CASE j \in 1..k
            <4>1. l[j].sequence <= s.last /\ l[j].timestamp <= s.last_time /\ m[j] = l[j]
                BY <1>2, <3>1 DEF Tops, k
            <4>2. l[j].sequence \in Nat /\ l[j].timestamp \in Nat
                BY <1>7, <3>1
            <4> DEFINE u == s.last
                       v == s.last_time
                       x == t.last
                       y == t.last_time
                       q == l[j].sequence
                       w == l[j].timestamp
            <4>3. /\ u \in Nat /\ v \in Nat /\ x \in Nat /\ y \in Nat /\ q \in Nat /\ w \in Nat
                  /\ q <= u /\ w <= v /\ u <= x /\ v <= y
                BY <1>3, <1>8, <4>1, <4>2
            <4> HIDE DEF u, v, x, y, q, w
            <4>4. q <= x /\ w <= y
                BY <4>3
            <4> QED
                BY <4>1, <4>4 DEF x, y, q, w
        <3>2. CASE j = k + 1
            BY <1>2, <1>8, <3>2
        <3> QED
            BY <2>1, <3>1, <3>2
    <2>4. \E j \in 1..Len(m) : m[j].sequence = t.last
        BY <1>2, <1>4, <2>2 DEF Tops, k
    <2>5. \E j \in 1..Len(m) : m[j].timestamp = t.last_time
        BY <1>2, <1>4, <2>2 DEF Tops, k
    <2> QED
        BY <2>3, <2>4, <2>5 DEF Tops
<1>10. /\ Duplicates(l) \in SUBSET (2..k) /\ Gaps(l) \in SUBSET (2..k) /\ Regressions(l) \in SUBSET (2..k)
    BY DEF Duplicates, Gaps, Regressions, k
<1>11. \A i \in 2..Len(m) : i = k + 1 \/ (i \in 2..k /\ i \in 1..k /\ i \in 1..k + 1)
    BY <1>1, <1>2
<1>12. 2..k \subseteq 2..Len(m) /\ k + 1 \in 2..Len(m) /\ 2..k \subseteq 1..k
    BY <1>1, <1>2
<1>13. NewestBefore(m, k + 1) = s.last /\ LatestBefore(m, k + 1) = s.last_time
    BY <1>1, <1>2, <1>6
<1>14. Cardinality(Duplicates(m)) = s.duplicates + Bit(~later)
    <2>1. Duplicates(m) = IF ~later THEN Duplicates(l) \cup {k + 1} ELSE Duplicates(l)
        <3>1. \A i \in 2..k : m[i].sequence <= NewestBefore(m, i) <=> l[i].sequence <= NewestBefore(l, i)
            BY <1>2, <1>11, <1>12
        <3>2. m[k + 1].sequence <= NewestBefore(m, k + 1) <=> ~later
            BY <1>2, <1>3, <1>13
        <3> QED
            BY <1>11, <1>12, <3>1, <3>2 DEF Duplicates, k
    <2>2. /\ Cardinality(Duplicates(l) \cup {k + 1}) = Cardinality(Duplicates(l)) + 1
          /\ Cardinality(Duplicates(l)) \in Nat
        BY <1>1, <1>10, CountOneMore
    <2>3. CASE ~later
        BY <1>6, <2>1, <2>2, <2>3 DEF Bit
    <2>4. CASE ~(~later)
        BY <1>6, <2>1, <2>2, <2>4 DEF Bit
    <2> QED
        BY <2>3, <2>4
<1>15. Cardinality(Gaps(m)) = s.gaps + Bit(gap)
    <2>1. Gaps(m) = IF gap THEN Gaps(l) \cup {k + 1} ELSE Gaps(l)
        <3>1. \A i \in 2..k : (m[i].sequence - NewestBefore(m, i) > MaxGap + 1)
                                <=> (l[i].sequence - NewestBefore(l, i) > MaxGap + 1)
            BY <1>2, <1>11, <1>12
        <3>2. (m[k + 1].sequence - NewestBefore(m, k + 1) > MaxGap + 1) <=> gap
            BY <1>2, <1>3, <1>13
        <3> QED
            BY <1>11, <1>12, <3>1, <3>2 DEF Gaps, k
    <2>2. /\ Cardinality(Gaps(l) \cup {k + 1}) = Cardinality(Gaps(l)) + 1
          /\ Cardinality(Gaps(l)) \in Nat
        BY <1>1, <1>10, CountOneMore
    <2>3. CASE gap
        BY <1>6, <2>1, <2>2, <2>3 DEF Bit
    <2>4. CASE ~(gap)
        BY <1>6, <2>1, <2>2, <2>4 DEF Bit
    <2> QED
        BY <2>3, <2>4
<1>16. Cardinality(Regressions(m)) = s.regressions + Bit(back)
    <2>1. Regressions(m) = IF back THEN Regressions(l) \cup {k + 1} ELSE Regressions(l)
        <3>1. \A i \in 2..k : (m[i].timestamp < LatestBefore(m, i)) <=> (l[i].timestamp < LatestBefore(l, i))
            BY <1>2, <1>11, <1>12
        <3>2. (m[k + 1].timestamp < LatestBefore(m, k + 1)) <=> back
            BY <1>2, <1>3, <1>13
        <3> QED
            BY <1>11, <1>12, <3>1, <3>2 DEF Regressions, k
    <2>2. /\ Cardinality(Regressions(l) \cup {k + 1}) = Cardinality(Regressions(l)) + 1
          /\ Cardinality(Regressions(l)) \in Nat
        BY <1>1, <1>10, CountOneMore
    <2>3. CASE back
        BY <1>6, <2>1, <2>2, <2>3 DEF Bit
    <2>4. CASE ~(back)
        BY <1>6, <2>1, <2>2, <2>4 DEF Bit
    <2> QED
        BY <2>3, <2>4
<1>17. Matches(t, m)
    <2>1. t.last = NewestBefore(m, Len(m) + 1) /\ t.last_time = LatestBefore(m, Len(m) + 1)
        BY <1>2, <1>9, TopsAreMaxima
    <2>2. Len(m) >= 1 /\ t.packets = Len(m) /\ t.first = m[1].sequence
        BY <1>1, <1>2, <1>4, <1>6
    <2> QED
        BY <1>4, <1>14, <1>15, <1>16, <2>1, <2>2 DEF Matches
<1> QED
    BY <1>2, <1>5, <1>9, <1>17 DEF t, m
-----------------------------------------------------------------------------
(* The steps.                                                              *)

\* Nothing observed yet: initially and after clear().
LEMMA NothingObserved ==
    ASSUME sessions = << >>, log = [d \in Device |-> << >>], events = NoEvents
    PROVE  SInv
<1>1. DOMAIN sessions = {}
    OBVIOUS
<1>2. log \in [Device -> Seq(Packets)] /\ \A d \in Device : log[d] = << >>
    OBVIOUS
<1>3. /\ events \in [Device -> [opened : Nat, closed : Nat]]
      /\ \A d \in Device : events[d].opened = 0 /\ events[d].closed = 0
    BY DEF NoEvents
<1>4. OpenCloseAlternate
    BY <1>1, <1>3 DEF OpenCloseAlternate, Bit
<1> QED
    BY <1>1, <1>2, <1>3, <1>4 DEF SInv

\* observe() extends log and session together.
LEMMA ObserveKeeps ==
    ASSUME SessionAssumption, SInv, NEW p \in Packets, NEW arrival \in Time, Observe(p, arrival)
    PROVE  SInv'
<1> DEFINE d == p.device
           known == d \in DOMAIN sessions
           next == IF known THEN Observed(sessions[d], p, arrival) ELSE NewSession(p, arrival)
           up == Bit(~known \/ ~sessions[d].open)
<1>0. d \in Device /\ log[d] \in Seq(Packets)
    BY DEF SessionAssumption, SInv
<1>1. /\ sessions' = [e \in DOMAIN sessions \cup {d} |-> IF e = d THEN next ELSE sessions[e]]
      /\ log' = [log EXCEPT ![d] = Append(log[d], p)]
      /\ events' = [events EXCEPT ![d].opened = events[d].opened + up]
    BY DEF Observe
<1>2. /\ Append(log[d], p) \in Seq(Packets) /\ next \in Session /\ next.open = TRUE
      /\ Matches(next, Append(log[d], p)) /\ Tops(next, Append(log[d], p))
    <2>1. CASE known
        <3>1. sessions[d] \in Session /\ Matches(sessions[d], log[d]) /\ Tops(sessions[d], log[d])
            BY <2>1 DEF SInv
        <3>2. next = Observed(sessions[d], p, arrival)
            BY <2>1
        <3>3. next.open = TRUE
            BY <3>2 DEF Observed
        <3> HIDE DEF next
        <3> QED
            BY <1>0, <3>1, <3>2, <3>3, FurtherPacket
    <2>2. CASE ~known
        <3>1. log[d] = << >>
            BY <1>0, <2>2 DEF SInv
        <3>2. next = NewSession(p, arrival)
            BY <2>2
        <3>3. next.open = TRUE
            BY <3>2 DEF NewSession
        <3> HIDE DEF next
        <3> QED
            BY <3>1, <3>2, <3>3, FirstPacket
    <2> QED
        BY <2>1, <2>2
<1> HIDE DEF next
<1>3. /\ DOMAIN sessions' = DOMAIN sessions \cup {d} /\ sessions'[d] = next
      /\ \A e \in DOMAIN sessions : e # d => sessions'[e] = sessions[e]
    BY <1>1
<1>4. /\ log' \in [Device -> Seq(Packets)] /\ log'[d] = Append(log[d], p)
      /\ \A e \in Device : e # d => log'[e] = log[e]
    BY <1>0, <1>1, <1>2 DEF SInv
<1>5. \A e \in DOMAIN sessions' :
          sessions'[e] \in Session /\ Matches(sessions'[e], log'[e]) /\ Tops(sessions'[e], log'[e])
    BY <1>2, <1>3, <1>4 DEF SInv
<1>6. \A e \in Device \ DOMAIN sessions' : log'[e] = << >>
    BY <1>3, <1>4 DEF SInv
<1>7. /\ events' \in [Device -> [opened : Nat, closed : Nat]]
      /\ events'[d].opened = events[d].opened + up /\ events'[d].closed = events[d].closed
      /\ \A e \in Device : e # d => events'[e] = events[e]
    <2>1. events[d] \in [opened : Nat, closed : Nat] /\ events \in [Device -> [opened : Nat, closed : Nat]]
        BY <1>0 DEF SInv
    <2>2. events[d].opened + up \in Nat
        BY <2>1 DEF Bit
    <2> HIDE DEF up
    <2>3. [events[d] EXCEPT !.opened = events[d].opened + up] \in [opened : Nat, closed : Nat]
        BY <2>1, <2>2
    <2> QED
        BY <1>0, <1>1, <2>1, <2>2, <2>3
<1>8. OpenCloseAlternate'
    <2> SUFFICES ASSUME NEW e \in Device
                 PROVE  events'[e].opened - events'[e].closed
                            = Bit(e \in DOMAIN sessions' /\ sessions'[e].open)
        BY DEF OpenCloseAlternate
    <2>1. events[e].opened - events[e].closed = Bit(e \in DOMAIN sessions /\ sessions[e].open)
          /\ events[e].opened \in Nat /\ events[e].closed \in Nat
        BY DEF SInv, OpenCloseAlternate
    <2>2. CASE e # d
        <3>1. events'[e] = events[e]
            BY <1>7, <2>2
        <3>2. (e \in DOMAIN sessions' /\ sessions'[e].open) <=> (e \in DOMAIN sessions /\ sessions[e].open)
            BY <1>3, <2>2
        <3> QED
            BY <2>1, <3>1, <3>2 DEF Bit
    <2>3. CASE e = d
        <3>1. Bit(d \in DOMAIN sessions' /\ sessions'[d].open) = 1
            BY <1>2, <1>3 DEF Bit
        <3>2. CASE known /\ sessions[d].open
            BY <1>7, <2>1, <2>3, <3>1, <3>2 DEF Bit
        <3>3. CASE ~(known /\ sessions[d].open)
            BY <1>7, <2>1, <2>3, <3>1, <3>3 DEF Bit
        <3> QED
            BY <3>2, <3>3
    <2> QED
        BY <2>2, <2>3
<1>9. DOMAIN sessions' \subseteq Device
    BY <1>0, <1>3 DEF SInv
<1> QED
    BY <1>4, <1>5, <1>6, <1>7, <1>8, <1>9 DEF SInv

\* expire_idle() closes sessions and changes no counter of theirs.
LEMMA ExpireKeeps ==
    ASSUME SInv, NEW now, ExpireIdle(now)
    PROVE  SInv'
<1> DEFINE idle == Idle(now)
<1>1. /\ sessions' = [d \in DOMAIN sessions |->
                         IF d \in idle THEN [sessions[d] EXCEPT !.open = FALSE] ELSE sessions[d]]
      /\ events' = [d \in Device |->
                       IF d \in idle THEN [events[d] EXCEPT !.closed = events[d].closed + 1] ELSE events[d]]
      /\ log' = log
    BY DEF ExpireIdle
<1>2. idle \subseteq DOMAIN sessions /\ \A d \in idle : sessions[d].open
    BY DEF Idle
<1> HIDE DEF idle
<1>3. DOMAIN sessions' = DOMAIN sessions
    BY <1>1
<1>4. ASSUME NEW d \in DOMAIN sessions
      PROVE  /\ sessions'[d] \in Session /\ Matches(sessions'[d], log[d]) /\ Tops(sessions'[d], log[d])
             /\ sessions'[d].open <=> d \notin idle /\ sessions[d].open
    <2>1. sessions[d] \in Session /\ Matches(sessions[d], log[d]) /\ Tops(sessions[d], log[d])
        BY DEF SInv
    <2>2. CASE d \notin idle
        <3>1. sessions'[d] = sessions[d]
            BY <1>1, <2>2
        <3> QED
            BY <2>1, <2>2, <3>1
    <2>3. CASE d \in idle
        <3> DEFINE s == sessions[d]
                   t == [s EXCEPT !.open = FALSE]
        <3>1. sessions'[d] = t
            BY <1>1, <2>3
        <3>2. /\ t \in Session /\ t.open = FALSE /\ t.last = s.last /\ t.last_time = s.last_time
              /\ t.first = s.first /\ t.packets = s.packets /\ t.duplicates = s.duplicates
              /\ t.gaps = s.gaps /\ t.regressions = s.regressions
            BY <2>1 DEF Session
        <3> HIDE DEF t
        <3>3. Matches(t, log[d]) /\ Tops(t, log[d])
            BY <2>1, <3>2 DEF Matches, Tops
        <3> QED
            BY <2>3, <3>1, <3>2, <3>3
    <2> QED
        BY <2>2, <2>3
<1>5. /\ events' \in [Device -> [opened : Nat, closed : Nat]]
      /\ \A d \in Device : /\ events'[d].opened = events[d].opened
                           /\ events'[d].closed = events[d].closed + Bit(d \in idle)
    <2>1. \A d \in Device : events[d] \in [opened : Nat, closed : Nat]
        BY DEF SInv
    <2>2. \A d \in Device : [events[d] EXCEPT !.closed = events[d].closed + 1] \in [opened : Nat, closed : Nat]
        BY <2>1
    <2>3. \A d \in Device : events'[d] = IF d \in idle THEN [events[d] EXCEPT !.closed = events[d].closed + 1]
                                         ELSE events[d]
        BY <1>1
    <2> QED
        BY <1>1, <2>1, <2>2, <2>3 DEF Bit
<1>6. OpenCloseAlternate'
    <2> SUFFICES ASSUME NEW d \in Device
                 PROVE  events'[d].opened - events'[d].closed
                            = Bit(d \in DOMAIN sessions' /\ sessions'[d].open)
        BY DEF OpenCloseAlternate
    <2>1. events[d].opened - events[d].closed = Bit(d \in DOMAIN sessions /\ sessions[d].open)
          /\ events[d].opened \in Nat /\ events[d].closed \in Nat
        BY DEF SInv, OpenCloseAlternate
    <2>2. CASE d \in idle
        <3>1. Bit(d \in DOMAIN sessions /\ sessions[d].open) = 1
              /\ Bit(d \in DOMAIN sessions' /\ sessions'[d].open) = 0 /\ Bit(d \in idle) = 1
            BY <1>2, <1>3, <1>4, <2>2 DEF Bit
        <3> QED
            BY <1>5, <2>1, <3>1
    <2>3. CASE d \notin idle
        <3>1. (d \in DOMAIN sessions' /\ sessions'[d].open) <=> (d \in DOMAIN sessions /\ sessions[d].open)
            BY <1>3, <1>4, <2>3
        <3>2. Bit(d \in DOMAIN sessions' /\ sessions'[d].open) = Bit(d \in DOMAIN sessions /\ sessions[d].open)
              /\ Bit(d \in idle) = 0
            BY <2>3, <3>1 DEF Bit
        <3> QED
            BY <1>5, <2>1, <3>2
    <2> QED
        BY <2>2, <2>3
<1> QED
    BY <1>1, <1>3, <1>4, <1>5, <1>6 DEF SInv

\* Every step of the tracker keeps the invariant.
LEMMA NextSInv == ASSUME SessionAssumption, SInv, [NextSessions]_sessionVars PROVE SInv'
<1>1. CASE \E p \in Packets, arrival \in Time : Observe(p, arrival)
    BY <1>1, ObserveKeeps
<1>2. CASE \E now \in Time : ExpireIdle(now)
    BY <1>2, ExpireKeeps
<1>3. CASE ClearSessions
    <2>1. DOMAIN sessions' = {}
        BY <1>3 DEF ClearSessions
    <2>2. log' \in [Device -> Seq(Packets)] /\ \A d \in Device : log'[d] = << >>
        BY <1>3 DEF ClearSessions
    <2>3. /\ events' \in [Device -> [opened : Nat, closed : Nat]]
          /\ \A d \in Device : events'[d].opened = 0 /\ events'[d].closed = 0
        BY <1>3 DEF ClearSessions, NoEvents
    <2>4. OpenCloseAlternate'
        BY <2>1, <2>3 DEF OpenCloseAlternate, Bit
    <2> QED
        BY <2>1, <2>2, <2>3, <2>4 DEF SInv
<1>4. CASE UNCHANGED sessionVars
    BY <1>4 DEF sessionVars, SInv, OpenCloseAlternate
<1> QED
    BY <1>1, <1>2, <1>3, <1>4 DEF NextSessions

\* The sessions and the events say what the packet logs say (SessionsSound): across
\* closing and reopening, and in whatever order the packets of any number of
\* devices arrive, no counter drifts from what the whole log shows, and opened and
\* closed events alternate.
THEOREM SessionsFollowLog == ASSUME SessionAssumption PROVE SessionSpec => []SessionsSound
<1>1. InitSessions => SInv
    BY NothingObserved DEF InitSessions
<1>2. SInv /\ [NextSessions]_sessionVars => SInv'
    BY NextSInv
<1>3. SInv => SessionsSound
    BY DEF SInv, SessionsSound, SessionMatchesLog
<1> QED
    BY <1>1, <1>2, <1>3, PTL DEF SessionSpec

-----------------------------------------------------------------------------
(* Collector.                                                              *)

Cell == [record : Nat, half : 1..2]

Summary == [count : Nat, first : Nat, last : Nat]

\* The cells of records 1, 2, 3, ... in order, the last one possibly torn.
InOrder(s) ==
    \A i \in Nat \ {0} :
        /\ 2 * i - 1 \in 1..Len(s) => s[2 * i - 1] = [record |-> i, half |-> 1]
        /\ 2 * i \in 1..Len(s) => s[2 * i] = [record |-> i, half |-> 2]

Written == file.cells \o out.cells

CTypeOK ==
    /\ process \in {"up", "done", "dead"}
    /\ cstats \in [DOMAIN ZeroCounts -> Nat]
    /\ summary \in Summary
    /\ out \in [cells : Seq(Cell), bad : BOOLEAN]
    /\ file \in [header : Summary, cells : Seq(Cell)]
    /\ records \in Seq(Nat)

\* The summary of the records given to append(), none of which failed.
SummaryExact ==
    /\ summary.count = Len(records) /\ cstats.archived = Len(records)
    /\ Len(records) = 0 => summary = NoSummary
    /\ Len(records) # 0 =>
          LET times == {records[i] : i \in 1..Len(records)}
          IN  /\ summary.first \in times /\ summary.last \in times
              /\ \A t \in times : summary.first <= t /\ t <= summary.last

\* A collector that is up has not closed its archive.
Running ==
    /\ file.header = NoSummary
    /\ out.bad => out.cells = << >>
    /\ ~out.bad => Len(Written) = 2 * Len(records) /\ SummaryExact

CInv ==
    /\ CTypeOK
    /\ InOrder(Written) /\ Len(Written) <= 2 * Len(records)
    /\ process = "up" => Running
    /\ process # "up" => out.cells = << >>
    /\ HeaderTruthful

-----------------------------------------------------------------------------
(* Cells.                                                                  *)

\* What comes first of cells in order is in order.
LEMMA PrefixInOrder ==
    ASSUME NEW s \in Seq(Cell), NEW t \in Seq(Cell), InOrder(s \o t), NEW n \in 0..Len(t)
    PROVE  InOrder(s \o SubSeq(t, 1, n)) /\ Len(s \o SubSeq(t, 1, n)) = Len(s) + n
<1> DEFINE w == s \o t
           v == s \o SubSeq(t, 1, n)
<1>1. Len(w) = Len(s) + Len(t) /\ Len(v) = Len(s) + n
    OBVIOUS
<1>2. \A j \in 1..Len(v) : j \in 1..Len(w) /\ v[j] = w[j]
    OBVIOUS
<1>3. InOrder(w)
    OBVIOUS
<1> HIDE DEF w, v
<1>4. InOrder(v)
    BY <1>2, <1>3 DEF InOrder
<1> QED
    BY <1>1, <1>4 DEF v

\* The record appended next keeps the order.
LEMMA NextRecordInOrder ==
    ASSUME NEW s \in Seq(Cell), NEW k \in Nat, InOrder(s), Len(s) = 2 * k
    PROVE  /\ Cells(k + 1) \in Seq(Cell) /\ Len(Cells(k + 1)) = 2
           /\ s \o Cells(k + 1) \in Seq(Cell) /\ InOrder(s \o Cells(k + 1))
           /\ Len(s \o Cells(k + 1)) = 2 * (k + 1)
<1> DEFINE c == Cells(k + 1)
           w == s \o c
<1>1. /\ c \in Seq(Cell) /\ Len(c) = 2
      /\ c[1] = [record |-> k + 1, half |-> 1] /\ c[2] = [record |-> k + 1, half |-> 2]
    BY DEF Cells, Cell
<1> HIDE DEF c
<1>2. /\ w \in Seq(Cell) /\ Len(w) = Len(s) + Len(c)
      /\ \A j \in 1..(Len(s) + Len(c)) : w[j] = IF j <= Len(s) THEN s[j] ELSE c[j - Len(s)]
    BY <1>1, ConcatProperties
<1> HIDE DEF w
<1>3. /\ Len(w) = 2 * k + 2 /\ \A j \in 1..(2 * k) : w[j] = s[j]
      /\ w[2 * k + 1] = c[1] /\ w[2 * k + 2] = c[2]
    <2>1. Len(w) = 2 * k + 2 /\ \A j \in 1..(2 * k) : w[j] = s[j]
        BY <1>1, <1>2
    <2>2. \A i \in 1..2 : w[Len(s) + i] = c[i]
        BY <1>1, <1>2
    <2> QED
        BY <2>1, <2>2
<1>4. InOrder(w)
    <2> SUFFICES ASSUME NEW i \in Nat \ {0}
                 PROVE  /\ 2 * i - 1 \in 1..Len(w) => w[2 * i - 1] = [record |-> i, half |-> 1]
                        /\ 2 * i \in 1..Len(w) => w[2 * i] = [record |-> i, half |-> 2]
        BY DEF InOrder
    <2>1. CASE i <= k
        <3>1. 2 * i - 1 \in 1..(2 * k) /\ 2 * i \in 1..(2 * k)
            BY <2>1
        <3> QED
            BY <1>3, <3>1 DEF InOrder
    <2>2. CASE i = k + 1
        BY <1>1, <1>3, <2>2
    <2>3. CASE i > k + 1
        BY <1>3, <2>3
    <2> QED
        BY <2>1, <2>2, <2>3
<1> QED
    BY <1>1, <1>2, <1>3, <1>4 DEF c, w

\* A reader of cells in order gets record 1, 2, 3, ... to the last whole one.
LEMMA ReaderInOrder ==
    ASSUME NEW s \in Seq(Cell), InOrder(s)
    PROVE  LET n == Len(s) \div 2
           IN  /\ n \in Nat /\ Len(s) - 2 * n \in {0, 1}
               /\ ReadBack(s) = [i \in 1..n |-> i]
<1> DEFINE n == Len(s) \div 2
           good == {i \in 0..n : \A j \in 1..i : WholeAt(s, j)}
<1>1. n \in Nat /\ 2 * n <= Len(s) /\ Len(s) < 2 * n + 2
    <2>1. \A l \in Nat : l \div 2 \in Nat /\ 2 * (l \div 2) <= l /\ l < 2 * (l \div 2) + 2
        OBVIOUS
    <2>2. Len(s) \in Nat
        OBVIOUS
    <2> QED
        BY <2>1, <2>2
<1> HIDE DEF n
<1>2. ASSUME NEW j \in 1..n
      PROVE  WholeAt(s, j) /\ s[2 * j].record = j
    <2>1. 2 * j \in 1..Len(s) /\ 2 * j - 1 \in 1..Len(s) /\ j \in Nat \ {0}
        BY <1>1
    <2>2. s[2 * j - 1] = [record |-> j, half |-> 1] /\ s[2 * j] = [record |-> j, half |-> 2]
        BY <2>1 DEF InOrder
    <2>3. s[2 * j].record = j
        BY <2>2
    <2> DEFINE u == SubSeq(s, 2 * j - 1, 2 * j)
               c == Cells(j)
    <2>4. u \in Seq(Cell) /\ Len(u) = 2 /\ u[1] = s[2 * j - 1] /\ u[2] = s[2 * j]
        <3> DEFINE a == 2 * j - 1
                   b == 2 * j
        <3>1. a \in 1..Len(s) /\ b = a + 1 /\ b \in 1..Len(s)
            BY <2>1
        <3> HIDE DEF a, b
        <3>2. /\ SubSeq(s, a, b) \in Seq(Cell) /\ Len(SubSeq(s, a, b)) = 2
              /\ SubSeq(s, a, b)[1] = s[a] /\ SubSeq(s, a, b)[2] = s[b]
            <4>1. \A i \in a..b : s[i] \in Cell
                BY <3>1
            <4>2. /\ SubSeq(s, a, b) \in Seq(Cell) /\ Len(SubSeq(s, a, b)) = 2
                  /\ \A i \in 1..(b - a + 1) : SubSeq(s, a, b)[i] = s[a + i - 1]
                BY <3>1, <4>1, SubSeqProperties
            <4>3. 1 \in 1..(b - a + 1) /\ 2 \in 1..(b - a + 1) /\ a + 1 - 1 = a /\ a + 2 - 1 = b
                BY <3>1
            <4> QED
                BY <4>2, <4>3
        <3> QED
            BY <3>2 DEF a, b
    <2>5. c \in Seq(Cell) /\ Len(c) = 2 /\ c[1] = s[2 * j - 1] /\ c[2] = s[2 * j]
        BY <2>1, <2>2 DEF Cells, Cell
    <2> HIDE DEF u, c
    <2>6. u = c
        <3>1. \A i \in 1..Len(u) : u[i] = c[i]
            BY <2>4, <2>5
        <3> QED
            BY <2>4, <2>5, <3>1, SeqEqual
    <2> QED
        BY <2>1, <2>3, <2>6 DEF WholeAt, u, c
<1>3. good = 0..n
    BY <1>1, <1>2
<1>4. (CHOOSE m \in good : \A k \in good : k <= m) = n
    <2> HIDE DEF good
    <2>1. n \in good /\ \A k \in good : k <= n
        BY <1>1, <1>3
    <2>2. \A m \in good : (\A k \in good : k <= m) => m = n
        BY <1>1, <1>3
    <2> QED
        BY <2>1, <2>2
<1>5. ReadBack(s) = [i \in 1..n |-> s[2 * i].record]
    BY <1>4 DEF ReadBack, n
<1>6. [i \in 1..n |-> s[2 * i].record] = [i \in 1..n |-> i]
    BY <1>2
<1>7. Len(s) - 2 * n \in {0, 1}
    BY <1>1
<1> QED
    BY <1>1, <1>5, <1>6, <1>7 DEF n
-----------------------------------------------------------------------------
(* Steps.                                                                  *)

\* accept() counts the packet, and counts it as archived where it says so.
LEMMA ReceiveCounts ==
    ASSUME CollectorAssumption, CTypeOK, NEW p \in Received, NEW changes, Receive(p, changes)
    PROVE  /\ process = "up" /\ cstats' \in [DOMAIN ZeroCounts -> Nat]
           /\ cstats'.archived = cstats.archived + (IF "archived" \in changes THEN 1 ELSE 0)
<1>1. p.warnings \in Nat /\ p.valid \in BOOLEAN
    BY DEF CollectorAssumption
<1>2. \A c \in DOMAIN ZeroCounts :
        cstats[c] + (IF c = "received" THEN 1 ELSE IF c \in changes THEN 1
                    ELSE IF c = "warnings" /\ p.valid THEN p.warnings ELSE 0) \in Nat
    BY <1>1 DEF CTypeOK
<1>3. process = "up" /\
      cstats' = [c \in DOMAIN ZeroCounts |->
                    cstats[c] + (IF c = "received" THEN 1 ELSE IF c \in changes THEN 1
                                ELSE IF c = "warnings" /\ p.valid THEN p.warnings ELSE 0)]
    BY DEF Receive, CTypeOK
<1> QED
    BY <1>2, <1>3 DEF ZeroCounts

\* Steps that leave the archive alone.
LEMMA NothingWritten ==
    ASSUME CInv, process = "up", process' = "up", cstats' \in [DOMAIN ZeroCounts -> Nat],
           cstats'.archived = cstats.archived, UNCHANGED <<summary, out, file, records>>
    PROVE  CInv'
<1>1. CTypeOK'
    BY DEF CInv, CTypeOK
<1>2. Written' = Written
    BY DEF Written
<1>3. Running'
    BY <1>2 DEF CInv, Running, SummaryExact
<1>4. HeaderTruthful'
    BY DEF CInv, Running, HeaderTruthful
<1> QED
    BY <1>1, <1>2, <1>3, <1>4 DEF CInv

\* Steps that end with a part of what was written in the file and nothing in a
\* failed stream, or the process gone: only the order matters.
LEMMA PrefixWritten ==
    ASSUME CInv, process = "up", NEW c \in Seq(Cell), InOrder(file.cells \o c), NEW n \in 0..Len(c),
           Len(file.cells) + n <= 2 * Len(records'), file' = Flushed(c, n),
           records' \in Seq(Nat), cstats' \in [DOMAIN ZeroCounts -> Nat], summary' = summary,
           out'.cells = << >>, out' \in [cells : Seq(Cell), bad : BOOLEAN],
           process' \in {"up", "done", "dead"}, process' = "up" => out'.bad
    PROVE  CInv'
<1>0. file \in [header : Summary, cells : Seq(Cell)] /\ file.header = NoSummary
    BY DEF CInv, CTypeOK, Running
<1> DEFINE v == file.cells \o SubSeq(c, 1, n)
<1>1. /\ v \in Seq(Cell) /\ InOrder(v) /\ Len(v) = Len(file.cells) + n
    BY <1>0, PrefixInOrder
<1>2. file' = [file EXCEPT !.cells = v]
    BY DEF Flushed
<1> HIDE DEF v
<1>3. file' \in [header : Summary, cells : Seq(Cell)] /\ file'.cells = v /\ file'.header = NoSummary
    BY <1>0, <1>1, <1>2
<1>4. CTypeOK'
    BY <1>3 DEF CInv, CTypeOK
<1>5. Written' = v
    BY <1>1, <1>3, ConcatEmptySeq DEF Written
<1>6. HeaderTruthful'
    BY <1>3 DEF HeaderTruthful
<1>7. process' = "up" => Running'
    BY <1>3 DEF Running
<1> QED
    BY <1>1, <1>4, <1>5, <1>6, <1>7 DEF CInv

\* The summary follows the records: ArchiveWriter::append keeps the earliest and
\* the latest capture time.
LEMMA SummaryFollows ==
    ASSUME CTypeOK, SummaryExact, NEW t \in Nat, summary' = SummaryWith(t), records' = Append(records, t),
           cstats'.archived = cstats.archived + 1
    PROVE  SummaryExact' /\ summary' \in Summary
<1> DEFINE n == Len(records)
<1>1. /\ n \in Nat /\ Len(records') = n + 1 /\ records'[n + 1] = t
      /\ \A i \in 1..n : records'[i] = records[i] /\ records[i] \in Nat
    BY DEF CTypeOK
<1>2. summary \in Summary /\ summary.count = n /\ cstats.archived = n
    BY DEF CTypeOK, SummaryExact
<1>3. CASE n = 0
    <2>1. summary' = [count |-> 1, first |-> t, last |-> t]
        BY <1>2, <1>3 DEF SummaryWith
    <2>2. \A i \in 1..Len(records') : records'[i] = t
        BY <1>1, <1>3
    <2>3. 1 \in 1..Len(records')
        BY <1>1
    <2> QED
        BY <1>1, <1>2, <1>3, <2>1, <2>2, <2>3 DEF SummaryExact, Summary
<1>4. CASE n # 0
    <2> DEFINE f == Lower(summary.first, t)
               l == Higher(summary.last, t)
               times == {records[i] : i \in 1..Len(records)}
               next == {records'[i] : i \in 1..Len(records')}
    <2>1. summary' = [count |-> n + 1, first |-> f, last |-> l]
        BY <1>2, <1>4 DEF SummaryWith
    <2>2. next = times \cup {t} /\ \A x \in times : x \in Nat
        BY <1>1
    <2>3. summary.first \in times /\ summary.last \in times
          /\ \A x \in times : summary.first <= x /\ x <= summary.last
        BY <1>4 DEF SummaryExact
    <2>4. summary'.count = n + 1 /\ summary'.first = f /\ summary'.last = l
        BY <2>1
    <2> HIDE DEF next, times
    <2>5. f \in next /\ l \in next /\ f \in Nat /\ l \in Nat /\ \A x \in next : f <= x /\ x <= l
        BY <2>2, <2>3 DEF Lower, Higher
    <2> HIDE DEF f, l
    <2>6. summary' \in Summary
        BY <1>1, <2>1, <2>5 DEF Summary
    <2>7. Len(records') # 0 /\ Len(records') = n + 1
        BY <1>1
    <2>8. SummaryExact'
        <3>1. summary'.count = Len(records') /\ cstats'.archived = Len(records')
            BY <1>2, <2>4, <2>7
        <3>2. /\ summary'.first \in next /\ summary'.last \in next
              /\ \A x \in next : summary'.first <= x /\ x <= summary'.last
            BY <2>4, <2>5
        <3> QED
            BY <2>7, <3>1, <3>2 DEF SummaryExact, next
    <2> QED
        BY <2>6, <2>8
<1> QED
    BY <1>3, <1>4
\* A collector that starts has written nothing.
LEMMA InitCInv == InitCollector => CInv
<1> SUFFICES ASSUME InitCollector PROVE CInv
    OBVIOUS
<1>1. /\ process = "up" /\ cstats = ZeroCounts /\ summary = NoSummary /\ records = << >>
      /\ out = [cells |-> << >>, bad |-> FALSE] /\ file = [header |-> NoSummary, cells |-> << >>]
    BY DEF InitCollector, NoOutput, EmptyFile
<1>2. CTypeOK
    BY <1>1 DEF CTypeOK, ZeroCounts, NoSummary, Summary
<1>3. Written = << >>
    BY <1>1 DEF Written
<1>4. InOrder(Written)
    BY <1>3 DEF InOrder
<1>5. SummaryExact
    BY <1>1 DEF SummaryExact, NoSummary, ZeroCounts
<1>6. Running
    BY <1>1, <1>3, <1>5 DEF Running
<1>7. HeaderTruthful
    BY <1>1 DEF HeaderTruthful
<1> QED
    BY <1>1, <1>2, <1>3, <1>4, <1>6, <1>7 DEF CInv

\* A collector that starts again truncates the file.
LEMMA RestartCInv == Restart => CInv'
<1> SUFFICES ASSUME Restart PROVE CInv'
    OBVIOUS
<1>1. /\ process' = "up" /\ cstats' = ZeroCounts /\ summary' = NoSummary /\ records' = << >>
      /\ out' = [cells |-> << >>, bad |-> FALSE] /\ file' = [header |-> NoSummary, cells |-> << >>]
    BY DEF Restart, NoOutput, EmptyFile
<1>2. CTypeOK'
    BY <1>1 DEF CTypeOK, ZeroCounts, NoSummary, Summary
<1>3. Written' = << >>
    BY <1>1 DEF Written
<1>4. InOrder(Written')
    BY <1>3 DEF InOrder
<1>5. SummaryExact'
    BY <1>1 DEF SummaryExact, NoSummary, ZeroCounts
<1>6. Running'
    BY <1>1, <1>3, <1>5 DEF Running
<1>7. HeaderTruthful'
    BY <1>1 DEF HeaderTruthful
<1> QED
    BY <1>1, <1>2, <1>3, <1>4, <1>6, <1>7 DEF CInv

\* The invariant is inductive.
LEMMA NextCInv == ASSUME CollectorAssumption, CInv, [NextCollector]_(collectorVars) PROVE CInv'
<1>0. /\ out \in [cells : Seq(Cell), bad : BOOLEAN] /\ file \in [header : Summary, cells : Seq(Cell)]
      /\ records \in Seq(Nat) /\ cstats \in [DOMAIN ZeroCounts -> Nat] /\ CTypeOK
      /\ \A p \in Received : p.time \in Nat
    BY DEF CInv, CTypeOK, CollectorAssumption
<1> DEFINE cs == out.cells
           r == Len(records)
           k == Cells(r + 1)
<1>1. cs \in Seq(Cell) /\ file.cells \in Seq(Cell) /\ r \in Nat /\ Len(Written) = Len(file.cells) + Len(cs)
      /\ Written \in Seq(Cell) /\ InOrder(Written) /\ Len(Written) <= 2 * r
    BY <1>0, ConcatProperties DEF Written, CInv
<1>a. /\ Len(file.cells) \in Nat /\ Len(cs) \in Nat /\ r \in Nat
      /\ Len(file.cells) + Len(cs) <= 2 * r
    <2>1. Len(file.cells) \in Nat /\ Len(cs) \in Nat
        BY <1>1, LenProperties
    <2> HIDE DEF cs, r
    <2> QED
        BY <1>1, <2>1
<1>2. ASSUME process = "up", ~out.bad
      PROVE  /\ k \in Seq(Cell) /\ Len(k) = 2 /\ cs \o k \in Seq(Cell) /\ Len(cs \o k) = Len(cs) + 2
             /\ file.cells \o (cs \o k) = Written \o k
             /\ InOrder(file.cells \o (cs \o k)) /\ Len(Written \o k) = 2 * (r + 1)
    <2>1. Len(Written) = 2 * r
        BY <1>2 DEF CInv, Running
    <2> HIDE DEF cs, r
    <2>2. k \in Seq(Cell) /\ Len(k) = 2 /\ InOrder(Written \o k) /\ Len(Written \o k) = 2 * (r + 1)
        BY <1>1, <2>1, NextRecordInOrder
    <2> HIDE DEF k
    <2> DEFINE h == file.cells
    <2>a. h \in Seq(Cell) /\ cs \in Seq(Cell) /\ k \in Seq(Cell) /\ Len(k) = 2
        BY <1>1, <2>2
    <2>3. (file.cells \o cs) \o k = file.cells \o (cs \o k)
        <3> HIDE DEF h
        <3>1. (h \o cs) \o k = h \o (cs \o k)
            BY <2>a, ConcatAssociative
        <3> QED
            BY <3>1 DEF h
    <2>4. cs \o k \in Seq(Cell) /\ Len(cs \o k) = Len(cs) + 2
        <3> HIDE DEF h
        <3>1. cs \o k \in Seq(Cell) /\ Len(cs \o k) = Len(cs) + Len(k)
            BY <2>a, ConcatProperties, Zenon
        <3> QED
            BY <2>a, <3>1
    <2>5. Written = file.cells \o cs
        BY DEF Written, cs
    <2> QED
        BY <2>2, <2>3, <2>4, <2>5
<1>3. ASSUME NEW p \in Received, AcceptRejected(p) PROVE CInv'
    <2>0. Receive(p, {"rejected"}) /\ ~("archived" \in {"rejected"}) /\ cstats.archived \in Nat
        BY <1>0, <1>3 DEF AcceptRejected, ZeroCounts
    <2>1. /\ process = "up" /\ cstats' \in [DOMAIN ZeroCounts -> Nat] /\ cstats'.archived = cstats.archived
        <3>1. /\ process = "up" /\ cstats' \in [DOMAIN ZeroCounts -> Nat]
              /\ cstats'.archived = cstats.archived + (IF "archived" \in {"rejected"} THEN 1 ELSE 0)
            BY <1>0, <2>0, ReceiveCounts, Zenon
        <3> QED
            BY <2>0, <3>1
    <2> QED
        BY <1>3, <2>1, NothingWritten DEF AcceptRejected
<1>4. ASSUME NEW p \in Received, NEW n \in 1..p.warnings, ThrowEarly(p, n) PROVE CInv'
    <2>1. /\ process = "up" /\ cstats' = [cstats EXCEPT !.received = @ + 1, !.warnings = @ + n]
          /\ n \in Nat
        BY <1>4 DEF ThrowEarly, CollectorAssumption
    <2> DEFINE s == [cstats EXCEPT !.received = @ + 1]
    <2>a. cstats \in [DOMAIN ZeroCounts -> Nat]
        BY <1>0
    <2>2. s \in [DOMAIN ZeroCounts -> Nat] /\ s.archived = cstats.archived /\ s.warnings = cstats.warnings
        BY <2>a DEF ZeroCounts
    <2>3. cstats' = [s EXCEPT !.warnings = @ + n]
        BY <1>0, <2>1 DEF ZeroCounts
    <2> HIDE DEF s
    <2>4. cstats' \in [DOMAIN ZeroCounts -> Nat] /\ cstats'.archived = cstats.archived
        BY <2>1, <2>2, <2>3 DEF ZeroCounts
    <2> QED
        BY <1>4, <2>1, <2>4, NothingWritten DEF ThrowEarly
<1>5. ASSUME NEW p \in Received, ThrowObserved(p) PROVE CInv'
    <2>1. /\ process = "up" /\ cstats' \in [DOMAIN ZeroCounts -> Nat] /\ cstats'.archived = cstats.archived
        BY <1>0, <1>5, ReceiveCounts DEF ThrowObserved, ZeroCounts
    <2> QED
        BY <1>5, <2>1, NothingWritten DEF ThrowObserved
<1>6. ASSUME NEW p \in Received, AcceptArchived(p) PROVE CInv'
    <2>1. /\ process = "up" /\ process' = "up" /\ ~out.bad /\ cstats' \in [DOMAIN ZeroCounts -> Nat]
          /\ cstats'.archived = cstats.archived + 1
        BY <1>0, <1>6, ReceiveCounts DEF AcceptArchived
    <2>2. /\ summary' = SummaryWith(p.time) /\ out' = [out EXCEPT !.cells = cs \o k] /\ file' = file
          /\ records' = Append(records, p.time)
        BY <1>6 DEF AcceptArchived, Appended
    <2>3. SummaryExact /\ file.header = NoSummary
        BY <2>1 DEF CInv, Running
    <2>4. SummaryExact' /\ summary' \in Summary
        BY <1>0, <2>1, <2>2, <2>3, SummaryFollows
    <2>5. records' \in Seq(Nat) /\ Len(records') = r + 1
        BY <1>0, <2>2
    <2>6. /\ cs \o k \in Seq(Cell) /\ InOrder(file.cells \o (cs \o k))
          /\ Len(file.cells \o (cs \o k)) = 2 * (r + 1)
        BY <1>2, <2>1
    <2> HIDE DEF cs, k, r
    <2>7. out' \in [cells : Seq(Cell), bad : BOOLEAN] /\ out'.cells = cs \o k /\ ~out'.bad
        BY <1>0, <2>1, <2>2, <2>6
    <2>8. Written' = file.cells \o (cs \o k)
        BY <2>2, <2>7 DEF Written
    <2>9. CTypeOK'
        BY <1>0, <2>1, <2>2, <2>4, <2>5, <2>7 DEF CTypeOK
    <2>10. HeaderTruthful'
        BY <2>2, <2>3 DEF HeaderTruthful
    <2>11. Len(Written') = 2 * Len(records') /\ InOrder(Written')
        BY <2>5, <2>6, <2>8
    <2>12. Running'
        BY <2>2, <2>3, <2>4, <2>7, <2>11 DEF Running
    <2>13. Len(Written') <= 2 * Len(records')
        BY <1>1, <2>5, <2>11
    <2> QED
        BY <2>1, <2>9, <2>10, <2>11, <2>12, <2>13 DEF CInv
<1>7. ASSUME NEW p \in Received, NEW n \in 0..(2 * MaxReceived), AppendFails(p, n) PROVE CInv'
    <2>1. /\ process = "up" /\ process' = "up" /\ cstats' \in [DOMAIN ZeroCounts -> Nat]
        BY <1>0, <1>7, ReceiveCounts DEF AppendFails
    <2>2. /\ n \in 0..(IF out.bad THEN 0 ELSE Len(cs \o k) - 1) /\ file' = Flushed(cs \o k, n)
          /\ out' = [cells |-> << >>, bad |-> TRUE] /\ records' = Append(records, p.time)
          /\ summary' = summary
        BY <1>7 DEF AppendFails
    <2>3. records' \in Seq(Nat) /\ Len(records') = r + 1
        BY <1>0, <2>2
    <2>4. /\ out'.cells = << >> /\ out'.bad /\ out' \in [cells : Seq(Cell), bad : BOOLEAN]
        BY <2>2
    <2>5. CASE ~out.bad
        <3>1. /\ cs \o k \in Seq(Cell) /\ Len(cs \o k) = Len(cs) + 2
              /\ InOrder(file.cells \o (cs \o k))
            BY <1>2, <2>1, <2>5
        <3> HIDE DEF cs, k, r
        <3>2. n \in 0..Len(cs \o k) /\ Len(file.cells) + n <= 2 * Len(records')
            BY <1>1, <2>2, <2>3, <2>5, <3>1
        <3> QED
            BY <2>1, <2>2, <2>3, <2>4, <3>1, <3>2, PrefixWritten
    <2>6. CASE out.bad
        <3>1. cs = << >> /\ n = 0
            BY <2>1, <2>2, <2>6 DEF CInv, Running
        <3>2. Written = file.cells /\ SubSeq(cs \o k, 1, n) = SubSeq(cs, 1, n)
            <4>1. SubSeq(cs \o k, 1, 0) = << >> /\ SubSeq(cs, 1, 0) = << >>
                BY SubSeqEmpty
            <4>2. Written = file.cells
                BY <1>1, <3>1, ConcatEmptySeq DEF Written
            <4> QED
                BY <3>1, <4>1, <4>2
        <3>3. file' = Flushed(cs, n)
            BY <2>2, <3>2 DEF Flushed
        <3> HIDE DEF k, r
        <3>4. /\ n \in 0..Len(cs) /\ Len(file.cells) + n <= 2 * Len(records')
              /\ InOrder(file.cells \o cs)
            BY <1>1, <2>3, <3>1, <3>2 DEF Written
        <3> HIDE DEF cs
        <3> QED
            BY <1>1, <2>1, <2>2, <2>3, <2>4, <3>3, <3>4, PrefixWritten
    <2> QED
        BY <1>0, <2>5, <2>6
<1>8. ASSUME NEW n \in 1..(2 * MaxReceived), Flush(n) PROVE CInv'
    <2> DEFINE a == SubSeq(cs, 1, n)
               b == SubSeq(cs, n + 1, Len(cs))
    <2>1. /\ process = "up" /\ process' = "up" /\ n \in 1..Len(cs) /\ file' = [file EXCEPT !.cells = @ \o a]
          /\ out' = [out EXCEPT !.cells = b] /\ UNCHANGED <<cstats, summary, records>>
        BY <1>8 DEF Flush, Flushed
    <2> HIDE DEF cs
    <2>a. cs \in Seq(Cell) /\ n \in 1..Len(cs) /\ Len(cs) \in Nat
        BY <1>1, <2>1
    <2>b. /\ a \in Seq(Cell) /\ Len(a) = n /\ \A i \in 1..n : a[i] = cs[i]
          /\ b \in Seq(Cell) /\ Len(b) = Len(cs) - n
          /\ \A i \in 1..(Len(cs) - n) : b[i] = cs[n + i]
        BY <2>a
    <2> DEFINE h == file.cells
    <2>c. h \in Seq(Cell)
        BY <1>1
    <2> HIDE DEF a, b, h
    <2>2. a \o b = cs
        <3>1. a \o b \in Seq(Cell) /\ Len(a \o b) = Len(cs)
            BY <2>a, <2>b, ConcatProperties
        <3>2. \A i \in 1..Len(cs) : (a \o b)[i] = cs[i]
            <4> SUFFICES ASSUME NEW i \in 1..Len(cs) PROVE (a \o b)[i] = cs[i]
                OBVIOUS
            <4>1. \A j \in 1..(Len(a) + Len(b)) : (a \o b)[j] = IF j <= Len(a) THEN a[j] ELSE b[j - Len(a)]
                BY <2>b, ConcatProperties
            <4>2. CASE i <= n
                BY <2>a, <2>b, <4>1, <4>2
            <4>3. CASE ~(i <= n)
                <5>1. i - n \in 1..(Len(cs) - n) /\ n + (i - n) = i
                    BY <2>a, <4>3
                <5>2. i \in 1..(Len(a) + Len(b)) /\ ~(i <= Len(a))
                    BY <2>a, <2>b, <4>3
                <5>3. (a \o b)[i] = b[i - n]
                    BY <2>b, <4>1, <5>2
                <5>4. b[i - n] = cs[n + (i - n)]
                    BY <2>b, <5>1
                <5> QED
                    BY <5>1, <5>3, <5>4
            <4> QED
                BY <4>2, <4>3
        <3> QED
            BY <2>a, <3>1, <3>2, SeqEqual
    <2>3. (file.cells \o a) \o b = file.cells \o cs /\ file.cells \o a \in Seq(Cell)
        <3>1. (h \o a) \o b = h \o (a \o b)
            BY <2>b, <2>c, ConcatAssociative
        <3>2. h \o a \in Seq(Cell)
            BY <2>b, <2>c, ConcatProperties
        <3> QED
            BY <2>2, <3>1, <3>2 DEF h
    <2>4. /\ file' \in [header : Summary, cells : Seq(Cell)] /\ file'.header = file.header
          /\ file'.cells = file.cells \o a
          /\ out' \in [cells : Seq(Cell), bad : BOOLEAN] /\ out'.cells = b /\ out'.bad = out.bad
        BY <1>0, <2>1, <2>b, <2>3
    <2>5. Written' = Written
        BY <2>3, <2>4 DEF Written, cs
    <2>6. Running /\ file.header = NoSummary /\ ~out.bad
        <3>1. Running
            BY <2>1 DEF CInv
        <3>2. cs # << >>
            BY <2>a
        <3> QED
            BY <3>1, <3>2 DEF Running, cs
    <2>7. Running'
        BY <2>1, <2>4, <2>5, <2>6 DEF Running, SummaryExact
    <2>8. HeaderTruthful'
        BY <2>4, <2>6 DEF HeaderTruthful
    <2>9. CTypeOK'
        BY <2>1, <2>4 DEF CTypeOK, CInv
    <2> QED
        BY <1>1, <2>1, <2>5, <2>7, <2>8, <2>9 DEF CInv
<1>9. ASSUME Destroy PROVE CInv'
    <2>1. /\ process = "up" /\ ~out.bad /\ process' = "done" /\ file' = [header |-> summary, cells |-> Written]
          /\ out' = [out EXCEPT !.cells = << >>] /\ UNCHANGED <<cstats, summary, records>>
        BY <1>9 DEF Destroy, Written
    <2>2. SummaryExact /\ Len(Written) = 2 * r
        BY <2>1 DEF CInv, Running
    <2>a. summary \in Summary /\ Written \in Seq(Cell) /\ << >> \in Seq(Cell)
        BY <1>0, <1>1 DEF CTypeOK
    <2>b. /\ file' \in [header : Summary, cells : Seq(Cell)]
          /\ file'.cells = Written /\ file'.header = summary
        BY <2>1, <2>a
    <2>c. out' \in [cells : Seq(Cell), bad : BOOLEAN] /\ out'.cells = << >>
        BY <1>0, <2>1, <2>a
    <2>3. CTypeOK' /\ out'.cells = << >> /\ file'.cells = Written /\ file'.header = summary
        BY <1>0, <2>1, <2>b, <2>c DEF CTypeOK
    <2>4. Written' = Written
        BY <1>1, <2>3, ConcatEmptySeq DEF Written
    <2>5. Readable' = [i \in 1..r |-> i]
        <3> DEFINE m == Len(file'.cells) \div 2
        <3>1. m = r
            BY <1>1, <2>2, <2>3
        <3>2. Readable' = [i \in 1..m |-> i]
            BY <1>1, <2>3, ReaderInOrder DEF Readable
        <3> QED
            BY <3>1, <3>2
    <2>6. DOMAIN Readable' = 1..r /\ Len(Readable') = r /\ records' = records
        BY <1>1, <2>1, <2>5
    <2>7. HeaderTruthful'
        <3>1. CASE r = 0
            BY <2>2, <2>3, <3>1 DEF SummaryExact, HeaderTruthful
        <3>2. CASE r # 0
            BY <2>1, <2>2, <2>3, <2>6, <3>2 DEF SummaryExact, HeaderTruthful
        <3> QED
            BY <3>1, <3>2
    <2> QED
        BY <1>1, <2>1, <2>3, <2>4, <2>7 DEF CInv
<1>10. ASSUME NEW n \in 0..(2 * MaxReceived), DestroyFails(n) PROVE CInv'
    <2>1. /\ process = "up" /\ n \in 0..Len(cs) /\ process' = "done" /\ file' = Flushed(cs, n)
          /\ out' = [cells |-> << >>, bad |-> TRUE] /\ UNCHANGED <<cstats, summary, records>>
        BY <1>10 DEF DestroyFails
    <2>2. InOrder(file.cells \o cs) /\ Len(file.cells) + n <= 2 * Len(records')
        <3>1. InOrder(file.cells \o cs)
            BY <1>1 DEF Written
        <3>2. /\ Len(file.cells) \in Nat /\ Len(cs) \in Nat /\ r \in Nat
              /\ Len(file.cells) + Len(cs) <= 2 * r
            BY <1>a
        <3>3. n \in 0..Len(cs) /\ Len(records') = r
            BY <2>1
        <3> HIDE DEF cs, r
        <3>4. Len(file.cells) + n <= 2 * r
            BY <3>2, <3>3
        <3> QED
            BY <3>1, <3>3, <3>4
    <2>3. out'.cells = << >> /\ out' \in [cells : Seq(Cell), bad : BOOLEAN]
        BY <2>1
    <2> HIDE DEF cs
    <2> QED
        BY <1>0, <1>1, <2>1, <2>2, <2>3, PrefixWritten
<1>11. ASSUME Crash PROVE CInv'
    <2>1. /\ process = "up" /\ process' = "dead" /\ out' = [out EXCEPT !.cells = << >>]
          /\ UNCHANGED <<cstats, summary, file, records>>
        BY <1>11 DEF Crash
    <2>2. InOrder(file.cells \o cs) /\ Len(file.cells) + 0 <= 2 * Len(records')
        <3>1. InOrder(file.cells \o cs)
            BY <1>1 DEF Written
        <3>2. /\ Len(file.cells) \in Nat /\ Len(cs) \in Nat /\ r \in Nat
              /\ Len(file.cells) + Len(cs) <= 2 * r
            BY <1>a
        <3>3. Len(records') = r
            BY <2>1
        <3> HIDE DEF cs, r
        <3>4. Len(file.cells) + 0 <= 2 * r
            BY <3>2
        <3> QED
            BY <3>1, <3>3, <3>4
    <2>a. << >> \in Seq(Cell)
        OBVIOUS
    <2>3. out'.cells = << >> /\ out' \in [cells : Seq(Cell), bad : BOOLEAN]
        BY <1>0, <2>1, <2>a
    <2>4. file' = Flushed(cs, 0)
        <3>1. SubSeq(cs, 1, 0) = << >>
            BY SubSeqEmpty
        <3>2. file.cells \o << >> = file.cells
            BY <1>1, ConcatEmptySeq
        <3> QED
            BY <1>0, <2>1, <3>1, <3>2 DEF Flushed
    <2>5. 0 \in 0..Len(cs)
        BY <1>1
    <2> HIDE DEF cs
    <2> QED
        BY <1>0, <1>1, <2>1, <2>2, <2>3, <2>4, <2>5, PrefixWritten
<1>12. ASSUME Restart PROVE CInv'
    BY <1>12, RestartCInv
<1>13. ASSUME UNCHANGED collectorVars PROVE CInv'
    <2>1. UNCHANGED <<process, cstats, summary, out, file, records>>
        BY <1>13 DEF collectorVars
    <2>2. CTypeOK' /\ Written' = Written
        BY <1>0, <2>1 DEF CTypeOK, Written
    <2>3. process' = "up" => Running'
        BY <2>1, <2>2 DEF CInv, Running, SummaryExact
    <2>4. HeaderTruthful'
        BY <2>1 DEF CInv, HeaderTruthful, Readable
    <2> QED
        BY <1>1, <2>1, <2>2, <2>3, <2>4 DEF CInv
<1> QED
    BY <1>3, <1>4, <1>5, <1>6, <1>7, <1>8, <1>9, <1>10, <1>11, <1>12, <1>13 DEF NextCollector

\* Whatever failed, threw or crashed, and however the stream flushed: a reader
\* gets the records given to append() in order and without a hole up to the last
\* one that is whole in the file, and the header written by close() promises
\* exactly those, with their earliest and latest time: for any packets.
THEOREM ArchiveTrue == ASSUME CollectorAssumption PROVE CollectorSpec => []ArchiveTruthful
<1>1. InitCollector => CInv
    BY InitCInv
<1>2. CInv /\ [NextCollector]_(collectorVars) => CInv'
    BY NextCInv
<1>3. CInv => ArchiveTruthful
    <2> SUFFICES ASSUME CInv PROVE ReadsPrefix
        BY DEF CInv, ArchiveTruthful
    <2> DEFINE n == Len(file.cells) \div 2
    <2>1. /\ file.cells \in Seq(Cell) /\ out.cells \in Seq(Cell) /\ InOrder(file.cells \o out.cells)
          /\ records \in Seq(Nat)
        BY DEF CInv, CTypeOK, Written
    <2>2. Len(file.cells) <= 2 * Len(records)
        <3>1. Len(file.cells \o out.cells) <= 2 * Len(records)
            BY DEF CInv, Written
        <3>2. Len(file.cells \o out.cells) = Len(file.cells) + Len(out.cells)
            BY <2>1, ConcatProperties
        <3>3. Len(file.cells) \in Nat /\ Len(out.cells) \in Nat /\ Len(records) \in Nat
            BY <2>1
        <3> DEFINE x == Len(file.cells)
                   y == Len(out.cells)
                   z == Len(records)
                   w == Len(file.cells \o out.cells)
        <3>4. w <= 2 * z /\ w = x + y /\ x \in Nat /\ y \in Nat /\ z \in Nat
            BY <3>1, <3>2, <3>3
        <3> HIDE DEF x, y, z, w
        <3>5. x <= 2 * z
            BY <3>4
        <3> QED
            BY <3>5 DEF x, z
    <2>3. InOrder(file.cells)
        <3>1. SubSeq(out.cells, 1, 0) = << >>
            BY SubSeqEmpty
        <3>2. file.cells \o << >> = file.cells
            BY <2>1, ConcatEmptySeq
        <3>3. 0 \in 0..Len(out.cells)
            BY <2>1
        <3> QED
            BY <2>1, <3>1, <3>2, <3>3, PrefixInOrder
    <2>4. n \in Nat /\ Len(file.cells) - 2 * n \in {0, 1} /\ Readable = [i \in 1..n |-> i]
        BY <2>1, <2>3, ReaderInOrder DEF Readable
    <2>5. Len(file.cells) \in Nat /\ Len(records) \in Nat
        BY <2>1
    <2> HIDE DEF n
    <2>6. Len(Readable) = n /\ DOMAIN Readable = 1..n /\ \A i \in 1..n : Readable[i] = i
        BY <2>4
    <2>7. n <= Len(records)
        BY <2>2, <2>4, <2>5
    <2> QED
        BY <2>4, <2>6, <2>7 DEF ReadsPrefix
<1> QED
    BY <1>1, <1>2, <1>3, PTL DEF CollectorSpec

-----------------------------------------------------------------------------
(* IngestQueue: operators over the queue's value.                          *)

Sizes(q) == [i \in DOMAIN q |-> q[i].size]

Payload(q) == SumFunctionOnSet(Sizes(q), DOMAIN q)

Mine(q, d) == {i \in DOMAIN q : q[i].device = d}

CutOut(q, i) == SubSeq(q, 1, i - 1) \o SubSeq(q, i + 1, Len(q))

\* A queue's positions: finitely many, with payloads that are natural numbers.
LEMMA QueueShape ==
    ASSUME NEW q \in Seq(IngestEnvelope)
    PROVE  /\ Len(q) \in Nat /\ DOMAIN q = 1..Len(q) /\ IsFiniteSet(DOMAIN q)
           /\ \A i \in DOMAIN q : q[i] \in IngestEnvelope /\ Sizes(q)[i] = q[i].size /\ Sizes(q)[i] \in Nat
           /\ Payload(q) \in Nat
           /\ \A d : IsFiniteSet(Mine(q, d)) /\ Cardinality(Mine(q, d)) \in Nat
<1>1. Len(q) \in Nat /\ DOMAIN q = 1..Len(q) /\ \A i \in DOMAIN q : q[i] \in IngestEnvelope
    BY LenProperties
<1>2. IsFiniteSet(DOMAIN q)
    BY <1>1, FS_Interval
<1>3. \A i \in DOMAIN q : Sizes(q)[i] = q[i].size /\ Sizes(q)[i] \in Nat
    BY <1>1 DEF Sizes, IngestEnvelope
<1>4. Payload(q) \in Nat
    BY <1>2, <1>3, SumTyped DEF Payload
<1>5. ASSUME NEW d PROVE IsFiniteSet(Mine(q, d)) /\ Cardinality(Mine(q, d)) \in Nat
    <2>1. Mine(q, d) \in SUBSET DOMAIN q
        BY DEF Mine
    <2> QED
        BY <1>2, <2>1, FS_Subset, FS_CardinalityType
<1> QED
    BY <1>1, <1>2, <1>3, <1>4, <1>5

\* insert(): one packet more, with its payload, for its device.
LEMMA Inserted ==
    ASSUME NEW q \in Seq(IngestEnvelope), NEW e \in IngestEnvelope
    PROVE  /\ Append(q, e) \in Seq(IngestEnvelope) /\ Len(Append(q, e)) = Len(q) + 1
           /\ Payload(Append(q, e)) = Payload(q) + e.size
           /\ \A d : Cardinality(Mine(Append(q, e), d)) =
                        IF e.device = d THEN Cardinality(Mine(q, d)) + 1 ELSE Cardinality(Mine(q, d))
<1> DEFINE p == Append(q, e)
           n == Len(q) + 1
<1>1. /\ p \in Seq(IngestEnvelope) /\ Len(p) = n /\ p[n] = e /\ \A i \in 1..Len(q) : p[i] = q[i]
    BY AppendProperties
<1>2. /\ Len(q) \in Nat /\ DOMAIN q = 1..Len(q) /\ IsFiniteSet(DOMAIN q) /\ n \notin DOMAIN q
      /\ \A i \in DOMAIN q : Sizes(q)[i] = q[i].size /\ Sizes(q)[i] \in Nat
    BY QueueShape
<1> HIDE DEF p
<1>3. DOMAIN p = DOMAIN q \cup {n} /\ \A i \in DOMAIN p : Sizes(p)[i] = p[i].size /\ Sizes(p)[i] \in Nat
    <2>1. /\ DOMAIN p = 1..Len(p)
          /\ \A i \in DOMAIN p : Sizes(p)[i] = p[i].size /\ Sizes(p)[i] \in Nat
        BY <1>1, QueueShape
    <2>2. 1..n = 1..Len(q) \cup {n}
        BY <1>2
    <2> QED
        BY <1>1, <1>2, <2>1, <2>2
<1>4. \A i \in DOMAIN q : p[i] = q[i]
    BY <1>1, <1>2
<1> HIDE DEF n
<1>5. SumFunctionOnSet(Sizes(p), DOMAIN q \cup {n}) = Sizes(p)[n] + SumFunctionOnSet(Sizes(p), DOMAIN q)
    BY <1>2, <1>3, SumAdd
<1>6. SumFunctionOnSet(Sizes(p), DOMAIN q) = SumFunctionOnSet(Sizes(q), DOMAIN q)
    <2>1. \A i \in DOMAIN q : Sizes(p)[i] = Sizes(q)[i]
        BY <1>2, <1>3, <1>4
    <2> QED
        BY <1>2, <2>1, SumSame
<1>7. Payload(p) = Payload(q) + e.size
    <2>1. Payload(q) \in Nat /\ Sizes(p)[n] = e.size /\ e.size \in Nat
        BY <1>1, <1>3, QueueShape DEF IngestEnvelope
    <2>2. Payload(p) = Sizes(p)[n] + Payload(q)
        BY <1>3, <1>5, <1>6 DEF Payload
    <2> QED
        BY <2>1, <2>2
<1>8. ASSUME NEW d
      PROVE  Cardinality(Mine(p, d)) = IF e.device = d THEN Cardinality(Mine(q, d)) + 1 ELSE Cardinality(Mine(q, d))
    <2>1. Mine(p, d) = IF e.device = d THEN Mine(q, d) \cup {n} ELSE Mine(q, d)
        BY <1>1, <1>2, <1>3, <1>4 DEF Mine
    <2>2. IsFiniteSet(Mine(q, d)) /\ n \notin Mine(q, d)
        BY <1>2, QueueShape DEF Mine
    <2> QED
        BY <2>1, <2>2, FS_AddElement
<1> QED
    BY <1>1, <1>7, <1>8 DEF p, n

\* A part of the queue.
LEMMA PartOfQueue ==
    ASSUME NEW q \in Seq(IngestEnvelope), NEW m \in Int, NEW k \in Int, m >= 1, k <= Len(q)
    PROVE  /\ SubSeq(q, m, k) \in Seq(IngestEnvelope)
           /\ Len(SubSeq(q, m, k)) = IF m <= k THEN k - m + 1 ELSE 0
           /\ \A j \in 1..(k - m + 1) : SubSeq(q, m, k)[j] = q[m + j - 1]
<1>1. \A j \in m..k : q[j] \in IngestEnvelope
    BY QueueShape
<1> QED
    BY <1>1, SubSeqProperties

\* remove_at(): the packets behind the one removed move up.
LEMMA CutShape ==
    ASSUME NEW q \in Seq(IngestEnvelope), NEW i \in DOMAIN q
    PROVE  /\ CutOut(q, i) \in Seq(IngestEnvelope) /\ Len(CutOut(q, i)) = Len(q) - 1
           /\ \A j \in 1..(Len(q) - 1) : CutOut(q, i)[j] = q[IF j < i THEN j ELSE j + 1]
<1> DEFINE n == Len(q)
           a == SubSeq(q, 1, i - 1)
           b == SubSeq(q, i + 1, n)
<1>1. n \in Nat /\ DOMAIN q = 1..n /\ i \in Int /\ 1 <= i /\ i <= n /\ \A j \in 1..n : q[j] \in IngestEnvelope
    BY QueueShape
<1> HIDE DEF n
<1>2. a \in Seq(IngestEnvelope) /\ Len(a) = i - 1 /\ \A j \in 1..(i - 1) : a[j] = q[j]
    <2> DEFINE m == 1
               k == i - 1
    <2>1. m \in Int /\ k \in Int /\ m >= 1 /\ k <= Len(q) /\ m = 1 /\ k = i - 1
        BY <1>1 DEF n
    <2> HIDE DEF m, k
    <2>2. /\ SubSeq(q, m, k) \in Seq(IngestEnvelope) /\ Len(SubSeq(q, m, k)) = IF m <= k THEN k - m + 1 ELSE 0
          /\ \A j \in 1..(k - m + 1) : SubSeq(q, m, k)[j] = q[m + j - 1]
        BY <2>1, PartOfQueue
    <2>3. a = SubSeq(q, m, k)
        BY <2>1
    <2> HIDE DEF a
    <2> QED
        BY <1>1, <2>1, <2>2, <2>3
<1>3. b \in Seq(IngestEnvelope) /\ Len(b) = n - i /\ \A j \in 1..(n - i) : b[j] = q[i + j]
    <2> DEFINE m == i + 1
    <2>1. m \in Int /\ n \in Int /\ m >= 1 /\ n <= Len(q) /\ m = i + 1
        BY <1>1 DEF n
    <2> HIDE DEF m
    <2>2. /\ SubSeq(q, m, n) \in Seq(IngestEnvelope) /\ Len(SubSeq(q, m, n)) = IF m <= n THEN n - m + 1 ELSE 0
          /\ \A j \in 1..(n - m + 1) : SubSeq(q, m, n)[j] = q[m + j - 1]
        BY <2>1, PartOfQueue
    <2>3. b = SubSeq(q, m, n)
        BY <2>1
    <2> HIDE DEF b
    <2> QED
        BY <1>1, <2>1, <2>2, <2>3
<1> HIDE DEF a, b
<1>4. /\ a \o b \in Seq(IngestEnvelope) /\ Len(a \o b) = Len(a) + Len(b)
      /\ \A j \in 1..(Len(a) + Len(b)) : (a \o b)[j] = IF j <= Len(a) THEN a[j] ELSE b[j - Len(a)]
    BY <1>2, <1>3, ConcatProperties
<1>5. \A j \in 1..(n - 1) : (a \o b)[j] = q[IF j < i THEN j ELSE j + 1]
    <2> SUFFICES ASSUME NEW j \in 1..(n - 1) PROVE (a \o b)[j] = q[IF j < i THEN j ELSE j + 1]
        OBVIOUS
    <2>1. (a \o b)[j] = IF j <= i - 1 THEN a[j] ELSE b[j - (i - 1)]
        BY <1>1, <1>2, <1>3, <1>4
    <2>2. CASE j < i
        BY <1>1, <1>2, <2>1, <2>2
    <2>3. CASE ~(j < i)
        <3>1. j - (i - 1) \in 1..(n - i) /\ i + (j - (i - 1)) = j + 1 /\ ~(j <= i - 1)
            BY <1>1, <2>3
        <3> QED
            BY <1>3, <2>1, <2>3, <3>1
    <2> QED
        BY <2>2, <2>3
<1>6. a \o b \in Seq(IngestEnvelope) /\ Len(a \o b) = n - 1
    BY <1>1, <1>2, <1>3, <1>4
<1> QED
    BY <1>5, <1>6 DEF CutOut, a, b, n

\* The packets that are left, each at the position it had.
Before(q, i) == [j \in DOMAIN CutOut(q, i) |-> IF j < i THEN j ELSE j + 1]

\* Removing a packet takes its payload, and one packet of its device.
LEMMA Removes ==
    ASSUME NEW q \in Seq(IngestEnvelope), NEW i \in DOMAIN q
    PROVE  /\ Payload(q) = q[i].size + Payload(CutOut(q, i))
           /\ \A d : Cardinality(Mine(q, d)) =
                        IF q[i].device = d THEN Cardinality(Mine(CutOut(q, i), d)) + 1
                                           ELSE Cardinality(Mine(CutOut(q, i), d))
<1> DEFINE r == CutOut(q, i)
           n == Len(q)
           b == Before(q, i)
           D == DOMAIN r
           E == DOMAIN q \ {i}
<1>1. /\ r \in Seq(IngestEnvelope) /\ Len(r) = n - 1
      /\ \A j \in 1..(n - 1) : r[j] = q[IF j < i THEN j ELSE j + 1]
    BY CutShape
<1>2. n \in Nat /\ DOMAIN q = 1..n /\ IsFiniteSet(DOMAIN q) /\ i \in Int /\ 1 <= i /\ i <= n
    BY QueueShape
<1>3. D = 1..(n - 1) /\ IsFiniteSet(D)
    BY <1>1, QueueShape
<1>4. \A j \in D : b[j] = (IF j < i THEN j ELSE j + 1) /\ b[j] \in E /\ q[b[j]] = r[j]
    BY <1>1, <1>2, <1>3 DEF Before
<1>5. \A j, k \in D : b[j] = b[k] => j = k
    BY <1>2, <1>3, <1>4
<1>6. \A k \in E : \E j \in D : b[j] = k
    <2> SUFFICES ASSUME NEW k \in E PROVE \E j \in D : b[j] = k
        OBVIOUS
    <2>1. CASE k < i
        BY <1>2, <1>3, <1>4, <2>1
    <2>2. CASE k > i
        <3>1. k - 1 \in D /\ ~(k - 1 < i)
            BY <1>2, <1>3, <2>2
        <3>2. b[k - 1] = k
            BY <1>2, <1>4, <3>1
        <3> QED
            BY <3>1, <3>2
    <2> QED
        BY <1>2, <2>1, <2>2
<1>7. b = [j \in D |-> b[j]] /\ b \in [D -> E]
    BY <1>4 DEF Before
<1>8. /\ \A j \in DOMAIN q : Sizes(q)[j] = q[j].size /\ Sizes(q)[j] \in Nat
      /\ \A j \in D : Sizes(r)[j] = r[j].size /\ Sizes(r)[j] \in Nat
    BY <1>1, QueueShape
<1> HIDE DEF r, n, b, D, E
<1>9. b \in Bijection(D, E)
    BY <1>5, <1>6, <1>7 DEF Bijection, Injection, Surjection, IsInjective
<1>10. SumFunctionOnSet(Sizes(r), D) = SumFunctionOnSet(Sizes(q), E)
    <2>1. \A j \in D : Sizes(r)[j] = Sizes(q)[b[j]] /\ Sizes(r)[j] \in Nat
        BY <1>4, <1>8 DEF E
    <2> DEFINE f == Sizes(r)
               g == Sizes(q)
    <2>2. IsFiniteSet(D) /\ (\A j \in D : f[j] = g[b[j]]) /\ (\A j \in D : f[j] \in Nat)
        BY <1>3, <2>1
    <2> HIDE DEF f, g
    <2>3. SumFunctionOnSet(f, D) = SumFunctionOnSet(g, E)
        BY <1>9, <2>2, SumRenamed
    <2> QED
        BY <2>3 DEF f, g
<1>11. Payload(q) = q[i].size + Payload(r)
    <2> DEFINE f == Sizes(q)
               S == DOMAIN q
    <2>0. IsFiniteSet(S) /\ i \in S /\ \A j \in S : f[j] \in Nat
        BY <1>2, <1>8
    <2> HIDE DEF f, S
    <2>2. SumFunctionOnSet(f, S) = f[i] + SumFunctionOnSet(f, S \ {i})
        BY <2>0, SumRemove
    <2>1. SumFunctionOnSet(Sizes(q), DOMAIN q) = Sizes(q)[i] + SumFunctionOnSet(Sizes(q), DOMAIN q \ {i})
        BY <2>2 DEF f, S
    <2> QED
        BY <1>8, <1>10, <2>1 DEF Payload, D, E
<1>12. ASSUME NEW d
       PROVE  Cardinality(Mine(q, d)) = IF q[i].device = d THEN Cardinality(Mine(r, d)) + 1
                                                           ELSE Cardinality(Mine(r, d))
    <2> DEFINE M == Mine(r, d)
               N == Mine(q, d) \ {i}
               c == [j \in M |-> b[j]]
    <2>1. IsFiniteSet(M) /\ Cardinality(M) \in Nat /\ IsFiniteSet(Mine(q, d)) /\ Cardinality(Mine(q, d)) \in Nat
        BY <1>1, QueueShape
    <2>2. \A j \in M : j \in D /\ b[j] \in N
        BY <1>4 DEF Mine, E, D
    <2>3. \A k \in N : \E j \in M : b[j] = k
        BY <1>4, <1>6 DEF Mine, E, D
    <2>4. c \in Bijection(M, N)
        <3>1. c \in [M -> N] /\ \A j, k \in M : c[j] = c[k] => j = k
            BY <1>5, <2>2
        <3>2. \A k \in N : \E j \in M : c[j] = k
            BY <2>3
        <3> HIDE DEF c, M, N
        <3> QED
            BY <3>1, <3>2 DEF Bijection, Injection, Surjection, IsInjective
    <2>5. Cardinality(N) = Cardinality(M) /\ IsFiniteSet(N)
        <3> HIDE DEF c, M, N
        <3> QED
            BY <2>1, <2>4, FS_Bijection DEF ExistsBijection
    <2>6. Mine(q, d) = IF q[i].device = d THEN N \cup {i} ELSE N
        BY DEF Mine
    <2>7. i \notin N
        OBVIOUS
    <2> HIDE DEF M, N
    <2>8. Cardinality(N \cup {i}) = Cardinality(N) + 1
        BY <2>5, <2>7, FS_AddElement
    <2> QED
        BY <2>5, <2>6, <2>8 DEF M
<1> QED
    BY <1>11, <1>12 DEF r
-----------------------------------------------------------------------------
(* The packet to evict or to drain: a first position nothing beats.        *)

\* A position with the least key.
LEMMA LeastKey ==
    ASSUME NEW P, P # {}, NEW a, \A i \in P : a[i] \in Nat
    PROVE  \E i \in P : \A j \in P : a[i] <= a[j]
<1> DEFINE K == {a[i] : i \in P}
<1>1. K \subseteq Nat /\ K # {}
    OBVIOUS
<1>2. PICK m \in K : \A k \in K : m <= k
    <2> HIDE DEF K
    <2> QED
        BY <1>1, LeastNumber
<1> QED
    BY <1>2

\* A position with the least pair of keys.
LEMMA LeastPair ==
    ASSUME NEW P, P # {}, NEW a, NEW b, \A i \in P : a[i] \in Nat /\ b[i] \in Nat
    PROVE  \E i \in P : \A j \in P : a[i] < a[j] \/ (a[i] = a[j] /\ b[i] <= b[j])
<1>1. PICK m \in P : \A j \in P : a[m] <= a[j]
    BY LeastKey
<1> DEFINE L == {i \in P : a[i] = a[m]}
<1>2. L # {} /\ \A i \in L : b[i] \in Nat
    OBVIOUS
<1>3. PICK i \in L : \A j \in L : b[i] <= b[j]
    <2> HIDE DEF L
    <2> QED
        BY <1>2, LeastKey
<1>4. ASSUME NEW j \in P PROVE a[i] < a[j] \/ (a[i] = a[j] /\ b[i] <= b[j])
    <2>1. a[i] = a[m] /\ a[m] \in Nat /\ a[j] \in Nat /\ a[m] <= a[j]
        BY <1>1
    <2> QED
        BY <1>3, <2>1
<1> QED
    BY <1>4

\* i comes before j by a pair of keys.
Less(a, b, i, j) == a[i] < a[j] \/ (a[i] = a[j] /\ b[i] < b[j])

\* The first position of the least pair of keys.
LEMMA FirstOfPair ==
    ASSUME NEW P \in SUBSET Nat, P # {}, NEW a, NEW b, \A i \in P : a[i] \in Nat /\ b[i] \in Nat
    PROVE  \E i \in P : \A j \in P : ~Less(a, b, j, i) /\ (j < i => Less(a, b, i, j))
<1>1. PICK m \in P : \A j \in P : a[m] < a[j] \/ (a[m] = a[j] /\ b[m] <= b[j])
    BY LeastPair
<1> DEFINE L == {i \in P : a[i] = a[m] /\ b[i] = b[m]}
<1>2. L # {} /\ L \subseteq Nat
    OBVIOUS
<1>3. PICK i \in L : \A k \in L : i <= k
    <2> HIDE DEF L
    <2> QED
        BY <1>2, LeastNumber
<1>4. i \in P /\ i \in Nat /\ a[i] = a[m] /\ b[i] = b[m] /\ a[m] \in Nat /\ b[m] \in Nat
    OBVIOUS
<1>5. ASSUME NEW j \in P PROVE ~Less(a, b, j, i) /\ (j < i => Less(a, b, i, j))
    <2>1. j \in Nat /\ a[j] \in Nat /\ b[j] \in Nat /\ (a[i] < a[j] \/ (a[i] = a[j] /\ b[i] <= b[j]))
        BY <1>1, <1>4
    <2>2. ~Less(a, b, j, i)
        BY <1>4, <2>1 DEF Less
    <2>3. j < i => j \notin L
        BY <1>3, <1>4, <2>1
    <2>4. j \notin L => a[j] # a[m] \/ b[j] # b[m]
        OBVIOUS
    <2>5. j < i => Less(a, b, i, j)
        BY <1>4, <2>1, <2>3, <2>4 DEF Less
    <2> QED
        BY <2>2, <2>5
<1> QED
    BY <1>4, <1>5

\* What is known of the packets at some positions of the queue.
LEMMA Queued ==
    ASSUME queue \in Seq(IngestEnvelope), NEW P \in SUBSET DOMAIN queue
    PROVE  /\ P \in SUBSET Nat
           /\ \A i \in P : /\ queue[i].arrival \in Nat /\ queue[i].priority \in 0..3
                           /\ queue[i].deadline \in Nat /\ queue[i].device \in Senders
<1>1. DOMAIN queue = 1..Len(queue) /\ Len(queue) \in Nat /\ \A i \in DOMAIN queue : queue[i] \in IngestEnvelope
    BY QueueShape
<1>2. \A i \in P : queue[i] \in IngestEnvelope
    BY <1>1
<1>3. \A e \in IngestEnvelope : e.arrival \in Nat /\ e.priority \in 0..3 /\ e.deadline \in Nat /\ e.device \in Senders
    BY DEF IngestEnvelope
<1>4. P \in SUBSET Nat
    BY <1>1
<1> QED
    BY <1>2, <1>3, <1>4

\* The oldest packet of a device, under replace_same_device.
LEMMA FirstEarlier ==
    ASSUME queue \in Seq(IngestEnvelope), NEW P \in SUBSET DOMAIN queue, P # {}
    PROVE  First(P, Earlier) \in P
<1> DEFINE a == [i \in P |-> 0]
           b == [i \in P |-> queue[i].arrival]
<1>1. P \in SUBSET Nat /\ \A i \in P : queue[i].arrival \in Nat /\ queue[i].priority \in 0..3
    BY Queued
<1>2. \A i \in P : a[i] \in Nat /\ b[i] \in Nat
    BY <1>1
<1>3. \A i, j \in P : Earlier(i, j) <=> Less(a, b, i, j)
    BY <1>1 DEF Earlier, Less
<1> HIDE DEF a, b
<1>4. \E i \in P : \A j \in P : ~Less(a, b, j, i) /\ (j < i => Less(a, b, i, j))
    BY <1>1, <1>2, FirstOfPair
<1>5. \E i \in P : \A j \in P : ~Earlier(j, i) /\ (j < i => Earlier(i, j))
    BY <1>3, <1>4
<1> QED
    BY <1>5 DEF First

\* The packet of lowest priority, under drop_lowest_priority.
LEMMA FirstLower ==
    ASSUME queue \in Seq(IngestEnvelope), NEW P \in SUBSET DOMAIN queue, P # {}
    PROVE  First(P, LowerPriority) \in P
<1> DEFINE a == [i \in P |-> queue[i].priority]
           b == [i \in P |-> queue[i].arrival]
<1>1. P \in SUBSET Nat /\ \A i \in P : queue[i].arrival \in Nat /\ queue[i].priority \in 0..3
    BY Queued
<1>2. \A i \in P : a[i] \in Nat /\ b[i] \in Nat
    BY <1>1
<1>3. \A i, j \in P : LowerPriority(i, j) <=> Less(a, b, i, j)
    BY <1>1 DEF LowerPriority, Earlier, Less
<1> HIDE DEF a, b
<1>4. \E i \in P : \A j \in P : ~Less(a, b, j, i) /\ (j < i => Less(a, b, i, j))
    BY <1>1, <1>2, FirstOfPair
<1>5. \E i \in P : \A j \in P : ~LowerPriority(j, i) /\ (j < i => LowerPriority(i, j))
    BY <1>3, <1>4
<1> QED
    BY <1>5 DEF First

\* The packet of highest priority, under highest_priority_first.
LEMMA FirstHigher ==
    ASSUME queue \in Seq(IngestEnvelope), NEW P \in SUBSET DOMAIN queue, P # {}
    PROVE  First(P, HigherPriority) \in P
<1> DEFINE a == [i \in P |-> 3 - queue[i].priority]
           b == [i \in P |-> queue[i].arrival]
<1>1. P \in SUBSET Nat /\ \A i \in P : queue[i].arrival \in Nat /\ queue[i].priority \in 0..3
    BY Queued
<1>2. \A i \in P : a[i] \in Nat /\ b[i] \in Nat
    BY <1>1
<1>3. \A i, j \in P : HigherPriority(i, j) <=> Less(a, b, i, j)
    BY <1>1 DEF HigherPriority, Earlier, Less
<1> HIDE DEF a, b
<1>4. \E i \in P : \A j \in P : ~Less(a, b, j, i) /\ (j < i => Less(a, b, i, j))
    BY <1>1, <1>2, FirstOfPair
<1>5. \E i \in P : \A j \in P : ~HigherPriority(j, i) /\ (j < i => HigherPriority(i, j))
    BY <1>3, <1>4
<1> QED
    BY <1>5 DEF First

\* The packet of earliest deadline, under earliest_deadline_first; a packet without
\* one comes last.
LEMMA FirstSooner ==
    ASSUME queue \in Seq(IngestEnvelope), NEW P \in SUBSET DOMAIN queue, P # {}
    PROVE  First(P, SoonerDeadline) \in P
<1> DEFINE Timed == {i \in P : queue[i].deadline # 0}
           a == [i \in P |-> queue[i].deadline]
           b == [i \in P |-> queue[i].arrival]
<1>1. P \in SUBSET Nat /\ \A i \in P : queue[i].arrival \in Nat /\ queue[i].deadline \in Nat
    BY Queued
<1>2. \A i \in P : a[i] \in Nat /\ b[i] \in Nat
    BY <1>1
<1>3. \A i, j \in Timed : SoonerDeadline(i, j) <=> Less(a, b, i, j)
    BY <1>1 DEF SoonerDeadline, DeadlineLess, Earlier, Less
<1>4. \A i \in Timed : \A j \in P \ Timed : SoonerDeadline(i, j) /\ ~SoonerDeadline(j, i)
    BY DEF SoonerDeadline, DeadlineLess
<1>5. Timed = {} => \A i, j \in P : SoonerDeadline(i, j) <=> Less(a, b, i, j)
    BY <1>1 DEF SoonerDeadline, DeadlineLess, Earlier, Less
<1>6. Timed \in SUBSET P
    OBVIOUS
<1> HIDE DEF a, b, Timed
<1>7. \E i \in P : \A j \in P : ~SoonerDeadline(j, i) /\ (j < i => SoonerDeadline(i, j))
    <2>1. CASE Timed # {}
        <3>1. Timed \in SUBSET Nat /\ \A i \in Timed : a[i] \in Nat /\ b[i] \in Nat
            BY <1>1, <1>2, <1>6
        <3>2. PICK i \in Timed : \A j \in Timed : ~Less(a, b, j, i) /\ (j < i => Less(a, b, i, j))
            BY <2>1, <3>1, FirstOfPair
        <3> QED
            BY <1>3, <1>4, <1>6, <3>2
    <2>2. CASE Timed = {}
        <3>1. \E i \in P : \A j \in P : ~Less(a, b, j, i) /\ (j < i => Less(a, b, i, j))
            BY <1>1, <1>2, FirstOfPair
        <3> QED
            BY <1>5, <2>2, <3>1
    <2> QED
        BY <2>1, <2>2
<1> QED
    BY <1>7 DEF First

\* select_next() finds a packet in every queue that is not empty.
LEMMA NextExists ==
    ASSUME queue \in Seq(IngestEnvelope), queue # << >>, config \in [policy : Policies, drain : DrainModes]
    PROVE  SelectNext \in DOMAIN queue
<1>1. DOMAIN queue \in SUBSET DOMAIN queue /\ DOMAIN queue # {} /\ 1 \in DOMAIN queue
    BY QueueShape
<1>2. config.drain \in DrainModes
    OBVIOUS
<1>3. CASE config.drain = "fifo"
    BY <1>1, <1>3 DEF SelectNext
<1>4. CASE config.drain = "highest_priority_first"
    <2>1. First(DOMAIN queue, HigherPriority) \in DOMAIN queue
        BY <1>1, FirstHigher
    <2> QED
        BY <1>4, <2>1 DEF SelectNext
<1>5. CASE config.drain = "earliest_deadline_first"
    <2>1. First(DOMAIN queue, SoonerDeadline) \in DOMAIN queue
        BY <1>1, FirstSooner
    <2> QED
        BY <1>5, <2>1 DEF SelectNext
<1> QED
    BY <1>2, <1>3, <1>4, <1>5 DEF DrainModes

\* select_overflow_victim() gives up a packet of the queue; with reject_new none.
LEMMA VictimExists ==
    ASSUME queue \in Seq(IngestEnvelope), config \in [policy : Policies, drain : DrainModes], NEW e
    PROVE  /\ Victims(e) \subseteq DOMAIN queue
           /\ queue = << >> \/ config.policy = "reject_new" => Victims(e) = {}
<1>1. config.policy \in Policies
    OBVIOUS
<1>2. CASE queue = << >> \/ config.policy = "reject_new"
    BY <1>2 DEF Victims
<1>3. CASE queue # << >> /\ config.policy = "drop_oldest"
    <2>1. 1 \in DOMAIN queue
        BY <1>3, QueueShape
    <2> QED
        BY <1>3, <2>1 DEF Victims
<1>4. CASE queue # << >> /\ config.policy = "drop_lowest_priority"
    <2>1. DOMAIN queue \in SUBSET DOMAIN queue /\ DOMAIN queue # {}
        BY <1>4, QueueShape
    <2>2. First(DOMAIN queue, LowerPriority) \in DOMAIN queue
        BY <2>1, FirstLower
    <2> QED
        BY <1>4, <2>2 DEF Victims
<1>5. CASE queue # << >> /\ config.policy = "replace_same_device"
    <2> DEFINE mine == PositionsOf(e.device)
    <2>1. mine \in SUBSET DOMAIN queue
        BY DEF PositionsOf
    <2>2. Victims(e) = IF mine = {} THEN {} ELSE {First(mine, Earlier)}
        BY <1>5 DEF Victims
    <2> HIDE DEF mine
    <2>3. mine # {} => First(mine, Earlier) \in mine
        BY <2>1, FirstEarlier
    <2> QED
        BY <1>5, <2>1, <2>2, <2>3
<1> QED
    BY <1>1, <1>2, <1>3, <1>4, <1>5 DEF Policies
-----------------------------------------------------------------------------
(* IngestQueue: the inductive invariant.                                   *)

CountIn(f, d) == IF d \in DOMAIN f THEN f[d].packets ELSE 0

\* Every device entry counts its packets.
Tracks(f) == \A d \in DOMAIN f : "packets" \in DOMAIN f[d] /\ f[d].packets \in Nat

\* The entries f count the packets of queue q, or one more.
Covers(f, q) ==
    \A d \in Senders : /\ Cardinality(Mine(q, d)) <= CountIn(f, d)
                       /\ CountIn(f, d) <= Cardinality(Mine(q, d)) + 1

QueueStats ==
    [accepted : Nat, rejected : Nat, evicted : Nat, drained : Nat, high_packets : Nat, high_bytes : Nat]

QInv ==
    /\ config \in [policy : Policies, drain : DrainModes]
    /\ queue \in Seq(IngestEnvelope) /\ bytes = Payload(queue)
    /\ Tracks(devices) /\ Covers(devices, queue)
    /\ qstats \in QueueStats /\ emptied \in Nat /\ pushing \in Nat /\ uncounted \in Nat
    /\ WithinCapacity
    /\ PacketConservation

\* The names used here are those of the specification.
LEMMA QueueNames ==
    /\ \A d : PositionsOf(d) = Mine(queue, d)
    /\ \A i : Removed(i) = CutOut(queue, i)
    /\ SumOfSizes(DOMAIN queue) = Payload(queue)
BY DEF PositionsOf, Mine, Removed, CutOut, SumOfSizes, Payload, Sizes

\* The invariant contains the property.
LEMMA QInvAccounts == QInv => QueueAccounts
<1> SUFFICES ASSUME QInv PROVE QueueAccounts
    OBVIOUS
<1>1. BytesExact
    BY QueueNames DEF QInv, BytesExact
<1>2. DeviceCountWithinOne
    BY QueueNames DEF QInv, DeviceCountWithinOne, Covers, CountIn
<1> QED
    BY <1>1, <1>2 DEF QInv, QueueAccounts

\* An empty queue satisfies it.
LEMMA InitQInv == InitQueue => QInv
<1> SUFFICES ASSUME InitQueue PROVE QInv
    OBVIOUS
<1>1. /\ config \in [policy : Policies, drain : DrainModes] /\ queue = << >> /\ bytes = 0 /\ devices = << >>
      /\ qstats = ZeroQueueStats /\ pushing = 0 /\ emptied = 0 /\ uncounted = 0
    BY DEF InitQueue
<1>2. queue \in Seq(IngestEnvelope) /\ Len(queue) = 0 /\ DOMAIN queue = {} /\ DOMAIN devices = {}
    BY <1>1, EmptySeq
<1>3. Payload(queue) = 0
    BY <1>2, SumEmpty DEF Payload
<1>4. Tracks(devices) /\ Covers(devices, queue)
    <2>1. \A d : Mine(queue, d) = {}
        BY <1>2 DEF Mine
    <2>2. \A d : Cardinality(Mine(queue, d)) = 0
        BY <2>1, FS_EmptySet
    <2> QED
        BY <1>2, <2>2 DEF Tracks, Covers, CountIn
<1>5. qstats \in QueueStats
    BY <1>1 DEF ZeroQueueStats, QueueStats
<1>6. WithinCapacity /\ PacketConservation
    BY <1>1, <1>2, QueueAssumption DEF WithinCapacity, PacketConservation, ZeroQueueStats
<1> QED
    BY <1>1, <1>2, <1>3, <1>4, <1>5, <1>6 DEF QInv

\* push() keeps a packet's device and payload when it infers a priority.
LEMMA Inferred ==
    ASSUME NEW e \in Envelopes
    PROVE  WithPriority(e) \in IngestEnvelope
<1>1. e \in IngestEnvelope
    BY QueueAssumption
<1>2. InferPriority(e) \in 0..3
    <2>1. e.route \in Int
        BY <1>1 DEF IngestEnvelope
    <2> QED
        BY <2>1 DEF InferPriority
<1>3. \A p \in 0..3 : [e EXCEPT !.priority = p] \in IngestEnvelope
    BY <1>1 DEF IngestEnvelope
<1> QED
    BY <1>1, <1>2, <1>3 DEF WithPriority

\* add_device_state(): the entry of the packet's device counts one more.
LEMMA DeviceAdded ==
    ASSUME NEW f, NEW q \in Seq(IngestEnvelope), NEW e \in IngestEnvelope, Tracks(f), Covers(f, q)
    PROVE  Tracks(AddDeviceState(f, e)) /\ Covers(AddDeviceState(f, e), Append(q, e))
<1> DEFINE g == AddDeviceState(f, e)
<1>1. DOMAIN g = DOMAIN f \cup {e.device} /\ \A d \in DOMAIN f \ {e.device} : g[d] = f[d]
    BY DEF AddDeviceState, Put
<1>2. "packets" \in DOMAIN g[e.device] /\ g[e.device].packets = CountIn(f, e.device) + 1
    BY DEF AddDeviceState, Put, CountIn
<1> HIDE DEF g
<1>3. \A d : CountIn(f, d) \in Nat
    BY DEF Tracks, CountIn
<1>4. Tracks(g)
    BY <1>1, <1>2, <1>3 DEF Tracks
<1>5. \A d : CountIn(g, d) = IF e.device = d THEN CountIn(f, d) + 1 ELSE CountIn(f, d)
    BY <1>1, <1>2 DEF CountIn
<1>6. ASSUME NEW d \in Senders
      PROVE  /\ Cardinality(Mine(Append(q, e), d)) <= CountIn(g, d)
             /\ CountIn(g, d) <= Cardinality(Mine(Append(q, e), d)) + 1
    <2> DEFINE m == Cardinality(Mine(q, d))
               n == Cardinality(Mine(Append(q, e), d))
               c == CountIn(f, d)
    <2>1. m \in Nat /\ c \in Nat /\ m <= c /\ c <= m + 1
        BY <1>3, QueueShape DEF Covers
    <2>2. n = IF e.device = d THEN m + 1 ELSE m
        BY Inserted
    <2>3. CountIn(g, d) = IF e.device = d THEN c + 1 ELSE c
        BY <1>5
    <2> HIDE DEF m, n, c
    <2>4. n <= CountIn(g, d) /\ CountIn(g, d) <= n + 1
        BY <2>1, <2>2, <2>3
    <2> QED
        BY <2>4 DEF n
<1> QED
    BY <1>4, <1>6 DEF Covers, g

\* subtract_device_state(): an entry goes only with the last packet of its device;
\* a rebuilt one counts the packet that is being removed.
LEMMA DeviceRemoved ==
    ASSUME QInv, NEW i \in DOMAIN queue
    PROVE  /\ Tracks(SubtractDeviceState(queue[i]))
           /\ Covers(SubtractDeviceState(queue[i]), CutOut(queue, i))
<1> DEFINE e == queue[i]
           x == e.device
           g == SubtractDeviceState(e)
           r == CutOut(queue, i)
           s == devices[x]
           m(d) == Cardinality(Mine(queue, d))
           n(d) == Cardinality(Mine(r, d))
<1>1. /\ queue \in Seq(IngestEnvelope) /\ Tracks(devices) /\ Covers(devices, queue)
      /\ r \in Seq(IngestEnvelope) /\ x \in Senders
    BY CutShape, QueueShape DEF QInv, IngestEnvelope
<1>2. \A d : m(d) \in Nat /\ n(d) \in Nat /\ m(d) = IF x = d THEN n(d) + 1 ELSE n(d)
    BY <1>1, QueueShape, Removes
<1>3. \A d : CountIn(devices, d) \in Nat
    BY <1>1 DEF Tracks, CountIn
<1>4. x \in DOMAIN devices /\ s.packets \in Nat /\ s.packets >= 1 /\ "packets" \in DOMAIN s
      /\ m(x) <= s.packets /\ s.packets <= m(x) + 1 /\ CountIn(devices, x) = s.packets
    <2>1. m(x) >= 1 /\ m(x) <= CountIn(devices, x) /\ CountIn(devices, x) <= m(x) + 1
        BY <1>1, <1>2 DEF Covers
    <2>2. x \in DOMAIN devices
        BY <1>2, <1>3, <2>1 DEF CountIn
    <2>3. s.packets \in Nat /\ "packets" \in DOMAIN s /\ CountIn(devices, x) = s.packets
        BY <1>1, <2>2 DEF Tracks, CountIn
    <2> QED
        BY <1>2, <2>1, <2>2, <2>3
<1> DEFINE left == [s EXCEPT !.packets = @ - 1, !.bytes = Monus(@, e.size)]
<1>5. "packets" \in DOMAIN left /\ left.packets = s.packets - 1
    BY <1>4
<1>6. g = IF left.packets = 0 THEN Dropping(devices, x)
          ELSE IF s.priority = e.priority \/ s.newest = e.sequence \/ s.last = e.arrival
               THEN Put(devices, x, Rebuilt(x)) ELSE Put(devices, x, left)
    BY <1>4 DEF SubtractDeviceState
<1>7. "packets" \in DOMAIN Rebuilt(x) /\ Rebuilt(x).packets = m(x)
    <2>1. Rebuilt(x).packets = Cardinality(PositionsOf(x)) /\ "packets" \in DOMAIN Rebuilt(x)
        BY DEF Rebuilt
    <2> QED
        BY <2>1, QueueNames
<1> HIDE DEF left, g, s, r, m, n
<1>8. /\ \A d : d # x => (d \in DOMAIN g <=> d \in DOMAIN devices) /\ (d \in DOMAIN g => g[d] = devices[d])
      /\ x \in DOMAIN g => "packets" \in DOMAIN g[x] /\ g[x].packets \in {s.packets - 1, m(x)}
      /\ CountIn(g, x) \in {s.packets - 1, m(x)}
    <2>1. CASE left.packets = 0
        <3>1. g = Dropping(devices, x)
            BY <1>6, <2>1
        <3>2. DOMAIN g = DOMAIN devices \ {x} /\ \A d \in DOMAIN g : g[d] = devices[d]
            BY <3>1 DEF Dropping
        <3>3. CountIn(g, x) = s.packets - 1
            BY <1>5, <2>1, <3>2 DEF CountIn
        <3> QED
            BY <3>2, <3>3
    <2>2. ASSUME NEW t, "packets" \in DOMAIN t, t.packets \in {s.packets - 1, m(x)}, g = Put(devices, x, t)
          PROVE  <1>8!:
        <3>1. DOMAIN g = DOMAIN devices \cup {x} /\ g[x] = t /\ \A d \in DOMAIN devices \ {x} : g[d] = devices[d]
            BY <2>2 DEF Put
        <3> QED
            BY <2>2, <3>1 DEF CountIn
    <2>3. CASE left.packets # 0
        BY <1>5, <1>6, <1>7, <2>2, <2>3
    <2> QED
        BY <2>1, <2>3
<1>9. Tracks(g)
    BY <1>1, <1>2, <1>4, <1>5, <1>8 DEF Tracks
<1>10. ASSUME NEW d \in Senders PROVE n(d) <= CountIn(g, d) /\ CountIn(g, d) <= n(d) + 1
    <2>1. CASE d = x
        BY <1>2, <1>4, <1>8, <2>1
    <2>2. CASE d # x
        <3>1. CountIn(g, d) = CountIn(devices, d)
            BY <1>8, <2>2 DEF CountIn
        <3>2. m(d) <= CountIn(devices, d) /\ CountIn(devices, d) <= m(d) + 1 /\ n(d) = m(d)
            BY <1>1, <1>2, <2>2 DEF Covers, m
        <3> QED
            BY <3>1, <3>2
    <2> QED
        BY <2>1, <2>2
<1>11. Covers(g, r)
    BY <1>10 DEF Covers, n
<1> QED
    BY <1>9, <1>11 DEF g, r

\* The counters by name.
LEMMA StatsNamed ==
    ASSUME qstats \in QueueStats
    PROVE  /\ qstats = [accepted |-> qstats.accepted, rejected |-> qstats.rejected, evicted |-> qstats.evicted,
                        drained |-> qstats.drained, high_packets |-> qstats.high_packets,
                        high_bytes |-> qstats.high_bytes]
           /\ qstats.accepted \in Nat /\ qstats.rejected \in Nat /\ qstats.evicted \in Nat
           /\ qstats.drained \in Nat /\ qstats.high_packets \in Nat /\ qstats.high_bytes \in Nat
BY DEF QueueStats

\* A packet more on both sides of the account: in the queue, or for one that was evicted.
LEMMA OneMoreEntered ==
    ASSUME NEW a \in Nat, NEW p \in Nat, NEW u \in Nat, NEW n \in Nat, NEW v \in Nat, NEW d \in Nat, NEW m \in Nat,
           a + p + u = n + v + d + m
    PROVE  /\ a + (p + 1) + u = (n + 1) + v + d + m
           /\ a + (p + 1) + u = n + (v + 1) + d + m
OBVIOUS

\* push(), refused: only the counter changes.
LEMMA PushRefusedKeeps == ASSUME QInv, NEW e \in Envelopes, PushRefused(e) PROVE QInv'
<1>1. /\ qstats' = [qstats EXCEPT !.rejected = @ + 1]
      /\ UNCHANGED <<config, queue, bytes, devices, closed, pushing, emptied, uncounted>>
    BY DEF PushRefused
<1>2. qstats' \in QueueStats /\ qstats'.accepted = qstats.accepted /\ qstats'.evicted = qstats.evicted
      /\ qstats'.drained = qstats.drained
    BY <1>1 DEF QInv, QueueStats
<1>3. WithinCapacity' /\ PacketConservation'
    BY <1>1, <1>2 DEF QInv, WithinCapacity, PacketConservation
<1> QED
    BY <1>1, <1>2, <1>3 DEF QInv

\* push() into a queue with room.
LEMMA PushRoomKeeps == ASSUME QInv, NEW e \in Envelopes, PushRoom(e) PROVE QInv'
<1> DEFINE x == WithPriority(e)
<1>1. /\ ~WouldExceedCapacity(x) /\ bytes' = bytes + x.size /\ devices' = AddDeviceState(devices, x)
      /\ queue' = Append(queue, x) /\ pushing' = pushing + 1
      /\ UNCHANGED <<config, qstats, closed, emptied, uncounted>>
    BY DEF PushRoom
<1>2. x \in IngestEnvelope /\ queue \in Seq(IngestEnvelope) /\ bytes = Payload(queue)
      /\ Tracks(devices) /\ Covers(devices, queue)
    BY Inferred DEF QInv
<1>3. Len(queue) \in Nat /\ x.size \in Nat /\ bytes \in Nat
    BY <1>2, QueueShape DEF IngestEnvelope
<1> HIDE DEF x
<1>4. queue' \in Seq(IngestEnvelope) /\ Len(queue') = Len(queue) + 1 /\ bytes' = Payload(queue')
    BY <1>1, <1>2, Inserted
<1>5. Tracks(devices') /\ Covers(devices', queue')
    BY <1>1, <1>2, DeviceAdded
<1>6. WithinCapacity'
    <2>1. Len(queue) < MaxPackets /\ bytes + x.size <= MaxPayloadBytes
        BY <1>1, <1>3, QueueAssumption DEF WouldExceedCapacity
    <2> QED
        BY <1>1, <1>3, <1>4, <2>1, QueueAssumption DEF WithinCapacity
<1>7. PacketConservation' /\ pushing' \in Nat
    <2>1. qstats.accepted + pushing + uncounted = Len(queue) + qstats.evicted + qstats.drained + emptied
        BY DEF QInv, PacketConservation
    <2>2. emptied \in Nat /\ pushing \in Nat /\ uncounted \in Nat
        BY DEF QInv
    <2>3. qstats \in QueueStats
        BY DEF QInv
    <2>4. qstats.accepted + (pushing + 1) + uncounted = (Len(queue) + 1) + qstats.evicted + qstats.drained + emptied
        <3> DEFINE a == qstats.accepted
                   gone == qstats.evicted
                   d == qstats.drained
                   n == Len(queue)
        <3>1. a \in Nat /\ gone \in Nat /\ d \in Nat /\ n \in Nat
            BY <1>3, <2>3, StatsNamed
        <3>2. a + pushing + uncounted = n + gone + d + emptied
            BY <2>1
        <3> HIDE DEF a, gone, d, n
        <3>3. a + (pushing + 1) + uncounted = (n + 1) + gone + d + emptied
            BY <2>2, <3>1, <3>2, OneMoreEntered
        <3> QED
            BY <3>3 DEF a, gone, d, n
    <2> QED
        BY <1>1, <1>4, <2>2, <2>4 DEF PacketConservation
<1> QED
    BY <1>1, <1>4, <1>5, <1>6, <1>7 DEF QInv

\* remove_at(): what the accounts are without a packet of the queue.
LEMMA PacketRemoved ==
    ASSUME QInv, NEW i \in DOMAIN queue
    PROVE  /\ Removed(i) \in Seq(IngestEnvelope) /\ Len(Removed(i)) = Len(queue) - 1
           /\ Monus(bytes, queue[i].size) = Payload(Removed(i)) /\ Payload(Removed(i)) \in Nat
           /\ Payload(Removed(i)) <= bytes
           /\ Tracks(SubtractDeviceState(queue[i])) /\ Covers(SubtractDeviceState(queue[i]), Removed(i))
<1> DEFINE r == CutOut(queue, i)
<1>1. queue \in Seq(IngestEnvelope) /\ bytes = Payload(queue)
    BY DEF QInv
<1>2. r \in Seq(IngestEnvelope) /\ Len(r) = Len(queue) - 1 /\ Payload(queue) = queue[i].size + Payload(r)
    BY <1>1, CutShape, Removes
<1>3. queue[i].size \in Nat
    BY <1>1, QueueShape DEF IngestEnvelope
<1>4. Tracks(SubtractDeviceState(queue[i])) /\ Covers(SubtractDeviceState(queue[i]), r)
    BY DeviceRemoved
<1> HIDE DEF r
<1>5. Payload(r) \in Nat
    BY <1>2, QueueShape
<1>6. Monus(bytes, queue[i].size) = Payload(r) /\ Payload(r) <= bytes
    BY <1>1, <1>2, <1>3, <1>5 DEF Monus
<1> QED
    BY <1>2, <1>4, <1>5, <1>6, QueueNames DEF r

\* push() into a full queue: one packet goes, one comes.
LEMMA PushEvictKeeps == ASSUME QInv, NEW e \in Envelopes, PushEvict(e) PROVE QInv'
<1> DEFINE x == WithPriority(e)
<1>1. /\ pushing' = pushing + 1 /\ qstats' = [qstats EXCEPT !.evicted = @ + 1]
      /\ UNCHANGED <<config, closed, emptied, uncounted>>
    BY DEF PushEvict
<1>2. PICK v \in Victims(x) : /\ bytes' = Monus(bytes, queue[v].size) + x.size
                              /\ devices' = AddDeviceState(SubtractDeviceState(queue[v]), x)
                              /\ queue' = Append(Removed(v), x)
    BY DEF PushEvict
<1>3. x \in IngestEnvelope
    BY Inferred
<1>4. queue \in Seq(IngestEnvelope) /\ config \in [policy : Policies, drain : DrainModes]
    BY DEF QInv
<1> HIDE DEF x
<1>5. v \in DOMAIN queue /\ config.policy # "reject_new"
    BY <1>2, <1>4, VictimExists
<1> DEFINE r == Removed(v)
           f == SubtractDeviceState(queue[v])
<1>6. /\ r \in Seq(IngestEnvelope) /\ Len(r) = Len(queue) - 1 /\ Monus(bytes, queue[v].size) = Payload(r)
      /\ Tracks(f) /\ Covers(f, r)
    BY <1>5, PacketRemoved
<1>7. queue' = Append(r, x) /\ devices' = AddDeviceState(f, x) /\ bytes' = Payload(r) + x.size
    BY <1>2, <1>6
<1>8. Len(queue) \in Nat
    BY <1>4, QueueShape
<1> HIDE DEF r, f
<1>9. queue' \in Seq(IngestEnvelope) /\ Len(queue') = Len(queue) /\ bytes' = Payload(queue')
    BY <1>3, <1>6, <1>7, <1>8, Inserted
<1>10. Tracks(devices') /\ Covers(devices', queue')
    BY <1>3, <1>6, <1>7, DeviceAdded
<1>11. WithinCapacity'
    BY <1>1, <1>5, <1>9 DEF QInv, WithinCapacity
<1>12. qstats' \in QueueStats /\ qstats'.accepted = qstats.accepted /\ qstats'.evicted = qstats.evicted + 1
       /\ qstats'.drained = qstats.drained
    BY <1>1 DEF QInv, QueueStats
<1>13. PacketConservation' /\ pushing' \in Nat
    <2>1. qstats.accepted + pushing + uncounted = Len(queue) + qstats.evicted + qstats.drained + emptied
        BY DEF QInv, PacketConservation
    <2>2. emptied \in Nat /\ pushing \in Nat /\ uncounted \in Nat /\ qstats \in QueueStats
        BY DEF QInv
    <2>3. qstats.accepted + (pushing + 1) + uncounted = Len(queue) + (qstats.evicted + 1) + qstats.drained + emptied
        <3> DEFINE a == qstats.accepted
                   gone == qstats.evicted
                   d == qstats.drained
                   n == Len(queue)
        <3>1. a \in Nat /\ gone \in Nat /\ d \in Nat /\ n \in Nat
            BY <1>8, <2>2, StatsNamed
        <3>2. a + pushing + uncounted = n + gone + d + emptied
            BY <2>1
        <3> HIDE DEF a, gone, d, n
        <3>3. a + (pushing + 1) + uncounted = n + (gone + 1) + d + emptied
            BY <2>2, <3>1, <3>2, OneMoreEntered
        <3> QED
            BY <3>3 DEF a, gone, d, n
    <2> QED
        BY <1>1, <1>9, <1>12, <2>2, <2>3 DEF PacketConservation
<1> QED
    BY <1>1, <1>9, <1>10, <1>11, <1>12, <1>13 DEF QInv

\* The rest of push().
LEMMA PushEndKeeps == ASSUME QInv, PushEnd PROVE QInv'
<1>1. /\ pushing > 0 /\ pushing' = pushing - 1 /\ UNCHANGED <<config, queue, bytes, devices, closed, emptied, uncounted>>
      /\ qstats' = [qstats EXCEPT !.accepted = @ + 1, !.high_packets = Greater(@, Len(queue)),
                                  !.high_bytes = Greater(@, bytes)]
    BY DEF PushEnd
<1>2. queue \in Seq(IngestEnvelope) /\ bytes = Payload(queue) /\ qstats \in QueueStats /\ emptied \in Nat
      /\ pushing \in Nat /\ uncounted \in Nat
    BY DEF QInv
<1>3. Len(queue) \in Nat /\ bytes \in Nat
    BY <1>2, QueueShape
<1> DEFINE h == Greater(qstats.high_packets, Len(queue))
           k == Greater(qstats.high_bytes, bytes)
<1>4. h \in Nat /\ k \in Nat
    BY <1>2, <1>3, StatsNamed DEF Greater
<1>5. qstats' = [accepted |-> qstats.accepted + 1, rejected |-> qstats.rejected, evicted |-> qstats.evicted,
                 drained |-> qstats.drained, high_packets |-> h, high_bytes |-> k]
    BY <1>1, <1>2 DEF QueueStats
<1> HIDE DEF h, k
<1>6. qstats' \in QueueStats /\ qstats'.accepted = qstats.accepted + 1 /\ qstats'.evicted = qstats.evicted
      /\ qstats'.drained = qstats.drained
    BY <1>2, <1>4, <1>5, StatsNamed DEF QueueStats
<1>7. PacketConservation' /\ pushing' \in Nat
    <2>1. qstats.accepted + pushing + uncounted = Len(queue) + qstats.evicted + qstats.drained + emptied
        BY DEF QInv, PacketConservation
    <2>2. (qstats.accepted + 1) + (pushing - 1) + uncounted = Len(queue) + qstats.evicted + qstats.drained + emptied
        BY <1>2, <2>1, StatsNamed
    <2> QED
        BY <1>1, <1>2, <1>6, <2>2 DEF PacketConservation
<1>8. WithinCapacity'
    BY <1>1 DEF QInv, WithinCapacity
<1> QED
    BY <1>1, <1>6, <1>7, <1>8 DEF QInv

\* An exception in its place.
LEMMA PushThrowsKeeps == ASSUME QInv, PushThrows PROVE QInv'
<1>1. /\ pushing > 0 /\ pushing' = pushing - 1 /\ uncounted' = uncounted + 1
      /\ UNCHANGED <<config, queue, bytes, devices, qstats, closed, emptied>>
    BY DEF PushThrows
<1>2. qstats \in QueueStats /\ pushing \in Nat /\ uncounted \in Nat
    BY DEF QInv
<1>3. pushing' \in Nat /\ uncounted' \in Nat
      /\ qstats.accepted + pushing' + uncounted' = qstats.accepted + pushing + uncounted
    <2> DEFINE a == qstats.accepted
    <2>1. a \in Nat
        BY <1>2, StatsNamed
    <2> HIDE DEF a
    <2>2. pushing' \in Nat /\ uncounted' \in Nat /\ a + pushing' + uncounted' = a + pushing + uncounted
        BY <1>1, <1>2, <2>1
    <2> QED
        BY <2>2 DEF a
<1>4. WithinCapacity' /\ PacketConservation'
    BY <1>1, <1>3 DEF QInv, WithinCapacity, PacketConservation
<1> QED
    BY <1>1, <1>3, <1>4 DEF QInv

\* pop(): the drained packet leaves the accounts.
LEMMA PopKeeps == ASSUME QInv, Pop PROVE QInv'
<1> DEFINE i == SelectNext
           r == Removed(i)
           f == SubtractDeviceState(queue[i])
<1>1. /\ queue # << >> /\ bytes' = Monus(bytes, queue[i].size) /\ devices' = f /\ queue' = r
      /\ qstats' = [qstats EXCEPT !.drained = @ + 1] /\ UNCHANGED <<config, closed, pushing, emptied, uncounted>>
    BY DEF Pop
<1>2. queue \in Seq(IngestEnvelope) /\ config \in [policy : Policies, drain : DrainModes]
    BY DEF QInv
<1>3. i \in DOMAIN queue
    BY <1>1, <1>2, NextExists
<1> HIDE DEF i
<1>4. /\ r \in Seq(IngestEnvelope) /\ Len(r) = Len(queue) - 1 /\ Monus(bytes, queue[i].size) = Payload(r)
      /\ Payload(r) \in Nat /\ Payload(r) <= bytes /\ Tracks(f) /\ Covers(f, r)
    BY <1>3, PacketRemoved
<1> HIDE DEF r, f
<1>5. Len(queue) \in Nat /\ bytes \in Nat
    BY <1>2, QueueShape DEF QInv
<1>6. queue' \in Seq(IngestEnvelope) /\ bytes' = Payload(queue') /\ Len(queue') = Len(queue) - 1
      /\ bytes' \in Nat /\ bytes' <= bytes /\ Tracks(devices') /\ Covers(devices', queue')
    BY <1>1, <1>4
<1>7. WithinCapacity'
    BY <1>1, <1>5, <1>6, QueueAssumption DEF QInv, WithinCapacity
<1>8. qstats' \in QueueStats /\ qstats'.accepted = qstats.accepted /\ qstats'.evicted = qstats.evicted
      /\ qstats'.drained = qstats.drained + 1
    <2>1. qstats \in QueueStats
        BY DEF QInv
    <2>2. qstats' = [qstats EXCEPT !.drained = @ + 1]
        BY <1>1
    <2> QED
        BY <2>1, <2>2 DEF QueueStats
<1>9. PacketConservation'
    <2> DEFINE a == qstats.accepted + pushing + uncounted
    <2>1. a = Len(queue) + qstats.evicted + qstats.drained + emptied
        BY DEF QInv, PacketConservation
    <2>2. emptied \in Nat /\ qstats \in QueueStats
        BY DEF QInv
    <2>3. qstats'.accepted + pushing' + uncounted' = a
        BY <1>1, <1>8
    <2> HIDE DEF a
    <2>4. a = (Len(queue) - 1) + qstats.evicted + (qstats.drained + 1) + emptied
        BY <1>5, <2>1, <2>2, StatsNamed
    <2> QED
        BY <1>1, <1>6, <1>8, <2>3, <2>4 DEF PacketConservation
<1> QED
    BY <1>1, <1>6, <1>7, <1>8, <1>9 DEF QInv

\* clear(): the packets of the queue are dropped, with their accounts.
LEMMA ClearQueueKeeps == ASSUME QInv, ClearQueue PROVE QInv'
<1>1. /\ queue' = << >> /\ devices' = << >> /\ bytes' = 0 /\ emptied' = emptied + Len(queue)
      /\ UNCHANGED <<config, qstats, closed, pushing, uncounted>>
    BY DEF ClearQueue
<1>2. queue' \in Seq(IngestEnvelope) /\ Len(queue') = 0 /\ DOMAIN queue' = {} /\ DOMAIN devices' = {}
    BY <1>1, EmptySeq
<1>3. Payload(queue') = 0
    BY <1>2, SumEmpty DEF Payload
<1>4. Tracks(devices') /\ Covers(devices', queue')
    <2>1. \A d : Mine(queue', d) = {}
        BY <1>2 DEF Mine
    <2>2. \A d : Cardinality(Mine(queue', d)) = 0
        BY <2>1, FS_EmptySet
    <2> QED
        BY <1>2, <2>2 DEF Tracks, Covers, CountIn
<1>5. Len(queue) \in Nat /\ emptied \in Nat /\ emptied' \in Nat /\ qstats \in QueueStats
    BY <1>1, QueueShape DEF QInv
<1>6. WithinCapacity'
    BY <1>1, <1>2, QueueAssumption DEF WithinCapacity
<1>7. PacketConservation'
    <2> DEFINE a == qstats.accepted + pushing + uncounted
    <2>1. a = Len(queue) + qstats.evicted + qstats.drained + emptied
        BY DEF QInv, PacketConservation
    <2> HIDE DEF a
    <2>2. a = 0 + qstats.evicted + qstats.drained + (emptied + Len(queue))
        BY <1>5, <2>1, StatsNamed
    <2> QED
        BY <1>1, <1>2, <2>2 DEF PacketConservation, a
<1> QED
    BY <1>1, <1>2, <1>3, <1>4, <1>5, <1>6, <1>7 DEF QInv

\* Every step of the queue keeps the invariant.
LEMMA NextQInv == QInv /\ [NextQueue]_queueVars => QInv'
<1> SUFFICES ASSUME QInv, [NextQueue]_queueVars PROVE QInv'
    OBVIOUS
<1>1. CASE \E e \in Envelopes : PushRefused(e)
    BY <1>1, PushRefusedKeeps
<1>2. CASE \E e \in Envelopes : PushRoom(e)
    BY <1>2, PushRoomKeeps
<1>3. CASE \E e \in Envelopes : PushEvict(e)
    BY <1>3, PushEvictKeeps
<1>4. CASE PushEnd
    BY <1>4, PushEndKeeps
<1>5. CASE Pop
    BY <1>5, PopKeeps
<1>6. CASE ClearQueue
    BY <1>6, ClearQueueKeeps
<1>7. CASE Close \/ Reopen \/ UNCHANGED queueVars
    <2>1. UNCHANGED <<config, queue, bytes, devices, qstats, pushing, emptied, uncounted>>
        BY <1>7 DEF Close, Reopen, queueVars
    <2>2. WithinCapacity' /\ PacketConservation'
        BY <2>1 DEF QInv, WithinCapacity, PacketConservation
    <2> QED
        BY <2>1, <2>2 DEF QInv
<1>8. CASE PushThrows
    BY <1>8, PushThrowsKeeps
<1> QED
    BY <1>1, <1>2, <1>3, <1>4, <1>5, <1>6, <1>7, <1>8 DEF NextQueue

\* IngestQueue keeps its books through every mix of pushes, evictions, pops, clears,
\* closes and reopens, also those made from the accepted callback, also when that
\* pushes again or throws, for every set of packets, every limit, overflow policy and
\* drain mode: queued_payload_bytes is the sum of the queued payloads and the clamping
\* subtractions never clamp, max_packets (and with reject_new max_payload_bytes) is
\* kept, every packet is accounted for once and missing from the accepted ones exactly
\* when a handler threw, and a device's count is the number of its queued packets or
\* one more.
THEOREM QueueKeepsItsBooks == QueueSpec => []QueueAccounts
BY InitQInv, NextQInv, QInvAccounts, PTL DEF QueueSpec
=============================================================================
