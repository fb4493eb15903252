------------------------ MODULE ControlObjectsProofs ------------------------
(***************************************************************************)
(* Proofs about CommandJournal and about AckTracker, each on its own, for  *)
(* all constants that satisfy their assumptions.                           *)
(*                                                                         *)
(* Every step of the journal changes the unfinished commands in one of     *)
(* three ways (Step): one fresh command joins; a set of them is settled    *)
(* and counted while a set of them is sent once more; or the journal       *)
(* starts over.  The bound on the number of sends needs more than the      *)
(* counters: the sends that the unfinished commands may still make (Left)  *)
(* are kept as a set of pairs, from which every send takes one away.       *)
(*                                                                         *)
(* The tracker's property is inductive once it is known that a record      *)
(* requires at least one acceptance and is in one of the four states.      *)
(***************************************************************************)
EXTENDS CommandJournal, AckTracker, SumTheorems

Entry == [command : Command, state : States, attempts : Nat, last_send : Nat, next_attempt : Nat]

-----------------------------------------------------------------------------
(* The retry delay.                                                        *)

\* What the loop of retry_delay() has computed after i attempts, given delay.
Grown(delay, i) == IF i <= 1 THEN InitialDelay ELSE SaturatingMultiply(delay[i - 1])

Delays(n) == {delay \in [0..n -> Nat] : \A i \in 0..n : delay[i] = Grown(delay, i)}

\* Growing a delay yields a number.
LEMMA MultiplyType ==
    ASSUME JournalAssumption
    PROVE  InitialDelay \in Nat /\ \A v \in Nat : SaturatingMultiply(v) \in Nat
BY DEF JournalAssumption, SaturatingMultiply

\* The loop can be run for any number of attempts.
LEMMA DelaysExist == ASSUME JournalAssumption PROVE \A n \in Nat : Delays(n) # {}
<1> DEFINE T == {n \in Nat : Delays(n) = {}}
<1> SUFFICES ASSUME T # {} PROVE FALSE
    OBVIOUS
<1>1. PICK m \in T : \A k \in T : m <= k
    BY LeastNumber
<1>2. m \in Nat /\ Delays(m) = {}
    OBVIOUS
<1>3. CASE m = 0
    <2>1. [i \in 0..0 |-> InitialDelay] \in Delays(0)
        BY MultiplyType DEF Delays, Grown
    <2> QED
        BY <1>2, <1>3, <2>1
<1>4. CASE m # 0
    <2>1. m - 1 \in Nat /\ Delays(m - 1) # {}
        BY <1>1, <1>2, <1>4
    <2>2. PICK f \in [0..(m - 1) -> Nat] : \A i \in 0..(m - 1) : f[i] = Grown(f, i)
        BY <2>1 DEF Delays
    <2> DEFINE v == Grown(f, m)
               g == [i \in 0..m |-> IF i < m THEN f[i] ELSE v]
    <2>3. v \in Nat
        BY <1>2, <1>4, <2>1, MultiplyType DEF Grown
    <2> HIDE DEF v
    <2>4. g \in [0..m -> Nat]
        BY <1>2, <2>3
    <2>5. \A i \in 0..m : g[i] = Grown(g, i)
        <3>1. \A i \in 0..(m - 1) : g[i] = f[i]
            BY <1>2
        <3>2. \A i \in 0..m : Grown(g, i) = Grown(f, i)
            BY <1>2, <3>1 DEF Grown
        <3>3. \A i \in 0..m : g[i] = Grown(f, i)
            BY <1>2, <2>2 DEF v
        <3> QED
            BY <3>2, <3>3
    <2> HIDE DEF g
    <2> QED
        BY <1>2, <2>4, <2>5 DEF Delays
<1> QED
    BY <1>3, <1>4

\* retry_delay() yields a number, never above max_delay_ns after an attempt.
LEMMA RetryDelayBound ==
    ASSUME JournalAssumption
    PROVE  \A n \in Nat : RetryDelay(n) \in Nat /\ (n > 0 => RetryDelay(n) <= MaxDelay)
<1> SUFFICES ASSUME NEW n \in Nat
             PROVE  RetryDelay(n) \in Nat /\ (n > 0 => RetryDelay(n) <= MaxDelay)
    OBVIOUS
<1> DEFINE Run(f) == f = [i \in 0..n |-> IF i <= 1 THEN InitialDelay
                                         ELSE SaturatingMultiply(f[i - 1])]
           delay == CHOOSE f : Run(f)
<1>1. PICK f \in [0..n -> Nat] : \A i \in 0..n : f[i] = Grown(f, i)
    BY DelaysExist DEF Delays
<1>2. Run(f)
    BY <1>1 DEF Grown
<1>3. Run(delay)
    BY <1>2
<1> HIDE DEF delay
<1>4. \A i \in 0..n : delay[i] = Grown(delay, i)
    BY <1>3 DEF Grown
<1>5. \A i \in 0..n : delay[i] = f[i]
    <2> DEFINE T == {i \in 0..n : delay[i] # f[i]}
    <2> SUFFICES ASSUME T # {} PROVE FALSE
        OBVIOUS
    <2>1. PICK m \in T : \A k \in T : m <= k
        <3>1. T \subseteq Nat
            OBVIOUS
        <3> HIDE DEF T
        <3> QED
            BY <3>1, LeastNumber
    <2>2. m \in 0..n /\ delay[m] # f[m]
        OBVIOUS
    <2>3. m > 1
        BY <1>1, <1>4, <2>2 DEF Grown
    <2>4. m - 1 \in 0..n /\ delay[m - 1] = f[m - 1]
        BY <2>1, <2>2, <2>3
    <2> QED
        BY <1>1, <1>4, <2>2, <2>3, <2>4 DEF Grown
<1>6. delay[n] \in Nat /\ MaxDelay \in Nat /\ InitialDelay \in Nat
    BY <1>1, <1>5 DEF JournalAssumption
<1>7. RetryDelay(n) = IF n = 0 THEN InitialDelay
                      ELSE IF delay[n] < MaxDelay THEN delay[n] ELSE MaxDelay
    BY DEF RetryDelay, delay
<1> QED
    BY <1>6, <1>7

-----------------------------------------------------------------------------
(* Type correctness.                                                       *)

\* The entries an operation writes are entries.
LEMMA EntryTypes ==
    ASSUME JournalAssumption, NEW e \in Entry
    PROVE  /\ \A s \in States : WithState(e, s) \in Entry
           /\ \A now \in Time : Sent(e, now) \in Entry
           /\ \A now \in Time : Handled(e, now) \in Entry
           /\ \A a \in Acks : Acknowledged(e, a) \in Entry
<1>1. \A s \in States : WithState(e, s) \in Entry
    BY DEF WithState, Entry
<1>2. RetryDelay(e.attempts + 1) \in Nat
    BY RetryDelayBound DEF Entry
<1>3. \A now \in Time : Sent(e, now) \in Entry
    BY <1>2 DEF Sent, Entry, States, JournalAssumption
<1>4. \A now \in Time : Handled(e, now) \in Entry
    <2>1. {"expired", "failed"} \subseteq States
        BY DEF States, TerminalStates
    <2> QED
        BY <1>1, <1>3, <2>1 DEF Handled
<1>5. ASSUME NEW a \in Acks PROVE Acknowledged(e, a) \in Entry
    <2>1. {"acknowledged", "failed", "pending"} \subseteq States
        BY DEF States, TerminalStates
    <2>2. a.time \in Nat
        BY DEF JournalAssumption, Ack
    <2> DEFINE p == WithState(e, "pending")
               at == a.time + RetryDelay(e.attempts + 1)
    <2>3. p \in Entry /\ at \in Nat
        BY <1>1, <1>2, <2>1, <2>2
    <2>4. [p EXCEPT !.next_attempt = at] \in Entry
        <3> HIDE DEF p, at
        <3> QED
            BY <2>3 DEF Entry
    <2> QED
        BY <1>1, <2>1, <2>4 DEF Acknowledged
<1> QED
    BY <1>1, <1>3, <1>4, <1>5

\* The journal is finite, so every set of stored ids has a size.
LEMMA EntriesFinite ==
    ASSUME JournalAssumption, TypeOK, NEW S, S \subseteq DOMAIN entries
    PROVE  IsFiniteSet(S) /\ Cardinality(S) \in Nat
<1>1. IsFiniteSet(1..MaxId)
    BY FS_Interval DEF JournalAssumption
<1>2. S \subseteq 1..MaxId
    BY DEF TypeOK
<1>3. IsFiniteSet(S)
    BY <1>1, <1>2, FS_Subset
<1> QED
    BY <1>3, FS_CardinalityType

\* The sizes by which due() and expire() count are numbers.
LEMMA CountsFinite ==
    ASSUME JournalAssumption, TypeOK, NEW now, NEW max
    PROVE  /\ Cardinality({i \in Visited(now, max) : Overdue(entries[i], now)}) \in Nat
           /\ Cardinality({i \in Visited(now, max) : /\ DueNow(entries[i], now)
                                                     /\ Exhausted(entries[i])}) \in Nat
           /\ Cardinality(Dispatched(now, max)) \in Nat
           /\ Cardinality({i \in DOMAIN entries : Overdue(entries[i], now)}) \in Nat
<1>1. /\ {i \in Visited(now, max) : Overdue(entries[i], now)} \subseteq DOMAIN entries
      /\ {i \in Visited(now, max) : /\ DueNow(entries[i], now)
                                    /\ Exhausted(entries[i])} \subseteq DOMAIN entries
      /\ Dispatched(now, max) \subseteq DOMAIN entries
      /\ {i \in DOMAIN entries : Overdue(entries[i], now)} \subseteq DOMAIN entries
    BY DEF Visited, Dispatched
<1> QED
    BY <1>1, EntriesFinite

\* A step of any operation of the journal keeps the types.
LEMMA NextType == ASSUME JournalAssumption PROVE TypeOK /\ [Next]_vars => TypeOK'
<1> SUFFICES ASSUME TypeOK, [Next]_vars PROVE TypeOK'
    OBVIOUS
<1>0. \A i \in DOMAIN entries : entries[i] \in Entry /\ i \in Nat
    BY DEF TypeOK, Entry
<1>1. /\ DOMAIN jstats = DOMAIN ZeroStats
      /\ jstats \in [DOMAIN ZeroStats -> Nat]
    BY DEF TypeOK
<1>2. ASSUME NEW c \in Commands, AppendAccepted(c) PROVE TypeOK'
    <2> DEFINE id == IF c.id = 0 THEN nextId ELSE c.id
    <2>1. c \in Command /\ MaxId \in Nat
        BY DEF JournalAssumption
    <2>2. id \in 1..MaxId /\ nextId' \in Nat \ {0} /\ id < nextId' /\ nextId <= nextId'
        BY <1>2, <2>1 DEF AppendAccepted, NextIdAfter, TypeOK, Command
    <2>3. id \in Nat /\ NewEntry(c, id) \in Entry
        BY <2>1, <2>2 DEF NewEntry, Entry, States, Command, JournalAssumption
    <2>4. jstats' \in [DOMAIN ZeroStats -> Nat]
        BY <1>1, <1>2 DEF AppendAccepted, ZeroStats
    <2>5. entries' = [i \in DOMAIN entries \cup {id} |->
                         IF i = id THEN NewEntry(c, id) ELSE entries[i]]
        BY <1>2 DEF AppendAccepted
    <2> HIDE DEF id
    <2>6. /\ DOMAIN entries' = DOMAIN entries \cup {id}
          /\ entries' \in [DOMAIN entries' -> Entry]
        BY <1>0, <2>3, <2>5
    <2>7. DOMAIN entries' \subseteq 1..MaxId /\ \A i \in DOMAIN entries' : i < nextId'
        BY <1>0, <2>2, <2>6 DEF TypeOK
    <2> QED
        BY <2>2, <2>4, <2>6, <2>7 DEF TypeOK, Entry
<1>3. ASSUME NEW c \in Commands, AppendRejected(c) PROVE TypeOK'
    <2>1. jstats' \in [DOMAIN ZeroStats -> Nat]
        BY <1>1, <1>3 DEF AppendRejected, ZeroStats
    <2> QED
        BY <1>3, <2>1 DEF AppendRejected, TypeOK
<1>4. ASSUME DOMAIN entries' = DOMAIN entries, entries' \in [DOMAIN entries -> Entry],
             jstats' \in [DOMAIN ZeroStats -> Nat], nextId' = nextId
      PROVE  TypeOK'
    BY <1>4 DEF TypeOK, Entry
<1>5. ASSUME NEW now \in Time, NEW max \in DueCounts, Due(now, max) PROVE TypeOK'
    <2>1. \A i \in DOMAIN entries : Handled(entries[i], now) \in Entry
        BY <1>0, EntryTypes
    <2>2. DOMAIN entries' = DOMAIN entries /\ entries' \in [DOMAIN entries -> Entry]
        BY <1>0, <1>5, <2>1 DEF Due
    <2> DEFINE x == Cardinality({i \in Visited(now, max) : Overdue(entries[i], now)})
               f == Cardinality({i \in Visited(now, max) : /\ DueNow(entries[i], now)
                                                           /\ Exhausted(entries[i])})
               n == Cardinality(Dispatched(now, max))
    <2>3. x \in Nat /\ f \in Nat /\ n \in Nat
        BY CountsFinite
    <2>4. jstats' = [jstats EXCEPT !.expired = @ + x, !.failed = @ + f, !.dispatched = @ + n]
        BY <1>5 DEF Due
    <2> HIDE DEF x, f, n
    <2>5. jstats' \in [DOMAIN ZeroStats -> Nat]
        <3> DEFINE p == [jstats EXCEPT !.expired = @ + x]
                   q == [p EXCEPT !.failed = @ + f]
        <3>1. p \in [DOMAIN ZeroStats -> Nat]
            BY <1>1, <2>3 DEF ZeroStats
        <3>2. jstats' = [q EXCEPT !.dispatched = @ + n]
            BY <2>4
        <3> HIDE DEF p
        <3>3. q \in [DOMAIN ZeroStats -> Nat]
            BY <2>3, <3>1 DEF ZeroStats
        <3> HIDE DEF q
        <3> QED
            BY <2>3, <3>2, <3>3 DEF ZeroStats
    <2> QED
        BY <1>4, <1>5, <2>2, <2>5 DEF Due
<1>6. ASSUME NEW a \in Acks, Acknowledge(a) PROVE TypeOK'
    <2>1. CASE AckApplies(a)
        <3>1. a.command_id \in DOMAIN entries /\ Acknowledged(entries[a.command_id], a) \in Entry
            BY <1>0, <2>1, EntryTypes DEF AckApplies
        <3>2. DOMAIN entries' = DOMAIN entries /\ entries' \in [DOMAIN entries -> Entry]
            BY <1>0, <1>6, <2>1, <3>1 DEF Acknowledge
        <3>3. jstats' \in [DOMAIN ZeroStats -> Nat]
            BY <1>1, <1>6, <2>1 DEF Acknowledge
        <3> QED
            BY <1>4, <1>6, <3>2, <3>3 DEF Acknowledge
    <2>2. CASE ~AckApplies(a)
        BY <1>6, <2>2 DEF Acknowledge, TypeOK
    <2> QED
        BY <2>1, <2>2
<1>7. ASSUME NEW id \in DOMAIN entries, Cancel(id) PROVE TypeOK'
    <2>1. WithState(entries[id], "cancelled") \in Entry
        BY <1>0, EntryTypes DEF States, TerminalStates
    <2>2. DOMAIN entries' = DOMAIN entries /\ entries' \in [DOMAIN entries -> Entry]
        BY <1>0, <1>7, <2>1 DEF Cancel
    <2>3. jstats' \in [DOMAIN ZeroStats -> Nat]
        BY <1>1, <1>7 DEF Cancel, ZeroStats
    <2> QED
        BY <1>4, <1>7, <2>2, <2>3 DEF Cancel
<1>8. ASSUME NEW now \in Time, Expire(now) PROVE TypeOK'
    <2>1. \A i \in DOMAIN entries : WithState(entries[i], "expired") \in Entry
        BY <1>0, EntryTypes DEF States, TerminalStates
    <2>2. DOMAIN entries' = DOMAIN entries /\ entries' \in [DOMAIN entries -> Entry]
        BY <1>0, <1>8, <2>1 DEF Expire
    <2> DEFINE x == Cardinality({i \in DOMAIN entries : Overdue(entries[i], now)})
    <2>3. x \in Nat
        BY CountsFinite
    <2>4. jstats' = [jstats EXCEPT !.expired = @ + x]
        BY <1>8 DEF Expire
    <2> HIDE DEF x
    <2>5. jstats' \in [DOMAIN ZeroStats -> Nat]
        BY <1>1, <2>3, <2>4 DEF ZeroStats
    <2> QED
        BY <1>4, <1>8, <2>2, <2>5 DEF Expire
<1>9. ASSUME NEW keep \in 0..MaxEntries, CompactCompleted(keep) PROVE TypeOK'
    BY <1>9 DEF CompactCompleted, TypeOK
<1>10. ASSUME Clear PROVE TypeOK'
    BY <1>10 DEF Clear, TypeOK, ZeroStats
<1>11. ASSUME UNCHANGED vars PROVE TypeOK'
    BY <1>11 DEF vars, TypeOK
<1> QED
    BY <1>2, <1>3, <1>5, <1>6, <1>7, <1>8, <1>9, <1>10, <1>11 DEF Next

\* The journal keeps its types: every entry is one the code can hold, with a
\* retry time computed by retry_delay(), and every stored id is below next_id_.
THEOREM JournalTypes == ASSUME JournalAssumption PROVE Spec => []TypeOK
<1>1. Init => TypeOK
    BY DEF Init, TypeOK, ZeroStats
<1> QED
    BY <1>1, NextType, PTL DEF Spec

-----------------------------------------------------------------------------
(* The unfinished commands.                                                *)

Settled == jstats.acknowledged + jstats.failed + jstats.expired + jstats.cancelled

\* The entries that stay were sent as often as before, those of S once more.
SentAgain(S) ==
    \A i \in DOMAIN entries \cap DOMAIN entries' :
        entries'[i].attempts = entries[i].attempts + (IF i \in S THEN 1 ELSE 0)

Joins(id) ==
    /\ id \in DOMAIN entries' \ DOMAIN entries
    /\ DOMAIN entries' = DOMAIN entries \cup {id} /\ Active' = Active \cup {id}
    /\ entries'[id].attempts = 0 /\ SentAgain({})
    /\ jstats'.appended = jstats.appended + 1 /\ jstats'.dispatched = jstats.dispatched
    /\ Settled' = Settled

Proceeds(S, D) ==
    /\ S \subseteq Active /\ D \subseteq Active \ S
    /\ DOMAIN entries' \subseteq DOMAIN entries /\ Active' = Active \ S
    /\ SentAgain(D) /\ \A i \in D : entries[i].attempts < MaxAttempts
    /\ jstats'.appended = jstats.appended
    /\ jstats'.dispatched = jstats.dispatched + Cardinality(D)
    /\ Settled' = Settled + Cardinality(S)

StartsOver ==
    /\ entries' = << >> /\ Active' = {}
    /\ jstats'.appended = 0 /\ jstats'.dispatched = 0 /\ Settled' = 0

Step ==
    \/ \E id \in Nat : Joins(id)
    \/ \E S \in SUBSET Active : \E D \in SUBSET (Active \ S) : Proceeds(S, D)
    \/ StartsOver

\* What due() does to one entry: it expires or fails an unfinished one, sends
\* one that has attempts left, and leaves the others alone.
LEMMA HandledEntry ==
    ASSUME JournalAssumption, NEW e \in Entry, NEW now \in Time
    PROVE  /\ Overdue(e, now) => /\ ~Terminal(e.state) /\ Terminal(Handled(e, now).state)
                                 /\ ~DueNow(e, now)
                                 /\ Handled(e, now).attempts = e.attempts
           /\ DueNow(e, now) /\ Exhausted(e) =>
                                 /\ ~Terminal(e.state) /\ Terminal(Handled(e, now).state)
                                 /\ Handled(e, now).attempts = e.attempts
           /\ DueNow(e, now) /\ ~Exhausted(e) =>
                                 /\ ~Terminal(e.state) /\ ~Terminal(Handled(e, now).state)
                                 /\ Handled(e, now).attempts = e.attempts + 1
                                 /\ e.attempts < MaxAttempts
           /\ ~Overdue(e, now) /\ ~DueNow(e, now) => Handled(e, now) = e
<1> USE DEF Terminal, TerminalStates
<1>1. ASSUME Overdue(e, now) PROVE ~DueNow(e, now) /\ Handled(e, now) = WithState(e, "expired")
    BY <1>1 DEF DueNow, Handled
<1>2. ASSUME DueNow(e, now), Exhausted(e) PROVE Handled(e, now) = WithState(e, "failed")
    BY <1>2 DEF DueNow, Handled
<1>3. ASSUME DueNow(e, now), ~Exhausted(e) PROVE Handled(e, now) = Sent(e, now)
    BY <1>3 DEF DueNow, Handled
<1>4. ASSUME ~Overdue(e, now), ~DueNow(e, now) PROVE Handled(e, now) = e
    BY <1>4 DEF Handled
<1>5. ASSUME NEW s \in States
      PROVE  WithState(e, s).state = s /\ WithState(e, s).attempts = e.attempts
    BY DEF WithState, Entry
<1>6. Sent(e, now).state = "sent" /\ Sent(e, now).attempts = e.attempts + 1
    BY DEF Sent
<1>7. ~Exhausted(e) => e.attempts < MaxAttempts
    BY DEF Exhausted, Entry, JournalAssumption
<1>8. Overdue(e, now) \/ DueNow(e, now) => ~Terminal(e.state)
    BY DEF Overdue, DueNow
<1> QED
    BY <1>1, <1>2, <1>3, <1>4, <1>5, <1>6, <1>7, <1>8 DEF States

\* due() settles the visited entries that are overdue or exhausted, and sends
\* the visited ones that are due.
LEMMA DueProceeds ==
    ASSUME JournalAssumption, TypeOK, NEW now \in Time, NEW max \in DueCounts, Due(now, max)
    PROVE  \E S \in SUBSET Active : \E D \in SUBSET (Active \ S) : Proceeds(S, D)
<1> DEFINE V == Visited(now, max)
           X == {i \in V : Overdue(entries[i], now)}
           F == {i \in V : DueNow(entries[i], now) /\ Exhausted(entries[i])}
           D == Dispatched(now, max)
<1>0. \A i \in DOMAIN entries : entries[i] \in Entry
    BY DEF TypeOK, Entry
<1>1. V \subseteq DOMAIN entries
    BY DEF Visited
<1>2. D = {i \in V : DueNow(entries[i], now) /\ ~Exhausted(entries[i])}
    BY DEF Dispatched, Dispatchable, Visited
<1>3. /\ DOMAIN entries' = DOMAIN entries
      /\ \A i \in DOMAIN entries :
            entries'[i] = IF i \in V THEN Handled(entries[i], now) ELSE entries[i]
    BY DEF Due
<1>4. jstats' = [jstats EXCEPT !.expired = @ + Cardinality(X), !.failed = @ + Cardinality(F),
                               !.dispatched = @ + Cardinality(D)]
    BY DEF Due
<1>5. Cardinality(X) \in Nat /\ Cardinality(F) \in Nat /\ Cardinality(D) \in Nat
    BY CountsFinite
<1> HIDE DEF V, D
<1>6. /\ X \cup F \subseteq Active /\ D \subseteq Active \ (X \cup F) /\ X \cap F = {}
      /\ Active' = Active \ (X \cup F)
      /\ SentAgain(D) /\ \A i \in D : entries[i].attempts < MaxAttempts
    <2>1. ASSUME NEW i \in DOMAIN entries
          PROVE  /\ i \in X \cup F => ~Terminal(entries[i].state) /\ Terminal(entries'[i].state)
                 /\ i \in D => /\ ~Terminal(entries[i].state) /\ ~Terminal(entries'[i].state)
                               /\ entries'[i].attempts = entries[i].attempts + 1
                               /\ entries[i].attempts < MaxAttempts
                 /\ i \notin D => entries'[i].attempts = entries[i].attempts
                 /\ i \notin X \cup F \cup D => entries'[i] = entries[i]
                 /\ ~(i \in X /\ i \in F)
        BY <1>0, <1>2, <1>3, HandledEntry
    <2>2. \A i \in D : i \notin X \cup F
        BY <1>1, <1>2, <2>1
    <2>3. X \subseteq DOMAIN entries /\ F \subseteq DOMAIN entries /\ D \subseteq DOMAIN entries
        BY <1>1, <1>2
    <2>4. \A i \in DOMAIN entries : entries[i].attempts \in Nat
        BY <1>0 DEF Entry
    <2> HIDE DEF X, F
    <2>5. /\ X \cup F \subseteq Active /\ D \subseteq Active \ (X \cup F) /\ X \cap F = {}
          /\ \A i \in D : entries[i].attempts < MaxAttempts
        BY <2>1, <2>2, <2>3 DEF Active
    <2>6. Active' = Active \ (X \cup F)
        BY <1>3, <2>1, <2>2 DEF Active
    <2>7. SentAgain(D)
        BY <1>3, <2>1, <2>4 DEF SentAgain
    <2> QED
        BY <2>5, <2>6, <2>7
<1>7. Cardinality(X \cup F) = Cardinality(X) + Cardinality(F)
    <2>1. IsFiniteSet(X) /\ IsFiniteSet(F)
        BY <1>1, EntriesFinite
    <2> HIDE DEF X, F
    <2>2. Cardinality(X \cap F) = 0
        BY <1>6, FS_EmptySet
    <2>3. Cardinality(X \cup F) = Cardinality(X) + Cardinality(F) - Cardinality(X \cap F)
        BY <2>1, FS_Union
    <2> QED
        BY <1>5, <2>2, <2>3
<1> HIDE DEF X, F
<1>8. /\ jstats'.appended = jstats.appended
      /\ jstats'.dispatched = jstats.dispatched + Cardinality(D)
      /\ Settled' = Settled + Cardinality(X \cup F)
    <2>1. /\ jstats'.appended = jstats.appended /\ jstats'.cancelled = jstats.cancelled
          /\ jstats'.acknowledged = jstats.acknowledged
          /\ jstats'.expired = jstats.expired + Cardinality(X)
          /\ jstats'.failed = jstats.failed + Cardinality(F)
          /\ jstats'.dispatched = jstats.dispatched + Cardinality(D)
        BY <1>4, <1>5 DEF TypeOK, ZeroStats
    <2>2. /\ jstats.acknowledged \in Nat /\ jstats.failed \in Nat /\ jstats.expired \in Nat
          /\ jstats.cancelled \in Nat
        BY DEF TypeOK, ZeroStats
    <2> QED
        BY <1>5, <1>7, <2>1, <2>2 DEF Settled
<1>9. Proceeds(X \cup F, D)
    BY <1>3, <1>6, <1>8 DEF Proceeds
<1> QED
    BY <1>6, <1>9

\* Replacing one unfinished entry settles it or keeps it.
LEMMA ReplaceEntry ==
    ASSUME TypeOK, NEW id \in Active, NEW e \in Entry, e.attempts = entries[id].attempts,
           entries' = [entries EXCEPT ![id] = e]
    PROVE  /\ DOMAIN entries' = DOMAIN entries /\ SentAgain({})
           /\ Active' = IF Terminal(e.state) THEN Active \ {id} ELSE Active
<1>1. id \in DOMAIN entries /\ ~Terminal(entries[id].state)
    BY DEF Active
<1>2. DOMAIN entries' = DOMAIN entries
    OBVIOUS
<1>3. \A i \in DOMAIN entries : entries'[i] = IF i = id THEN e ELSE entries[i]
    OBVIOUS
<1>4. \A i \in DOMAIN entries : entries[i].attempts \in Nat
    BY DEF TypeOK
<1>5. SentAgain({})
    BY <1>2, <1>3, <1>4 DEF SentAgain
<1> QED
    BY <1>1, <1>2, <1>3, <1>5 DEF Active

\* Every operation of the journal is one of the three kinds.
LEMMA StepKinds == ASSUME JournalAssumption PROVE TypeOK /\ [Next]_vars => Step
<1> SUFFICES ASSUME TypeOK, [Next]_vars PROVE Step
    OBVIOUS
<1>0. \A i \in DOMAIN entries : entries[i] \in Entry /\ i \in Nat /\ entries[i].attempts \in Nat
    BY DEF TypeOK, Entry
<1>1. Active \subseteq DOMAIN entries /\ \A i \in Active : ~Terminal(entries[i].state)
    BY DEF Active
<1>2. /\ DOMAIN jstats = {"appended", "dispatched", "acknowledged", "failed", "expired",
                          "cancelled", "duplicate_rejections"}
      /\ \A f \in DOMAIN jstats : jstats[f] \in Nat
    BY DEF TypeOK, ZeroStats
<1>3. Settled \in Nat /\ jstats.dispatched \in Nat /\ Cardinality({}) = 0
    BY <1>2, FS_EmptySet DEF Settled
<1>4. ASSUME DOMAIN entries' \subseteq DOMAIN entries, Active' = Active, SentAgain({}),
             jstats'.appended = jstats.appended, jstats'.dispatched = jstats.dispatched,
             Settled' = Settled
      PROVE  Step
    <2>1. Proceeds({}, {})
        BY <1>3, <1>4 DEF Proceeds
    <2> QED
        BY <2>1 DEF Step
<1>5. ASSUME NEW S \in SUBSET Active, DOMAIN entries' = DOMAIN entries, Active' = Active \ S,
             SentAgain({}), jstats'.appended = jstats.appended,
             jstats'.dispatched = jstats.dispatched, Settled' = Settled + Cardinality(S)
      PROVE  Step
    <2>1. Proceeds(S, {})
        BY <1>3, <1>5 DEF Proceeds
    <2> QED
        BY <2>1 DEF Step
<1>6. ASSUME NEW c \in Commands, AppendAccepted(c) PROVE Step
    <2> DEFINE id == IF c.id = 0 THEN nextId ELSE c.id
    <2>1. id \notin DOMAIN entries /\ id \in Nat
        BY <1>6 DEF AppendAccepted, IdTaken, TypeOK, JournalAssumption, Command
    <2>2. entries' = [i \in DOMAIN entries \cup {id} |->
                         IF i = id THEN NewEntry(c, id) ELSE entries[i]]
        BY <1>6 DEF AppendAccepted
    <2>3. NewEntry(c, id).attempts = 0 /\ NewEntry(c, id).state = "pending"
        BY DEF NewEntry
    <2>4. /\ jstats'.appended = jstats.appended + 1 /\ jstats'.dispatched = jstats.dispatched
          /\ Settled' = Settled
        BY <1>2, <1>6 DEF AppendAccepted, Settled
    <2> HIDE DEF id
    <2>5. /\ DOMAIN entries' = DOMAIN entries \cup {id}
          /\ entries'[id].attempts = 0 /\ entries'[id].state = "pending"
          /\ \A i \in DOMAIN entries : entries'[i] = entries[i]
        BY <2>1, <2>2, <2>3
    <2>6. SentAgain({})
        BY <1>0, <2>5 DEF SentAgain
    <2>7. Active' = Active \cup {id}
        BY <2>1, <2>5 DEF Active, Terminal, TerminalStates
    <2>8. Joins(id)
        BY <2>1, <2>4, <2>5, <2>6, <2>7 DEF Joins
    <2> QED
        BY <2>1, <2>8 DEF Step
<1>7. ASSUME NEW c \in Commands, AppendRejected(c) PROVE Step
    <2>1. entries' = entries
        BY <1>7 DEF AppendRejected
    <2>2. SentAgain({}) /\ Active' = Active
        BY <1>0, <2>1 DEF SentAgain, Active
    <2>3. /\ jstats'.appended = jstats.appended /\ jstats'.dispatched = jstats.dispatched
          /\ Settled' = Settled
        BY <1>2, <1>7 DEF AppendRejected, Settled
    <2> QED
        BY <1>4, <2>1, <2>2, <2>3
<1>8. ASSUME NEW now \in Time, NEW max \in DueCounts, Due(now, max) PROVE Step
    BY <1>8, DueProceeds DEF Step
<1>9. ASSUME NEW a \in Acks, Acknowledge(a), AckApplies(a) PROVE Step
    <2> DEFINE id == a.command_id
               e == Acknowledged(entries[id], a)
    <2>1. id \in Active
        BY <1>9 DEF AckApplies, Active
    <2>2. e \in Entry /\ e.attempts = entries[id].attempts
        BY <1>0, <1>1, <2>1, EntryTypes DEF Acknowledged, WithState, Entry
    <2>3. Terminal(e.state) <=> a.status # "busy"
        BY <1>0, <1>1, <2>1 DEF Acknowledged, WithState, Entry, Terminal, TerminalStates
    <2>4. entries' = [entries EXCEPT ![id] = e]
        BY <1>9 DEF Acknowledge
    <2>5. /\ DOMAIN entries' = DOMAIN entries /\ SentAgain({})
          /\ Active' = IF Terminal(e.state) THEN Active \ {id} ELSE Active
        <3> HIDE DEF e, id
        <3> QED
            BY <2>1, <2>2, <2>4, ReplaceEntry
    <2>6. jstats' = [f \in DOMAIN jstats |->
                        IF f \in AckOutcome(a.status) THEN jstats[f] + 1 ELSE jstats[f]]
        BY <1>9 DEF Acknowledge
    <2>7. /\ jstats'.appended = jstats.appended /\ jstats'.dispatched = jstats.dispatched
          /\ Settled' = IF a.status = "busy" THEN Settled ELSE Settled + 1
        BY <1>2, <2>6 DEF AckOutcome, Settled
    <2> HIDE DEF id, e
    <2>8. Cardinality({id}) = 1
        BY FS_Singleton
    <2> QED
        BY <1>4, <1>5, <2>1, <2>3, <2>5, <2>7, <2>8
<1>10. ASSUME NEW a \in Acks, Acknowledge(a), ~AckApplies(a) PROVE Step
    <2>1. entries' = entries /\ jstats' = jstats
        BY <1>10 DEF Acknowledge
    <2>2. SentAgain({}) /\ Active' = Active /\ Settled' = Settled
        BY <1>0, <2>1 DEF SentAgain, Active, Settled
    <2> QED
        BY <1>4, <2>1, <2>2
<1>11. ASSUME NEW id \in DOMAIN entries, Cancel(id) PROVE Step
    <2> DEFINE e == WithState(entries[id], "cancelled")
    <2>1. id \in Active
        BY <1>11 DEF Cancel, Active
    <2>2. e \in Entry /\ e.attempts = entries[id].attempts /\ Terminal(e.state)
        BY <1>0 DEF WithState, Entry, States, Terminal, TerminalStates
    <2>3. entries' = [entries EXCEPT ![id] = e]
        BY <1>11 DEF Cancel
    <2> HIDE DEF e
    <2>4. DOMAIN entries' = DOMAIN entries /\ SentAgain({}) /\ Active' = Active \ {id}
        BY <2>1, <2>2, <2>3, ReplaceEntry
    <2>5. /\ jstats'.appended = jstats.appended /\ jstats'.dispatched = jstats.dispatched
          /\ Settled' = Settled + 1
        BY <1>2, <1>11 DEF Cancel, Settled
    <2>6. Cardinality({id}) = 1
        BY FS_Singleton
    <2> QED
        BY <1>5, <2>1, <2>4, <2>5, <2>6
<1>12. ASSUME NEW now \in Time, Expire(now) PROVE Step
    <2> DEFINE X == {i \in DOMAIN entries : Overdue(entries[i], now)}
    <2>1. X \subseteq Active /\ X \subseteq DOMAIN entries
        BY DEF Overdue, Active
    <2>2. Cardinality(X) \in Nat
        BY CountsFinite
    <2>3. /\ DOMAIN entries' = DOMAIN entries
          /\ \A i \in DOMAIN entries :
                entries'[i] = IF i \in X THEN WithState(entries[i], "expired") ELSE entries[i]
        BY <1>12 DEF Expire
    <2>4. \A i \in DOMAIN entries : /\ WithState(entries[i], "expired").attempts = entries[i].attempts
                                    /\ Terminal(WithState(entries[i], "expired").state)
        BY <1>0 DEF WithState, Entry, Terminal, TerminalStates
    <2>5. jstats' = [jstats EXCEPT !.expired = @ + Cardinality(X)]
        BY <1>12 DEF Expire
    <2> HIDE DEF X
    <2>6. /\ jstats'.appended = jstats.appended /\ jstats'.dispatched = jstats.dispatched
          /\ Settled' = Settled + Cardinality(X)
        BY <1>2, <2>2, <2>5 DEF Settled
    <2>7. SentAgain({})
        BY <1>0, <2>3, <2>4 DEF SentAgain
    <2>8. Active' = Active \ X
        BY <2>1, <2>3, <2>4 DEF Active
    <2> QED
        BY <1>5, <2>1, <2>3, <2>6, <2>7, <2>8
<1>13. ASSUME NEW keep \in 0..MaxEntries, CompactCompleted(keep) PROVE Step
    <2>1. Removable(keep) \cap Active = {}
        BY DEF Removable
    <2>2. entries' = [i \in DOMAIN entries \ Removable(keep) |-> entries[i]] /\ jstats' = jstats
        BY <1>13 DEF CompactCompleted
    <2>3. Active' = Active /\ SentAgain({}) /\ DOMAIN entries' \subseteq DOMAIN entries
        BY <1>0, <2>1, <2>2 DEF Active, SentAgain
    <2> QED
        BY <1>4, <2>2, <2>3 DEF Settled
<1>14. ASSUME Clear PROVE Step
    <2>1. StartsOver
        BY <1>14 DEF Clear, StartsOver, Active, Settled, ZeroStats
    <2> QED
        BY <2>1 DEF Step
<1>15. ASSUME UNCHANGED vars PROVE Step
    <2>1. entries' = entries /\ jstats' = jstats
        BY <1>15 DEF vars
    <2>2. SentAgain({}) /\ Active' = Active /\ Settled' = Settled
        BY <1>0, <2>1 DEF SentAgain, Active, Settled
    <2> QED
        BY <1>4, <2>1, <2>2
<1> QED
    BY <1>6, <1>7, <1>8, <1>9, <1>10, <1>11, <1>12, <1>13, <1>14, <1>15 DEF Next

-----------------------------------------------------------------------------
(* Conservation and the budget of sends.                                   *)

\* The sends the unfinished commands may still make: command i its k-th.
Left == {p \in Active \X (1..MaxAttempts) : p[2] > entries[p[1]].attempts}

AttemptsBounded == \A i \in DOMAIN entries : entries[i].attempts <= MaxAttempts

BudgetKept == jstats.dispatched + Cardinality(Left) <= MaxAttempts * jstats.appended

JInv == TypeOK /\ CommandConservation /\ AttemptsBounded /\ BudgetKept

\* A set with one send for each command of D has the size of D.
LEMMA OneSendEach ==
    ASSUME NEW D, IsFiniteSet(D), NEW n \in [D -> Nat]
    PROVE  LET sends == {<<i, n[i]>> : i \in D}
           IN  IsFiniteSet(sends) /\ Cardinality(sends) = Cardinality(D)
<1> DEFINE sends == {<<i, n[i]>> : i \in D}
           f == [i \in D |-> <<i, n[i]>>]
<1>1. f \in Bijection(D, sends)
    BY DEF Bijection, Injection, Surjection, IsInjective
<1>2. ExistsBijection(D, sends)
    BY <1>1 DEF ExistsBijection
<1> HIDE DEF sends
<1>3. IsFiniteSet(sends) /\ Cardinality(sends) = Cardinality(D)
    BY <1>2, FS_Bijection
<1> QED
    BY <1>3 DEF sends

\* The sends left are finitely many.
LEMMA LeftFinite ==
    ASSUME JournalAssumption, TypeOK
    PROVE  IsFiniteSet(Left) /\ Cardinality(Left) \in Nat
<1>1. IsFiniteSet(Active)
    <2>1. Active \subseteq DOMAIN entries
        BY DEF Active
    <2> QED
        BY <2>1, EntriesFinite
<1>2. IsFiniteSet(1..MaxAttempts)
    BY FS_Interval DEF JournalAssumption
<1>3. IsFiniteSet(Active \X (1..MaxAttempts))
    BY <1>1, <1>2, FS_Product
<1>4. Left \subseteq Active \X (1..MaxAttempts)
    BY DEF Left
<1> QED
    BY <1>3, <1>4, FS_Subset, FS_CardinalityType

\* A fresh command brings at most max_attempts sends.
LEMMA LeftAfterJoin ==
    ASSUME JournalAssumption, TypeOK, NEW id \in Nat, Joins(id)
    PROVE  Cardinality(Left') <= Cardinality(Left) + MaxAttempts
<1> DEFINE N == {id} \X (1..MaxAttempts)
<1>0. \A i \in DOMAIN entries : entries[i].attempts \in Nat
    BY DEF TypeOK
<1>1. IsFiniteSet(N) /\ Cardinality(N) = MaxAttempts
    <2>1. IsFiniteSet({id}) /\ Cardinality({id}) = 1
        BY FS_Singleton
    <2>2. IsFiniteSet(1..MaxAttempts) /\ Cardinality(1..MaxAttempts) = MaxAttempts
        BY FS_Interval DEF JournalAssumption
    <2>3. IsFiniteSet(N) /\ Cardinality(N) = Cardinality({id}) * Cardinality(1..MaxAttempts)
        <3> DEFINE A == {id}
                   B == 1..MaxAttempts
        <3> HIDE DEF A, B
        <3>1. IsFiniteSet(A \X B) /\ Cardinality(A \X B) = Cardinality(A) * Cardinality(B)
            BY <2>1, <2>2, FS_Product DEF A, B
        <3> QED
            BY <3>1 DEF A, B
    <2> QED
        BY <2>1, <2>2, <2>3 DEF JournalAssumption
<1>2. Left' \subseteq Left \cup N
    <2>1. /\ Active' = Active \cup {id}
          /\ \A i \in Active : entries'[i].attempts = entries[i].attempts
        BY <1>0 DEF Joins, SentAgain, Active
    <2> QED
        BY <2>1 DEF Left
<1> HIDE DEF N
<1>3. IsFiniteSet(Left) /\ Cardinality(Left) \in Nat /\ MaxAttempts \in Nat
    BY LeftFinite DEF JournalAssumption
<1>4. /\ IsFiniteSet(Left \cup N)
      /\ Cardinality(Left \cup N) = Cardinality(Left) + Cardinality(N) - Cardinality(Left \cap N)
    BY <1>1, <1>3, FS_Union
<1>5. Cardinality(Left \cap N) \in Nat
    BY <1>3, FS_Intersection, FS_CardinalityType
<1>6. Cardinality(Left') <= Cardinality(Left \cup N) /\ Cardinality(Left') \in Nat
    BY <1>2, <1>4, FS_Subset, FS_CardinalityType
<1> QED
    BY <1>1, <1>3, <1>4, <1>5, <1>6

\* Every send takes one away, a settled command all it had.
LEMMA LeftAfterProceeding ==
    ASSUME JournalAssumption, TypeOK, NEW S \in SUBSET Active, NEW D \in SUBSET (Active \ S),
           Proceeds(S, D)
    PROVE  Cardinality(Left') + Cardinality(D) <= Cardinality(Left)
<1>0. \A i \in DOMAIN entries : entries[i].attempts \in Nat
    BY DEF TypeOK
<1>1. Active \subseteq DOMAIN entries /\ D \subseteq DOMAIN entries
    BY DEF Active
<1>2. IsFiniteSet(D) /\ Cardinality(D) \in Nat
    BY <1>1, EntriesFinite
<1> DEFINE n == [i \in D |-> entries[i].attempts + 1]
           sends == {<<i, n[i]>> : i \in D}
<1>3. n \in [D -> Nat]
    BY <1>0, <1>1
<1>4. IsFiniteSet(sends) /\ Cardinality(sends) = Cardinality(D)
    <2> HIDE DEF n
    <2> QED
        BY <1>2, <1>3, OneSendEach
<1>5. sends \subseteq Left
    <2>1. \A i \in D : entries[i].attempts + 1 \in 1..MaxAttempts
        BY <1>0, <1>1 DEF Proceeds, JournalAssumption
    <2> QED
        BY <1>0, <1>1, <2>1 DEF Left
<1>6. Left' \subseteq Left \ sends
    <2>1. Active' \subseteq Active /\ Active' \subseteq DOMAIN entries'
        BY DEF Proceeds, Active
    <2>2. \A i \in Active' :
              entries'[i].attempts = entries[i].attempts + (IF i \in D THEN 1 ELSE 0)
        BY <1>1, <2>1 DEF Proceeds, SentAgain
    <2>3. ASSUME NEW p \in Left' PROVE p \in Left /\ p \notin sends
        <3>1. PICK i \in Active', k \in 1..MaxAttempts : p = <<i, k>> /\ k > entries'[i].attempts
            BY DEF Left
        <3>2. entries[i].attempts \in Nat
            BY <1>0, <1>1, <2>1
        <3>3. k > entries[i].attempts /\ (i \in D => k > entries[i].attempts + 1)
            BY <2>2, <3>1, <3>2
        <3>4. p \in Left
            BY <2>1, <3>1, <3>3 DEF Left
        <3>5. p \notin sends
            BY <3>1, <3>2, <3>3
        <3> QED
            BY <3>4, <3>5
    <2> QED
        BY <2>3
<1> HIDE DEF sends
<1>7. IsFiniteSet(Left) /\ Cardinality(Left) \in Nat
    BY LeftFinite
<1>8. /\ IsFiniteSet(Left \ sends)
      /\ Cardinality(Left \ sends) = Cardinality(Left) - Cardinality(sends)
    <2>1. Left \cap sends = sends
        BY <1>5
    <2> QED
        BY <1>7, <2>1, FS_Difference
<1>9. Cardinality(Left') <= Cardinality(Left \ sends) /\ Cardinality(Left') \in Nat
    BY <1>6, <1>8, FS_Subset, FS_CardinalityType
<1> QED
    BY <1>2, <1>4, <1>7, <1>8, <1>9

\* A step of the journal keeps conservation and budget.
LEMMA NextJInv == ASSUME JournalAssumption PROVE JInv /\ [Next]_vars => JInv'
<1> SUFFICES ASSUME JInv, [Next]_vars PROVE JInv'
    OBVIOUS
<1>1. TypeOK /\ TypeOK'
    BY NextType DEF JInv
<1>2. IsFiniteSet(Active) /\ Cardinality(Active) \in Nat /\ Active \subseteq DOMAIN entries
    <2>1. Active \subseteq DOMAIN entries
        BY DEF Active
    <2> QED
        BY <1>1, <2>1, EntriesFinite
<1>3. /\ jstats.appended = Settled + Cardinality(Active) /\ Settled \in Nat
      /\ jstats.dispatched \in Nat /\ jstats.appended \in Nat /\ MaxAttempts \in Nat
      /\ jstats.dispatched + Cardinality(Left) <= MaxAttempts * jstats.appended
    BY <1>1 DEF JInv, CommandConservation, Settled, BudgetKept, TypeOK, ZeroStats,
                JournalAssumption
<1>4. \A i \in DOMAIN entries : entries[i].attempts \in Nat /\ entries[i].attempts <= MaxAttempts
    BY <1>1 DEF JInv, AttemptsBounded, TypeOK
<1>5. Cardinality(Left) \in Nat /\ Cardinality(Left') \in Nat
    <2>1. Cardinality(Left) \in Nat
        BY <1>1, LeftFinite
    <2>2. Cardinality(Left') \in Nat
        <3>1. Active' \subseteq DOMAIN entries' /\ DOMAIN entries' \subseteq 1..MaxId
            BY <1>1 DEF Active, TypeOK
        <3>2. IsFiniteSet(1..MaxId) /\ IsFiniteSet(1..MaxAttempts)
            BY FS_Interval DEF JournalAssumption
        <3>3. IsFiniteSet((1..MaxId) \X (1..MaxAttempts))
            BY <3>2, FS_Product
        <3>4. Left' \subseteq (1..MaxId) \X (1..MaxAttempts)
            BY <3>1 DEF Left
        <3> QED
            BY <3>3, <3>4, FS_Subset, FS_CardinalityType
    <2> QED
        BY <2>1, <2>2
<1>6. SUFFICES /\ jstats'.appended = Settled' + Cardinality(Active')
               /\ AttemptsBounded'
               /\ jstats'.dispatched + Cardinality(Left') <= MaxAttempts * jstats'.appended
    BY <1>1, <1>6 DEF JInv, CommandConservation, Settled, BudgetKept
<1>7. CASE \E id \in Nat : Joins(id)
    <2>1. PICK id \in Nat : Joins(id)
        BY <1>7
    <2>2. Cardinality(Active') = Cardinality(Active) + 1
        <3>1. id \notin Active
            BY <1>2, <2>1 DEF Joins
        <3> QED
            BY <1>2, <2>1, <3>1, FS_AddElement DEF Joins
    <2>3. AttemptsBounded'
        BY <1>3, <1>4, <2>1 DEF Joins, AttemptsBounded, SentAgain
    <2>4. Cardinality(Left') <= Cardinality(Left) + MaxAttempts
        BY <1>1, <2>1, LeftAfterJoin
    <2>5. MaxAttempts * (jstats.appended + 1) = MaxAttempts * jstats.appended + MaxAttempts
        BY <1>3
    <2>6. MaxAttempts * jstats.appended \in Nat
        BY <1>3
    <2>7. /\ jstats'.appended = jstats.appended + 1 /\ jstats'.dispatched = jstats.dispatched
          /\ Settled' = Settled
        BY <2>1 DEF Joins
    <2>8. jstats.dispatched + Cardinality(Left') <= MaxAttempts * jstats.appended + MaxAttempts
        BY <1>3, <1>5, <2>4, <2>6
    <2> QED
        BY <1>2, <1>3, <2>2, <2>3, <2>5, <2>7, <2>8
<1>8. CASE \E S \in SUBSET Active : \E D \in SUBSET (Active \ S) : Proceeds(S, D)
    <2>1. PICK S \in SUBSET Active : \E D \in SUBSET (Active \ S) : Proceeds(S, D)
        BY <1>8
    <2>2. PICK D \in SUBSET (Active \ S) : Proceeds(S, D)
        BY <2>1
    <2>3. /\ IsFiniteSet(S) /\ Cardinality(S) \in Nat
          /\ Cardinality(D) \in Nat
        BY <1>2, FS_Subset, FS_CardinalityType
    <2>4. Cardinality(Active') = Cardinality(Active) - Cardinality(S)
        <3>1. Active \cap S = S
            OBVIOUS
        <3> QED
            BY <1>2, <2>2, <3>1, FS_Difference DEF Proceeds
    <2>5. AttemptsBounded'
        BY <1>2, <1>3, <1>4, <2>2 DEF Proceeds, AttemptsBounded, SentAgain
    <2>6. Cardinality(Left') + Cardinality(D) <= Cardinality(Left)
        BY <1>1, <2>2, LeftAfterProceeding
    <2>7. MaxAttempts * jstats.appended \in Nat
        BY <1>3
    <2>8. /\ jstats'.appended = jstats.appended
          /\ jstats'.dispatched = jstats.dispatched + Cardinality(D)
          /\ Settled' = Settled + Cardinality(S)
        BY <2>2 DEF Proceeds
    <2>9. jstats'.dispatched + Cardinality(Left') <= MaxAttempts * jstats.appended
        BY <1>3, <1>5, <2>3, <2>6, <2>7, <2>8
    <2> QED
        BY <1>2, <1>3, <2>3, <2>4, <2>5, <2>8, <2>9
<1>9. CASE StartsOver
    <2>1. Left' = {}
        BY <1>9 DEF StartsOver, Left
    <2>2. Cardinality({}) = 0
        BY FS_EmptySet
    <2> QED
        BY <1>3, <1>9, <2>1, <2>2 DEF StartsOver, AttemptsBounded
<1> QED
    BY <1>1, <1>7, <1>8, <1>9, StepKinds DEF Step

\* Every command ever accepted is unfinished in the journal or was settled
\* exactly once, no command is handed out more than max_attempts times, and all
\* sends together stay within max_attempts per accepted command, in whatever
\* order due(), acknowledge(), cancel(), expire() and compaction reach it.
THEOREM CommandsSettledOnce == ASSUME JournalAssumption PROVE Spec => []CommandsAccounted
<1>1. Init => JInv
    <2> SUFFICES ASSUME Init PROVE JInv
        OBVIOUS
    <2>1. Active = {} /\ Left = {} /\ Cardinality({}) = 0 /\ DOMAIN entries = {}
        BY FS_EmptySet DEF Init, Active, Left
    <2>2. TypeOK
        BY DEF Init, TypeOK, ZeroStats
    <2>3. CommandConservation /\ AttemptsBounded /\ BudgetKept
        BY <2>1 DEF Init, CommandConservation, AttemptsBounded, BudgetKept, ZeroStats,
                    JournalAssumption
    <2> QED
        BY <2>2, <2>3 DEF JInv
<1>2. JInv => CommandsAccounted
    <2> SUFFICES ASSUME JInv PROVE CommandsAccounted
        OBVIOUS
    <2>1. Cardinality(Left) \in Nat
        BY LeftFinite DEF JInv
    <2>2. /\ jstats.dispatched \in Nat /\ MaxAttempts * jstats.appended \in Nat
        BY DEF JInv, TypeOK, ZeroStats, JournalAssumption
    <2>3. jstats.dispatched <= MaxAttempts * jstats.appended
        BY <2>1, <2>2 DEF JInv, BudgetKept
    <2> QED
        BY <2>3 DEF JInv, CommandsAccounted, DispatchBudget, AttemptsBounded
<1> QED
    BY <1>1, <1>2, NextJInv, PTL DEF Spec

-----------------------------------------------------------------------------
\* The outcome of a command is final: acknowledge(), due(), cancel() and expire()
\* leave a settled entry exactly as it is, and no append replaces it.
THEOREM OutcomesFinal == ASSUME JournalAssumption PROVE Spec => OutcomeFinal
<1> DEFINE Final == \A i \in DOMAIN entries \cap DOMAIN entries' :
                        Terminal(entries[i].state) => entries'[i] = entries[i]
<1>1. TypeOK /\ [Next]_vars => [Final]_vars
    <2> SUFFICES ASSUME TypeOK, Next PROVE Final
        OBVIOUS
    <2>1. ASSUME NEW c \in Commands, AppendAccepted(c) PROVE Final
        <3> DEFINE id == IF c.id = 0 THEN nextId ELSE c.id
        <3>1. id \notin DOMAIN entries
            BY <2>1 DEF AppendAccepted, IdTaken, TypeOK
        <3>2. entries' = [i \in DOMAIN entries \cup {id} |->
                             IF i = id THEN NewEntry(c, id) ELSE entries[i]]
            BY <2>1 DEF AppendAccepted
        <3> QED
            BY <3>1, <3>2
    <2>2. ASSUME NEW c \in Commands, AppendRejected(c) PROVE Final
        BY <2>2 DEF AppendRejected
    <2>3. ASSUME NEW now \in Time, NEW max \in DueCounts, Due(now, max) PROVE Final
        <3>1. \A i \in DOMAIN entries : Terminal(entries[i].state) => Handled(entries[i], now) = entries[i]
            BY DEF Handled, Overdue, DueNow
        <3> QED
            BY <2>3, <3>1 DEF Due
    <2>4. ASSUME NEW a \in Acks, Acknowledge(a) PROVE Final
        BY <2>4 DEF Acknowledge, AckApplies
    <2>5. ASSUME NEW id \in DOMAIN entries, Cancel(id) PROVE Final
        BY <2>5 DEF Cancel
    <2>6. ASSUME NEW now \in Time, Expire(now) PROVE Final
        BY <2>6 DEF Expire, Overdue
    <2>7. ASSUME NEW keep \in 0..MaxEntries, CompactCompleted(keep) PROVE Final
        BY <2>7 DEF CompactCompleted
    <2>8. ASSUME Clear PROVE Final
        BY <2>8 DEF Clear
    <2> QED
        BY <2>1, <2>2, <2>3, <2>4, <2>5, <2>6, <2>7, <2>8 DEF Next
<1> QED
    BY <1>1, JournalTypes, PTL DEF Spec, OutcomeFinal

-----------------------------------------------------------------------------
(* AckTracker.                                                             *)

Record == [expectation : Expectation, state : {"waiting"} \cup EndStates,
           accepts : Nat, rejects : Nat]

RecordsTyped ==
    /\ records \in [DOMAIN records -> Record]
    /\ \A i \in DOMAIN records : records[i].expectation.required >= 1

\* What VerdictMatchesCounts says of one record.
Verdict(r) ==
    /\ r.rejects <= 1 /\ r.accepts <= r.expectation.required
    /\ r.state = "waiting" => r.rejects = 0 /\ r.accepts < r.expectation.required
    /\ r.state = "satisfied" <=> r.rejects = 1 \/ r.accepts = r.expectation.required

Sound(r) == r \in Record /\ r.expectation.required >= 1 /\ Verdict(r)

TInv == RecordsTyped /\ VerdictMatchesCounts

AllSound(rs) == rs \in [DOMAIN rs -> Record] /\ \A i \in DOMAIN rs : Sound(rs[i])

\* A record as expect() makes it waits for at least one acceptance.
LEMMA NewRecordSound == TrackerAssumption => \A x \in Expectations : Sound(NewRecord(x))
<1> SUFFICES ASSUME TrackerAssumption, NEW x \in Expectations PROVE Sound(NewRecord(x))
    OBVIOUS
<1>1. x \in Expectation
    BY DEF TrackerAssumption
<1>2. Required(x) \in Nat /\ Required(x) >= 1
    BY <1>1 DEF Required, Expectation
<1> QED
    BY <1>1, <1>2 DEF NewRecord, Sound, Verdict, Record, Expectation

\* observe() keeps a record's verdict in line with its counts, however the
\* acknowledgement is classified; a settled record takes no further count.
LEMMA ObservedSound ==
    ASSUME NEW r, Sound(r), NEW a \in ObservedAcks
    PROVE  Sound(RecordObservation(r, Classify(r, a)))
<1>1. r \in Record /\ r.expectation.required \in Nat
    BY DEF Sound, Record, Expectation
<1>2. CASE Classify(r, a) = "matched"
    <2> DEFINE s == IF r.accepts + 1 >= r.expectation.required THEN "satisfied" ELSE "waiting"
               p == [r EXCEPT !.accepts = @ + 1]
               q == [r EXCEPT !.accepts = @ + 1,
                              !.state = IF r.accepts + 1 >= r.expectation.required
                                        THEN "satisfied" ELSE @]
    <2>1. r.state = "waiting"
        BY <1>1, <1>2 DEF Classify, Ended, Record
    <2>2. RecordObservation(r, "matched") = q
        BY DEF RecordObservation
    <2>3. /\ q.accepts = r.accepts + 1 /\ q.rejects = r.rejects
          /\ q.expectation = r.expectation /\ q.state = s
        BY <1>1, <2>1 DEF Record
    <2>4. p \in Record /\ s \in {"waiting"} \cup EndStates /\ q = [p EXCEPT !.state = s]
        BY <1>1, <2>1 DEF Record, EndStates
    <2>5. q \in Record
        <3> HIDE DEF p, q, s
        <3> QED
            BY <2>4 DEF Record
    <2>6. r.rejects = 0 /\ r.accepts \in Nat /\ r.accepts < r.expectation.required
        BY <1>1, <2>1 DEF Sound, Verdict, Record
    <2> HIDE DEF q
    <2>7. Sound(q)
        BY <1>1, <2>3, <2>5, <2>6 DEF Sound, Verdict
    <2> QED
        BY <1>2, <2>2, <2>7
<1>3. CASE Classify(r, a) = "rejected"
    <2> DEFINE p == [r EXCEPT !.rejects = @ + 1]
               q == [r EXCEPT !.rejects = @ + 1, !.state = "satisfied"]
    <2>1. r.state = "waiting"
        BY <1>1, <1>3 DEF Classify, Ended, Record
    <2>2. RecordObservation(r, "rejected") = q
        BY DEF RecordObservation
    <2>3. /\ q.accepts = r.accepts /\ q.rejects = r.rejects + 1
          /\ q.expectation = r.expectation /\ q.state = "satisfied"
        BY <1>1 DEF Record
    <2>4. p \in Record /\ q = [p EXCEPT !.state = "satisfied"]
        BY <1>1 DEF Record
    <2>5. q \in Record
        <3> HIDE DEF p, q
        <3> QED
            BY <2>4 DEF Record, EndStates
    <2>6. r.rejects = 0 /\ r.accepts \in Nat /\ r.accepts < r.expectation.required
        BY <1>1, <2>1 DEF Sound, Verdict, Record
    <2> HIDE DEF q
    <2>7. Sound(q)
        BY <1>1, <2>3, <2>5, <2>6 DEF Sound, Verdict
    <2> QED
        BY <1>3, <2>2, <2>7
<1>4. CASE Classify(r, a) \notin {"matched", "rejected"}
    BY <1>4 DEF RecordObservation
<1> QED
    BY <1>2, <1>3, <1>4

\* A waiting record that times out or is cancelled had no verdict yet.
LEMMA SettledSound ==
    ASSUME NEW r, Sound(r), r.state = "waiting", NEW s \in {"timed_out", "cancelled"}
    PROVE  Sound([r EXCEPT !.state = s])
BY DEF Sound, Verdict, Record, EndStates, Expectation

\* Every operation of the tracker keeps the invariant.
LEMMA NextTInv == ASSUME TrackerAssumption, TInv, [NextTracker]_(trackerVars) PROVE TInv'
<1> USE DEF AllSound
<1>0. \A i \in DOMAIN records : Sound(records[i]) /\ records[i] \in Record
    BY DEF TInv, RecordsTyped, VerdictMatchesCounts, Sound, Verdict
<1> SUFFICES AllSound(records')
    BY DEF TInv, RecordsTyped, VerdictMatchesCounts, Sound, Verdict
<1>1. ASSUME NEW x \in Expectations, Expect(x) PROVE AllSound(records')
    <2>1. Sound(NewRecord(x)) /\ NewRecord(x) \in Record
        BY NewRecordSound DEF Sound
    <2> QED
        BY <1>0, <1>1, <2>1 DEF Expect
<1>2. ASSUME NEW a \in ObservedAcks, Observe(a) PROVE AllSound(records')
    <2>1. CASE a.command_id \in DOMAIN records
        <3> DEFINE i == a.command_id
                   r == RecordObservation(records[i], Classify(records[i], a))
        <3>1. Sound(r) /\ r \in Record
            BY <1>0, <2>1, ObservedSound DEF Sound
        <3>2. records' = [records EXCEPT ![i] = r]
            BY <1>2, <2>1 DEF Observe
        <3> HIDE DEF r
        <3> QED
            BY <1>0, <3>1, <3>2
    <2>2. CASE a.command_id \notin DOMAIN records
        BY <1>0, <1>2, <2>2 DEF Observe, TInv, RecordsTyped
    <2> QED
        BY <2>1, <2>2
<1>3. ASSUME NEW now \in TrackerTime, Timeouts(now) PROVE AllSound(records')
    <2>1. \A i \in Late(now) : Sound([records[i] EXCEPT !.state = "timed_out"])
        BY <1>0, SettledSound DEF Late, Waiting
    <2>2. \A i \in Late(now) : [records[i] EXCEPT !.state = "timed_out"] \in Record
        BY <2>1 DEF Sound
    <2> QED
        BY <1>0, <1>3, <2>1, <2>2 DEF Timeouts
<1>4. ASSUME NEW id \in DOMAIN records, CancelExpectation(id) PROVE AllSound(records')
    <2> DEFINE r == [records[id] EXCEPT !.state = "cancelled"]
    <2>1. records[id].state = "waiting"
        BY <1>0, <1>4 DEF CancelExpectation, Ended, Record
    <2>2. Sound(r) /\ r \in Record
        BY <1>0, <2>1, SettledSound DEF Sound
    <2>3. records' = [records EXCEPT ![id] = r]
        BY <1>4 DEF CancelExpectation
    <2> HIDE DEF r
    <2> QED
        BY <1>0, <2>2, <2>3
<1>5. ASSUME NEW keep, CompactTerminal(keep) PROVE AllSound(records')
    BY <1>0, <1>5 DEF CompactTerminal
<1>6. ASSUME ResetTracker PROVE AllSound(records')
    BY <1>6 DEF ResetTracker
<1>7. ASSUME UNCHANGED trackerVars PROVE AllSound(records')
    BY <1>0, <1>7 DEF trackerVars, TInv, RecordsTyped
<1> QED
    BY <1>1, <1>2, <1>3, <1>4, <1>5, <1>6, <1>7 DEF NextTracker

\* Whatever acknowledgements are lost, duplicated, late or from the wrong
\* device, and however timeouts, cancellations, compaction and re-registration
\* interleave with them: a command is satisfied exactly by one refusal or by
\* exactly the required acceptances, and waits only while it has neither.
THEOREM VerdictExact == ASSUME TrackerAssumption PROVE TrackerSpec => []VerdictMatchesCounts
<1>1. InitTracker => TInv
    BY DEF InitTracker, TInv, RecordsTyped, VerdictMatchesCounts
<1>2. TInv /\ [NextTracker]_(trackerVars) => TInv'
    BY NextTInv
<1>3. TInv => VerdictMatchesCounts
    BY DEF TInv
<1> QED
    BY <1>1, <1>2, <1>3, PTL DEF TrackerSpec
=============================================================================
