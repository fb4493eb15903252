------------------------------ MODULE Collector ------------------------------
(***************************************************************************)
(* aethon::runtime::CollectorRuntime (src/runtime/collector.cpp) with the  *)
(* storage::ArchiveWriter it owns and a storage::ArchiveReader that opens  *)
(* the file afterwards (src/storage/archive.cpp).                          *)
(*                                                                         *)
(* A record takes two cells in the file, so that it can be torn.  Cells    *)
(* wait in the stream's buffer until the stream flushes them, in order;    *)
(* the header is written with counts of 0 and rewritten by close(), which  *)
(* flushes the records first.  A write may fail (the stream stays bad from *)
(* then on), an event handler may throw out of accept(), and the process   *)
(* may die at any time, losing what is not flushed.  A collector that      *)
(* starts again truncates the file.                                        *)
(*                                                                         *)
(* The profile enables the archive.  Abstracted: a packet is its capture   *)
(* time, whether the semantic validation passes and how many warnings it   *)
(* raises; sessions and links are the number of packets they observed.     *)
(***************************************************************************)
EXTENDS Integers, Sequences

CONSTANTS
    Received,       \* [valid, warnings, time]
    MaxReceived     \* bound on the packets received by one collector

\* Assumed of the constants wherever this module is instantiated.
CollectorAssumption ==
    /\ MaxReceived \in Nat
    /\ \A p \in Received : p.valid \in BOOLEAN /\ p.warnings \in Nat /\ p.time \in Nat

VARIABLES
    process,    \* "up", "done" (destroyed) or "dead"
    cstats,     \* stats_
    observed,   \* packets that sessions_ and links_ have seen
    summary,    \* ArchiveWriter::summary_
    out,        \* out_ : the cells it has not flushed, and whether it has failed
    file,       \* the file: its header and its cells
    records     \* history: the capture times of the records given to append()

collectorVars == <<process, cstats, observed, summary, out, file, records>>

-----------------------------------------------------------------------------
ZeroCounts == [received |-> 0, archived |-> 0, rejected |-> 0, warnings |-> 0]

NoSummary == [count |-> 0, first |-> 0, last |-> 0]

Cells(n) == <<[record |-> n, half |-> 1], [record |-> n, half |-> 2]>>

Lower(a, b) == IF a < b THEN a ELSE b

Higher(a, b) == IF a > b THEN a ELSE b

SummaryWith(time) ==
    IF summary.count = 0 THEN [count |-> 1, first |-> time, last |-> time]
    ELSE [count |-> summary.count + 1, first |-> Lower(summary.first, time),
          last |-> Higher(summary.last, time)]

\* the stream gives the first n cells of s to the file
Flushed(s, n) == [file EXCEPT !.cells = @ \o SubSeq(s, 1, n)]

-----------------------------------------------------------------------------
(* accept(), one action for each way out of it.                            *)

Receive(p, changes) ==
    /\ process = "up" /\ cstats.received < MaxReceived
    /\ cstats' = [c \in DOMAIN cstats |->
                    cstats[c] + (IF c = "received" THEN 1 ELSE IF c \in changes THEN 1
                                ELSE IF c = "warnings" /\ p.valid THEN p.warnings ELSE 0)]

AcceptRejected(p) ==
    /\ ~p.valid
    /\ Receive(p, {"rejected"})
    /\ UNCHANGED <<process, observed, summary, out, file, records>>

\* The handler of the n-th warning throws: the packet is neither observed nor
\* archived.  A throw from the error event of a rejected packet changes nothing.
ThrowEarly(p, n) ==
    /\ p.valid
    /\ process = "up" /\ cstats.received < MaxReceived
    /\ cstats' = [cstats EXCEPT !.received = @ + 1, !.warnings = @ + n]
    /\ UNCHANGED <<process, observed, summary, out, file, records>>

\* the session event's handler throws
ThrowObserved(p) ==
    /\ p.valid
    /\ Receive(p, {})
    /\ observed' = observed + 1
    /\ UNCHANGED <<process, summary, out, file, records>>

Appended(p) ==
    LET n == Len(records) + 1
    IN  /\ summary' = SummaryWith(p.time)
        /\ out' = [out EXCEPT !.cells = @ \o Cells(n)]
        /\ UNCHANGED file

\* the packet is archived; whether the last handlers return or throw, nothing
\* else changes
AcceptArchived(p) ==
    /\ p.valid /\ ~out.bad
    /\ Receive(p, {"archived"})
    /\ observed' = observed + 1
    /\ Appended(p)
    /\ records' = Append(records, p.time)
    /\ UNCHANGED process

\* mutant: the failed record is counted and the stream is used again
AppendFailsCounted(p, n) ==
    LET cells == out.cells \o Cells(Len(records) + 1)
    IN  /\ p.valid /\ n \in 0..(IF out.bad THEN 0 ELSE Len(cells) - 1)
        /\ Receive(p, {})
        /\ observed' = observed + 1
        /\ file' = Flushed(cells, n)
        /\ out' = [cells |-> << >>, bad |-> FALSE]
        /\ summary' = SummaryWith(p.time)
        /\ records' = Append(records, p.time)
        /\ UNCHANGED process

\* append() throws: of the cells in the buffer and of the record n reach the file
AppendFails(p, n) ==
    LET cells == out.cells \o Cells(Len(records) + 1)
    IN  /\ p.valid /\ n \in 0..(IF out.bad THEN 0 ELSE Len(cells) - 1)
        /\ Receive(p, {})
        /\ observed' = observed + 1
        /\ file' = Flushed(cells, n)
        /\ out' = [cells |-> << >>, bad |-> TRUE]
        /\ records' = Append(records, p.time)
        /\ UNCHANGED <<process, summary>>

-----------------------------------------------------------------------------
(* The stream, the end of the collector and the process.                   *)

Flush(n) ==
    /\ process = "up" /\ n \in 1..Len(out.cells)
    /\ file' = Flushed(out.cells, n)
    /\ out' = [out EXCEPT !.cells = SubSeq(@, n + 1, Len(@))]
    /\ UNCHANGED <<process, cstats, observed, summary, records>>

\* ~ArchiveWriter() calls close()
Destroy ==
    /\ process = "up" /\ ~out.bad
    /\ process' = "done"
    /\ file' = [header |-> summary, cells |-> file.cells \o out.cells]
    /\ out' = [out EXCEPT !.cells = << >>]
    /\ UNCHANGED <<cstats, observed, summary, records>>

\* close() fails and the destructor swallows the error; n cells were flushed
DestroyFails(n) ==
    /\ process = "up" /\ n \in 0..Len(out.cells)
    /\ process' = "done"
    /\ file' = Flushed(out.cells, n)
    /\ out' = [cells |-> << >>, bad |-> TRUE]
    /\ UNCHANGED <<cstats, observed, summary, records>>

Crash ==
    /\ process = "up"
    /\ process' = "dead"
    /\ out' = [out EXCEPT !.cells = << >>]
    /\ UNCHANGED <<cstats, observed, summary, file, records>>

NoOutput == [cells |-> << >>, bad |-> FALSE]

EmptyFile == [header |-> NoSummary, cells |-> << >>]

\* the constructor opens the archive with truncation
Restart ==
    /\ process # "up"
    /\ process' = "up" /\ cstats' = ZeroCounts /\ observed' = 0 /\ summary' = NoSummary
    /\ out' = NoOutput /\ file' = EmptyFile /\ records' = << >>

-----------------------------------------------------------------------------
InitCollector ==
    /\ process = "up" /\ cstats = ZeroCounts /\ observed = 0 /\ summary = NoSummary
    /\ out = NoOutput /\ file = EmptyFile /\ records = << >>

NextCollector ==
    \/ \E p \in Received : AcceptRejected(p)
    \/ \E p \in Received : \E n \in 1..p.warnings : ThrowEarly(p, n)
    \/ \E p \in Received : ThrowObserved(p)
    \/ \E p \in Received : AcceptArchived(p)
    \/ \E p \in Received, n \in 0..(2 * MaxReceived) : AppendFails(p, n)
    \/ \E n \in 1..(2 * MaxReceived) : Flush(n)
    \/ Destroy
    \/ \E n \in 0..(2 * MaxReceived) : DestroyFails(n)
    \/ Crash
    \/ Restart

CollectorSpec == InitCollector /\ [][NextCollector]_collectorVars

-----------------------------------------------------------------------------
(* ArchiveReader::next() until it ends or throws.                          *)

WholeAt(s, i) == 2 * i <= Len(s) /\ SubSeq(s, 2 * i - 1, 2 * i) = Cells(s[2 * i].record)

ReadBack(s) ==
    LET n == Len(s) \div 2
        whole == {i \in 0..n : \A j \in 1..i : WholeAt(s, j)}
    IN  [i \in 1..(CHOOSE m \in whole : \A k \in whole : k <= m) |-> s[2 * i].record]

Readable == ReadBack(file.cells)

-----------------------------------------------------------------------------
(* Properties.                                                             *)

\* Whatever failed or crashed before, a reader gets a prefix of the records
\* given to append(), in order and without a hole: a torn record is the last
\* thing in the file, never followed by a good one.
ReadsPrefix ==
    /\ \A i \in DOMAIN Readable : Readable[i] = i
    /\ Len(file.cells) - 2 * Len(Readable) \in {0, 1}
    /\ Len(Readable) <= Len(records)

\* The header never promises more than the file holds: it says 0 records until
\* close() succeeded, and then exactly the readable records with their earliest
\* and latest capture time, none of which was lost.
HeaderTruthful ==
    \/ file.header = NoSummary
    \/ LET times == {records[i] : i \in DOMAIN Readable}
       IN  /\ file.header.count = Len(Readable) /\ file.header.count = cstats.archived
           /\ file.header.first \in times /\ file.header.last \in times
           /\ \A t \in times : file.header.first <= t /\ t <= file.header.last

\* What a reader finds after any failure or crash is a true prefix, under a header
\* that promises no more.
ArchiveTruthful == ReadsPrefix /\ HeaderTruthful
=============================================================================
