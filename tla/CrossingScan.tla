---------------------------- MODULE CrossingScan ----------------------------
(***************************************************************************)
(* One scan: the threads of CROSSING_READ claim the partitions of the       *)
(* source's CrossingScan, drain one reader after another, check the batch   *)
(* indexes and hand chunks to DuckDB (src/crossing_read.cpp).  A reader     *)
(* that has nothing yet puts its thread to sleep; the sleeping is the       *)
(* promise of CrossingWaking, which CrossingParking implements.             *)
(*                                                                          *)
(* The source is external.  Its rows come in units: a whole partition of a  *)
(* scan without batch indexes, one batch of a scan with them.  A unit is a  *)
(* sequence of chunks, of which only the row counts are kept.               *)
(***************************************************************************)
EXTENDS Integers, Sequences, FiniteSets

CONSTANTS
    Threads,       \* the threads DuckDB may run the scan with
    MaxPartitions, \* the most partitions a source offers (bound)
    Chunks,        \* Chunks[u]: the row count of each chunk of unit u, u from 0
    NoReader,      \* local.reader is null
    NoIndex        \* local.batch_index is invalid

Units == Cardinality(DOMAIN Chunks)

ASSUME ScanAssumption ==
    /\ Threads # {}
    /\ NoReader \notin Nat /\ NoIndex \notin Nat
    /\ IsFiniteSet(DOMAIN Chunks)
    /\ MaxPartitions \in Nat \ {0}
    /\ MaxPartitions <= Units
    /\ DOMAIN Chunks = 0 .. (Units - 1)
    /\ \A u \in DOMAIN Chunks : Chunks[u] \in Seq(Nat \ {0}) /\ Chunks[u] # <<>>

\* How the source spreads units over partitions: one unit each and no index;
\* batches from one counter; batches dealt in turn.
Kinds == {"whole", "counter", "dealt"}

\* What a source may offer, `ordered` being what the query asked for.  `careless`
\* sources sometimes give an index they should not or leave out one they should.
Scans == [kind : Kinds, partitions : 1 .. MaxPartitions, ordered : BOOLEAN, careless : BOOLEAN]

VARIABLES
    scan,                \* the CrossingScan of this read
    next_partition, finished_partitions, rows_emitted,  \* the global state
    reader, partition, batch_index,                     \* each thread's local state
    status, signal,      \* each thread's sleep, as CrossingWaking keeps it
    cancelled,           \* the operator may no longer block
    refused,             \* the scan threw
    unit, handed,        \* source: each reader's unit and the chunks handed of it
    next_unit,           \* source: the counter readers draw batches from
    output               \* history: the chunks each thread handed to DuckDB

global == <<next_partition, finished_partitions, rows_emitted>>
local == <<reader, partition, batch_index>>
source == <<unit, handed, next_unit>>
vars == <<scan, global, local, status, signal, cancelled, refused, source, output>>

Waking == INSTANCE CrossingWaking WITH Tasks <- Threads

Partitions == 0 .. (scan.partitions - 1)
Indexed == scan.kind # "whole"

TypeOK ==
    /\ scan \in Scans
    /\ next_partition \in Nat /\ finished_partitions \in Nat /\ rows_emitted \in Nat
    /\ reader \in [Threads -> Partitions \cup {NoReader}]
    /\ partition \in [Threads -> Partitions]
    /\ batch_index \in [Threads -> Nat \cup {NoIndex}]
    /\ status \in [Threads -> Waking!Statuses]
    /\ signal \in [Threads -> BOOLEAN]
    /\ cancelled \in BOOLEAN /\ refused \in BOOLEAN
    /\ unit \in [Partitions -> -1 .. (Units - 1)]
    /\ handed \in [Partitions -> Nat]
    /\ next_unit \in 0 .. Units
    /\ output \in [Threads -> Seq([index : Nat, unit : Nat, chunk : Nat, first : Nat])]

-----------------------------------------------------------------------------
\* Mutant: any scan will do.
CheckNoPartitions(s) == TRUE

\* CheckScanPartitions: an ordered scan is one partition, or indexes its rows.
CheckScanPartitions(s) == s.ordered /\ s.partitions > 1 => s.kind # "whole"

\* GetGlobalSourceState asked the source for the scan; DuckDB runs at most one
\* thread per partition.
Init ==
    /\ scan \in Scans
    /\ refused = ~CheckScanPartitions(scan)
    /\ next_partition = 0 /\ finished_partitions = 0 /\ rows_emitted = 0
    /\ reader = [t \in Threads |-> NoReader]
    /\ partition = [t \in Threads |-> 0]
    /\ batch_index = [t \in Threads |-> NoIndex]
    /\ \E running \in SUBSET Threads :
          /\ Cardinality(running) \in 1 .. scan.partitions
          /\ status = [t \in Threads |-> IF t \in running THEN "running" ELSE "finished"]
    /\ signal = [t \in Threads |-> FALSE]
    /\ cancelled = FALSE
    /\ unit = [p \in Partitions |-> -1]
    /\ handed = [p \in Partitions |-> 0]
    /\ next_unit = 0
    /\ output = [t \in Threads |-> <<>>]

-----------------------------------------------------------------------------
\* The counter after a claim.
ClaimNext == next_partition + 1

\* Mutant: the last partition is left out.
ExhaustedEarly(claimed) == claimed + 1 >= scan.partitions

\* Mutant: one partition too many is opened.
ExhaustedLate(claimed) == claimed > scan.partitions

\* The claim went past the last partition.
Exhausted(claimed) == claimed >= scan.partitions

\* A thread without a reader claims the next partition and opens it, or finds
\* that none is left and is finished.
ClaimPartition(t) ==
    LET claimed == next_partition IN
    /\ ~refused
    /\ status[t] = "running"
    /\ reader[t] = NoReader
    /\ next_partition' = ClaimNext
    /\ IF Exhausted(claimed)
       THEN /\ Waking!Finish(t)
            /\ UNCHANGED <<reader, partition>>
       ELSE /\ reader' = [reader EXCEPT ![t] = claimed]
            /\ partition' = [partition EXCEPT ![t] = claimed]
            /\ UNCHANGED <<status, signal>>
    /\ UNCHANGED <<scan, finished_partitions, rows_emitted, batch_index, cancelled,
                   refused, source, output>>

\* The thread pulls its reader, with a waker for this pull.
StartPull(t) ==
    /\ ~refused
    /\ reader[t] # NoReader
    /\ Waking!Pull(t)
    /\ UNCHANGED <<scan, global, local, cancelled, refused, source, output>>

-----------------------------------------------------------------------------
\* The source's reader of partition p.  The unit it hands the next chunk of;
\* Units when it has none left.
CurrentUnit(p) ==
    IF unit[p] >= 0 /\ handed[p] < Len(Chunks[unit[p]])
    THEN unit[p]
    ELSE LET next == CASE scan.kind = "whole" -> IF unit[p] < 0 THEN p ELSE Units
                       [] scan.kind = "counter" -> next_unit
                       [] scan.kind = "dealt" -> IF unit[p] < 0 THEN p ELSE unit[p] + scan.partitions
         IN  IF next < Units THEN next ELSE Units

\* The position in its unit of the chunk p's reader hands next.
CurrentChunk(p) == IF CurrentUnit(p) = unit[p] THEN handed[p] + 1 ELSE 1

\* The reader hands the chunk.
Advance(p) ==
    /\ next_unit' = IF scan.kind = "counter" /\ CurrentUnit(p) # unit[p] THEN next_unit + 1 ELSE next_unit
    /\ handed' = [handed EXCEPT ![p] = CurrentChunk(p)]
    /\ unit' = [unit EXCEPT ![p] = CurrentUnit(p)]

-----------------------------------------------------------------------------
\* Mutant: an index may go down.
CheckIndexGiven(t, index) == Indexed <=> index # NoIndex

\* CheckBatchIndex: an index is given exactly when the scan has them, and never
\* goes down on a thread, whichever readers the thread drained.
CheckBatchIndex(t, index) ==
    IF Indexed
    THEN index # NoIndex /\ (batch_index[t] = NoIndex \/ index >= batch_index[t])
    ELSE index = NoIndex

\* GetPartitionData: where DuckDB places the chunk.
PartitionData(t, index) == IF Indexed THEN index ELSE partition[t]

\* Mutant: the ids advance by chunks.
EmittedChunks(rows) == rows_emitted + 1

\* EmitRowIds reserves as many ids as the chunk has rows.
Emitted(rows) == rows_emitted + rows

\* The pull brought a chunk: its index is checked, its row ids are reserved and
\* it is handed to DuckDB; a wrong index fails the scan.
EmitChunk(t, index) ==
    LET p == reader[t] IN
    /\ Waking!Answer(t)
    /\ Advance(p)
    /\ IF CheckBatchIndex(t, index)
       THEN /\ status'[t] = "running"
            /\ batch_index' = [batch_index EXCEPT ![t] = index]
            /\ rows_emitted' = Emitted(Chunks[CurrentUnit(p)][CurrentChunk(p)])
            /\ output' = [output EXCEPT ![t] =
                             Append(@, [index |-> PartitionData(t, index), unit |-> CurrentUnit(p),
                                        chunk |-> CurrentChunk(p), first |-> rows_emitted])]
            /\ UNCHANGED refused
       ELSE /\ status'[t] = "finished"
            /\ refused' = TRUE
            /\ UNCHANGED <<batch_index, rows_emitted, output>>

AnswerRows(t) ==
    /\ ~refused
    /\ status[t] = "pulling"
    /\ CurrentUnit(reader[t]) < Units
    /\ LET index == IF Indexed THEN CurrentUnit(reader[t]) ELSE NoIndex
           wrong == IF Indexed THEN NoIndex ELSE 0
       IN  \E given \in IF scan.careless THEN {index, wrong} ELSE {index} : EmitChunk(t, given)
    /\ UNCHANGED <<scan, next_partition, finished_partitions, reader, partition, cancelled>>

\* Mutant: an exhausted reader is kept, to be pulled again.
AnswerDoneKeepsReader(t) ==
    /\ ~refused
    /\ status[t] = "pulling"
    /\ CurrentUnit(reader[t]) = Units
    /\ Waking!Answer(t)
    /\ status'[t] = "running"
    /\ UNCHANGED <<scan, global, local, cancelled, refused, source, output>>

\* The reader is exhausted, which DONE and an empty chunk both say.
AnswerDone(t) ==
    /\ ~refused
    /\ status[t] = "pulling"
    /\ CurrentUnit(reader[t]) = Units
    /\ Waking!Answer(t)
    /\ status'[t] = "running"
    /\ reader' = [reader EXCEPT ![t] = NoReader]
    /\ finished_partitions' = finished_partitions + 1
    /\ UNCHANGED <<scan, next_partition, rows_emitted, partition, batch_index, cancelled,
                   refused, source, output>>

\* The reader answers WAIT and ParkSource decides: BLOCKED, or FINISHED with the
\* reader dropped when the operator may no longer block, or pull again.
AnswerWait(t) ==
    /\ ~refused
    /\ status[t] = "pulling"
    /\ \/ /\ ~cancelled
          /\ Waking!FallAsleep(t)
          /\ UNCHANGED reader
       \/ /\ cancelled
          /\ Waking!Answer(t)
          /\ status'[t] = "finished"
          /\ reader' = [reader EXCEPT ![t] = NoReader]
       \/ /\ ~cancelled
          /\ signal[t]
          /\ Waking!Answer(t)
          /\ status'[t] = "running"
          /\ UNCHANGED reader
    /\ UNCHANGED <<scan, global, partition, batch_index, cancelled, refused, source, output>>

-----------------------------------------------------------------------------
Quiet == UNCHANGED <<scan, global, local, refused, source, output>>

\* The source wakes the pull it answered WAIT, or will.
SourceWakes(t) == ~signal[t] /\ Waking!Signal(t) /\ UNCHANGED cancelled /\ Quiet

Resume(t) == Waking!Resume(t) /\ UNCHANGED cancelled /\ Quiet

\* DuckDB needs no more rows: the operator may no longer block, and every
\* sleeping thread is signalled.
Cancel ==
    /\ ~cancelled
    /\ cancelled' = TRUE
    /\ UNCHANGED <<status, signal>>
    /\ Quiet

CancelWakes(t) ==
    /\ cancelled
    /\ status[t] = "asleep"
    /\ ~signal[t]
    /\ Waking!Signal(t)
    /\ UNCHANGED cancelled
    /\ Quiet

Next ==
    \/ \E t \in Threads :
          \/ ClaimPartition(t) \/ StartPull(t)
          \/ AnswerRows(t) \/ AnswerDone(t) \/ AnswerWait(t)
          \/ SourceWakes(t) \/ Resume(t) \/ CancelWakes(t)
    \/ Cancel

Spec == Init /\ [][Next]_vars

\* DuckDB runs a runnable thread; a pull returns, and one that is repeated often
\* enough brings a chunk or the end, the source having woken every WAIT.
Fairness ==
    \A t \in Threads :
        /\ WF_vars(ClaimPartition(t)) /\ WF_vars(StartPull(t)) /\ WF_vars(Resume(t))
        /\ SF_vars(AnswerRows(t) \/ AnswerDone(t))
        /\ WF_vars(status[t] = "asleep" /\ SourceWakes(t))

FairSpec == Spec /\ Fairness

-----------------------------------------------------------------------------
\* The units the source has for this scan.
ScanUnits == IF Indexed THEN 0 .. (Units - 1) ELSE Partitions

\* Where a chunk stands in the order the query asked for.  A partition of a scan
\* without indexes holds every scan.partitions-th chunk.
Rank(c) == IF Indexed THEN <<c.unit, c.chunk>> ELSE <<c.chunk, c.unit>>

Before(r, s) == r[1] < s[1] \/ (r[1] = s[1] /\ r[2] < s[2])

Complete == ~refused /\ ~cancelled /\ \A t \in Threads : status[t] = "finished"

\* DuckDB refuses a thread whose partition data goes down; it never does, for an
\* indexed scan because CheckBatchIndex spans the readers a thread drains, for an
\* unindexed one because partitions are claimed in increasing order.
PlaceNeverDown ==
    \A t \in Threads : \A i, j \in DOMAIN output[t] :
        i < j => output[t][i].index <= output[t][j].index

\* A scan that ends without being refused or cancelled delivered every chunk the
\* source has exactly once, whatever threads shared the partitions.
EveryChunkOnce ==
    Complete =>
        \A u \in ScanUnits : \A k \in DOMAIN Chunks[u] :
            /\ \E t \in Threads : \E i \in DOMAIN output[t] :
                  output[t][i].unit = u /\ output[t][i].chunk = k
            /\ \A t, v \in Threads : \A i \in DOMAIN output[t], j \in DOMAIN output[v] :
                  /\ output[t][i].unit = u /\ output[t][i].chunk = k
                  /\ output[v][j].unit = u /\ output[v][j].chunk = k
                  => t = v /\ i = j

\* DuckDB keeps rows by partition data, and rows of equal data in the order one
\* thread gave them: at every moment that order is the one an ordered query
\* asked for, even when the scan is refused or cancelled later.
OrderKept ==
    scan.ordered =>
        \A t, v \in Threads : \A i \in DOMAIN output[t], j \in DOMAIN output[v] :
            \/ output[t][i].index < output[v][j].index
            \/ output[t][i].index = output[v][j].index /\ t = v /\ i < j
            => Before(Rank(output[t][i]), Rank(output[v][j]))

\* Row ids are dense and never shared: the ids reserved for the emitted chunks
\* tile 0 .. rows_emitted - 1 (EmitRowIds, crossing_read.cpp:27-33).
RowIdsTile ==
    LET rows(c) == Chunks[c.unit][c.chunk]
        emitted == UNION {{<<t, i>> : i \in DOMAIN output[t]} : t \in Threads}
        at(e) == output[e[1]][e[2]]
    IN  \A id \in 0 .. (rows_emitted - 1) :
            Cardinality({e \in emitted : at(e).first <= id /\ id < at(e).first + rows(at(e))}) = 1

-----------------------------------------------------------------------------
\* The inductive invariant behind these.

\* A thread pulls or sleeps on the reader of a partition it claimed, nobody else
\* has that reader, and a thread that finished kept none.
ReadersClaimed ==
    \A t \in Threads :
        /\ status[t] \in {"pulling", "asleep"} => reader[t] # NoReader
        /\ partition[t] <= next_partition
        /\ reader[t] # NoReader =>
              /\ reader[t] = partition[t] /\ reader[t] < next_partition
              /\ \A v \in Threads : reader[v] = reader[t] => v = t
        /\ status[t] = "finished" /\ ~refused => reader[t] = NoReader

\* The source has begun to hand out unit u.
Begun(u) ==
    CASE scan.kind = "whole" -> u \in Partitions /\ unit[u] = u
      [] scan.kind = "counter" -> u < next_unit
      [] scan.kind = "dealt" -> u <= unit[u % scan.partitions]

\* The source has handed out chunk k of unit u.
Delivered(u, k) ==
    /\ Begun(u)
    /\ k \in DOMAIN Chunks[u]
    /\ \A p \in Partitions : unit[p] = u => k <= handed[p]

\* Each reader is inside a unit of its own, of which it handed out some chunk.
UnitsHeld ==
    \A p \in Partitions :
        /\ unit[p] = -1 => handed[p] = 0
        /\ unit[p] >= 0 =>
              /\ handed[p] \in DOMAIN Chunks[unit[p]]
              /\ Begun(unit[p])
              /\ scan.kind = "whole" => unit[p] = p
              /\ scan.kind = "dealt" => unit[p] % scan.partitions = p
              /\ \A q \in Partitions : unit[q] = unit[p] => q = p

\* A claimed partition that no thread reads any more has nothing left, and no thread
\* stops before the claims went past the last partition.
Drained ==
    ~refused /\ ~cancelled =>
        /\ \A p \in Partitions :
              p < next_partition /\ (\A t \in Threads : reader[t] # p) => CurrentUnit(p) = Units
        /\ (\A t \in Threads : status[t] = "finished") => next_partition >= scan.partitions

\* What DuckDB has is what the source handed out, each chunk once and placed by its
\* unit, no further than its thread has come.
OutputDelivered ==
    /\ \A t \in Threads : \A i \in DOMAIN output[t] :
          LET c == output[t][i] IN
          /\ c.index = c.unit /\ c.unit < Units /\ Delivered(c.unit, c.chunk)
          /\ IF Indexed THEN batch_index[t] # NoIndex /\ c.index <= batch_index[t]
                        ELSE c.index <= partition[t]
          /\ CheckScanPartitions(scan)
    /\ \A t, v \in Threads : \A i \in DOMAIN output[t], j \in DOMAIN output[v] :
          output[t][i].unit = output[v][j].unit /\ output[t][i].chunk = output[v][j].chunk
              => t = v /\ i = j

\* Unless the scan threw, everything the source handed out arrived.
DeliveredOutput ==
    ~refused =>
        /\ CheckScanPartitions(scan)
        /\ \A u \in DOMAIN Chunks : \A k \in DOMAIN Chunks[u] :
              Delivered(u, k) =>
                  \E t \in Threads : \E i \in DOMAIN output[t] :
                      output[t][i].unit = u /\ output[t][i].chunk = k

\* A thread gives the chunks of one unit in their order.
UnitInOrder ==
    \A t \in Threads : \A i, j \in DOMAIN output[t] :
        i < j /\ output[t][i].unit = output[t][j].unit => output[t][i].chunk < output[t][j].chunk

\* The chunk t handed to DuckDB as its i-th has row id `id`.
HasId(t, i, id) ==
    LET c == output[t][i] IN c.first <= id /\ id < c.first + Chunks[c.unit][c.chunk]

\* Each id below rows_emitted is one chunk's, and none at or above it is taken.
IdsReserved ==
    /\ \A id \in 0 .. (rows_emitted - 1) :
          \E t \in Threads : \E i \in DOMAIN output[t] :
              /\ HasId(t, i, id)
              /\ \A v \in Threads : \A j \in DOMAIN output[v] : HasId(v, j, id) => v = t /\ j = i
    /\ \A t \in Threads : \A i \in DOMAIN output[t] :
          LET c == output[t][i] IN c.first + Chunks[c.unit][c.chunk] <= rows_emitted

Inv ==
    /\ TypeOK
    /\ ReadersClaimed
    /\ UnitsHeld
    /\ Drained
    /\ OutputDelivered
    /\ DeliveredOutput
    /\ UnitInOrder
    /\ IdsReserved
    /\ PlaceNeverDown

\* Every scan comes to its end: refused, or with every thread finished, provided
\* the source wakes what it made wait.
ScanEnds == <>(refused \/ \A t \in Threads : status[t] = "finished")

=============================================================================
