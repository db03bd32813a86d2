------------------------- MODULE CrossingWriteProofs -------------------------
(***************************************************************************)
(* A prepared write for any table, any keys, any number of executions and   *)
(* of foreign changes: the inductive invariant Inv of CrossingWrite and the *)
(* four safety properties in it.                                            *)
(***************************************************************************)
EXTENDS CrossingWrite, FiniteSetTheorems, TLAPS

\* The gathered rows and their keys are finitely many.
LEMMA SeenFinite ==
  ASSUME TypeOK
  PROVE  /\ IsFiniteSet(Gathered) /\ IsFiniteSet(SeenKeys)
         /\ KeysSent \in Nat
         /\ Gone \notin SeenKeys
         /\ Gathered = {} => KeysSent = 0
  <1>1. IsFiniteSet(Gathered)
    BY WriteAssumption, FS_Subset DEF Gathered
  <1>2. SeenKeys \subseteq Keys
    BY DEF TypeOK, SeenKeys, Gathered
  <1>3. IsFiniteSet(SeenKeys)
    BY <1>2, WriteAssumption, FS_Subset
  <1>4. KeysSent \in Nat
    BY <1>3, FS_CardinalityType DEF KeysSent
  <1>5. ASSUME Gathered = {} PROVE KeysSent = 0
    BY <1>5, FS_EmptySet DEF KeysSent, SeenKeys
  <1> QED
    BY <1>1, <1>2, <1>3, <1>4, <1>5, WriteAssumption

\* More rows than keys: two of them share one.
LEMMA MoreRowsThanKeys ==
  ASSUME NEW R, IsFiniteSet(R), NEW K, IsFiniteSet(K),
         NEW f, \A r \in R : f[r] \in K,
         Cardinality(R) > Cardinality(K)
  PROVE  \E r, q \in R : r # q /\ f[r] = f[q]
  <1> DEFINE g == [r \in R |-> f[r]]
  <1>1. g \in [R -> K]
    OBVIOUS
  <1>2. Cardinality(K) < Cardinality(R)
    BY FS_CardinalityType
  <1>3. \A r \in R : g[r] = f[r]
    OBVIOUS
  <1> HIDE DEF g
  <1>4. \E r, q \in R : r # q /\ g[r] = g[q]
    BY <1>1, <1>2, FS_PigeonHole
  <1> QED
    BY <1>3, <1>4

\* No more rows than keys, and a row for each key: no two rows share one.
LEMMA ARowForEachKey ==
  ASSUME NEW R, IsFiniteSet(R), NEW K, IsFiniteSet(K),
         NEW f, \A r \in R : f[r] \in K,
         \A k \in K : \E r \in R : f[r] = k,
         ~(Cardinality(R) > Cardinality(K)),
         NEW r \in R, NEW q \in R, f[r] = f[q]
  PROVE  r = q
  <1> DEFINE g == [x \in R |-> f[x]]
  <1>1. g \in Surjection(R, K)
    BY DEF Surjection
  <1>2. g[r] = g[q]
    OBVIOUS
  <1> HIDE DEF g
  <1>3. Cardinality(R) = Cardinality(K)
    <2>1. Cardinality(K) <= Cardinality(R)
      BY <1>1, FS_Surjection
    <2>2. Cardinality(K) \in Nat /\ Cardinality(R) \in Nat
      BY FS_CardinalityType
    <2> QED
      BY <2>1, <2>2
  <1>4. g \in Injection(R, K)
    BY <1>1, <1>3, FS_Surjection
  <1> QED
    BY <1>2, <1>4 DEF Injection, IsInjective

-----------------------------------------------------------------------------
\* What is said of a count and of a refusal holds of every other end.
LEMMA NoVerdict ==
  ASSUME phase' # "output", outcome' \notin {"refused", "count"}
  PROVE  /\ phase' = "output" /\ kind' = "keyed" => ~AllAndOneTwice'
         /\ AlarmMeansAmbiguous' /\ AmbiguityRefused'
  BY DEF AlarmMeansAmbiguous, AmbiguityRefused

\* The gathered rows, their keys and the changed rows follow from the rows sunk and
\* reached.
LEMMA SameRows ==
  ASSUME UNCHANGED sunk
  PROVE  Gathered' = Gathered /\ SeenKeys' = SeenKeys /\ KeysSent' = KeysSent
  BY DEF Gathered, SeenKeys, KeysSent

LEMMA InitInv == Init => Inv
  <1> SUFFICES ASSUME Init PROVE Inv
    OBVIOUS
  <1> USE DEF Init, Task
  <1>1. TypeOK
    BY DEF TypeOK, Kinds, Waking!Statuses
  <1>2. PulledWhenReady /\ NotYet /\ RowsInHand /\ SeamInPlace
    BY DEF PulledWhenReady, NotYet, RowsInHand, SeamInPlace
  <1>3. AskedOnce /\ SeamIsBack /\ AlarmMeansAmbiguous /\ AmbiguityRefused
    BY DEF AskedOnce, SeamIsBack, AlarmMeansAmbiguous, AmbiguityRefused
  <1> QED
    BY <1>1, <1>2, <1>3 DEF Inv

LEMMA ExecuteInv == ASSUME Inv, Execute PROVE Inv'
  <1> USE DEF Execute, Inv, Task, Waking!Restart, source
  <1>1. TypeOK'
    <2>1. /\ cancelled' \in BOOLEAN /\ created' \in BOOLEAN
          /\ signal' \in [{Task} -> BOOLEAN] /\ status' \in [{Task} -> Waking!Statuses]
      BY DEF Waking!Statuses
    <2>2. /\ sunk' \in [Rows -> Keys \cup {Gone}] /\ reached' \in [Rows -> Keys \cup {Gone}]
          /\ table' \in [Rows -> Keys \cup {Gone}]
      BY DEF TypeOK
    <2> QED
      BY <2>1, <2>2 DEF TypeOK, Restored
  <1>2. Changed' = {}
    BY DEF Changed
  <1>3. PulledWhenReady' /\ NotYet' /\ RowsInHand' /\ SeamInPlace'
    BY <1>2 DEF TypeOK, PulledWhenReady, NotYet, RowsInHand, SeamInPlace, Restored
  <1>4. AskedOnce' /\ SeamIsBack'
    BY DEF TypeOK, AskedOnce, SeamIsBack, SeamInPlace, Restored
  <1> QED
    BY <1>1, <1>3, <1>4, NoVerdict

LEMMA SinkInv == ASSUME Inv, NEW r \in Rows, Sink(r) PROVE Inv'
  <1> USE DEF Sink, Inv, Task, source, history
  <1>1. TypeOK'
    BY DEF TypeOK
  <1>2. Changed' = Changed
    BY DEF Changed
  <1>3. PulledWhenReady' /\ NotYet' /\ RowsInHand' /\ SeamInPlace'
    BY <1>2 DEF TypeOK, PulledWhenReady, NotYet, RowsInHand, SeamInPlace
  <1>4. AskedOnce' /\ SeamIsBack'
    BY DEF TypeOK, AskedOnce, SeamIsBack, NotYet
  <1> QED
    BY <1>1, <1>3, <1>4, NoVerdict DEF NotYet

LEMMA EndInputInv == ASSUME Inv, EndInput PROVE Inv'
  <1> USE DEF EndInput, Inv, Task, source, history
  <1>1. TypeOK'
    BY DEF TypeOK
  <1>2. Changed' = Changed
    BY DEF Changed
  <1>3. PulledWhenReady' /\ NotYet' /\ RowsInHand' /\ SeamInPlace'
    BY <1>2, SameRows DEF PulledWhenReady, NotYet, RowsInHand, SeamInPlace
  <1>4. AskedOnce' /\ SeamIsBack'
    BY DEF AskedOnce, SeamIsBack, NotYet
  <1> QED
    BY <1>1, <1>3, <1>4, NoVerdict DEF NotYet

LEMMA PrepareWriteInv == ASSUME Inv, PrepareWrite PROVE Inv'
  <1>1. KeysSent \in Nat
    BY SeenFinite DEF Inv
  <1>2. Gathered' = Gathered /\ SeenKeys' = SeenKeys /\ KeysSent' = KeysSent
    BY SameRows DEF PrepareWrite
  <1>3. Changed' = Changed
    BY DEF PrepareWrite, Changed
  <1>4. slot = "seam"
    BY DEF Inv, TypeOK, SeamInPlace, PrepareWrite
  <1> USE DEF PrepareWrite, Inv, Task, source
  <1>5. TypeOK'
    BY <1>1, <1>4 DEF TypeOK, FillSeam
  <1>6. PulledWhenReady' /\ NotYet' /\ RowsInHand' /\ SeamInPlace'
    BY <1>2, <1>3, <1>4 DEF PulledWhenReady, NotYet, RowsInHand, SeamInPlace, FillSeam
  <1>7. AskedOnce' /\ SeamIsBack'
    BY <1>4 DEF AskedOnce, SeamIsBack, NotYet, FillSeam
  <1>8. outcome' = "none"
    BY <1>4 DEF NotYet, FillSeam
  <1>9. ~AllAndOneTwice'
    BY <1>3 DEF AllAndOneTwice, NotYet
  <1> QED
    BY <1>5, <1>6, <1>7, <1>8, <1>9 DEF AlarmMeansAmbiguous, AmbiguityRefused

LEMMA CreateTableInv == ASSUME Inv, CreateTable PROVE Inv'
  <1>1. Gathered' = Gathered /\ SeenKeys' = SeenKeys /\ KeysSent' = KeysSent
    BY SameRows DEF CreateTable
  <1>2. Changed' = Changed
    BY DEF CreateTable, Changed
  <1>3. slot = "seam" /\ write = "none" /\ ddls = 0 /\ asked = 0
    BY DEF Inv, TypeOK, SeamInPlace, CreateTable, NotYet
  <1> USE DEF CreateTable, Inv, Task, source
  <1>4. TypeOK'
    <2>1. created' \in BOOLEAN
      OBVIOUS
    <2> QED
      BY <1>3, <2>1 DEF TypeOK, FillSeam, Fail
  <1>5. PulledWhenReady' /\ NotYet' /\ RowsInHand' /\ SeamInPlace'
    BY <1>1, <1>2, <1>3 DEF PulledWhenReady, NotYet, RowsInHand, SeamInPlace, FillSeam, Fail
  <1>6. AskedOnce' /\ SeamIsBack'
    BY <1>3 DEF AskedOnce, SeamIsBack, NotYet, FillSeam, Fail
  <1>7. outcome' \in {"none", "failed"} /\ phase' # "output"
    BY <1>3 DEF NotYet, FillSeam, Fail
  <1> QED
    BY <1>4, <1>5, <1>6, <1>7, NoVerdict

LEMMA PrepareFenceInv == ASSUME Inv, PrepareFence PROVE Inv'
  <1> USE DEF PrepareFence, Inv, Task, source, history
  <1>1. TypeOK'
    BY DEF TypeOK
  <1>2. Changed' = Changed
    BY DEF Changed
  <1>3. PulledWhenReady' /\ NotYet' /\ RowsInHand' /\ SeamInPlace'
    BY <1>2 DEF PulledWhenReady, NotYet, RowsInHand, SeamInPlace
  <1>4. AskedOnce' /\ SeamIsBack'
    BY DEF AskedOnce, SeamIsBack, NotYet
  <1> QED
    BY <1>1, <1>3, <1>4, NoVerdict DEF NotYet

-----------------------------------------------------------------------------
LEMMA StartPullInv == ASSUME Inv, StartPull PROVE Inv'
  <1> USE DEF StartPull, Waking!Pull, Inv, Task, execution, source, history
  <1>1. TypeOK'
    BY DEF TypeOK, Waking!Statuses
  <1>2. Changed' = Changed
    BY DEF Changed
  <1>3. PulledWhenReady' /\ NotYet' /\ RowsInHand' /\ SeamInPlace'
    BY <1>2, SameRows DEF PulledWhenReady, NotYet, RowsInHand, SeamInPlace
  <1>4. AskedOnce' /\ SeamIsBack'
    BY SameRows DEF AskedOnce, SeamIsBack
  <1> QED
    BY <1>1, <1>3, <1>4, NoVerdict DEF NotYet

\* Finalize is entered again only with the writer it has, so no writer was asked
\* for before.
LEMMA AskForWriterInv == ASSUME Inv, AskForWriter PROVE Inv'
  <1>1. /\ phase = "finalize" /\ (kind = "create" => created /\ ddls = 1)
        /\ asked = 0 /\ outcome = "none" /\ (kind = "fence" \/ Gathered # {})
    BY DEF AskForWriter, Inv, PulledWhenReady, NotYet, RowsInHand
  <1>2. Gathered' = Gathered /\ SeenKeys' = SeenKeys /\ KeysSent' = KeysSent
    BY SameRows DEF AskForWriter
  <1>3. Changed' = Changed
    BY DEF AskForWriter, Changed
  <1> USE DEF AskForWriter, Waking!Answer, Inv, Task, source
  <1>4. TypeOK'
    <2>1. /\ status' \in [{Task} -> Waking!Statuses] /\ signal' \in [{Task} -> BOOLEAN]
          /\ created' \in BOOLEAN /\ cancelled' \in BOOLEAN
      BY DEF TypeOK, Waking!Statuses
    <2> QED
      BY <1>1, <2>1 DEF TypeOK, Fail
  <1>5. PulledWhenReady' /\ NotYet' /\ RowsInHand' /\ SeamInPlace'
    BY <1>1, <1>2, <1>3 DEF PulledWhenReady, NotYet, RowsInHand, SeamInPlace, Fail
  <1>6. AskedOnce' /\ SeamIsBack'
    BY <1>1, <1>2 DEF AskedOnce, SeamIsBack, Fail
  <1> QED
    BY <1>1, <1>4, <1>5, <1>6, NoVerdict DEF Fail

\* The rows a keyed write changed are those that have a key it sent; they are
\* counted against the keys.
LEMMA KeyChecked ==
  ASSUME Inv, kind = "keyed", UNCHANGED sunk, keys_sent = KeysSent,
         NEW rows \in SUBSET Rows, \A r \in rows : table[r] \in SeenKeys,
         reached' = [r \in Rows |-> IF r \in rows THEN table[r] ELSE Gone]
  PROVE  /\ NotUnique(rows) => \E r, q \in Changed' : r # q /\ reached'[r] = reached'[q]
         /\ ~NotUnique(rows) => ~AllAndOneTwice'
  <1>1. IsFiniteSet(SeenKeys) /\ Gone \notin SeenKeys
    BY SeenFinite DEF Inv
  <1>2. IsFiniteSet(rows)
    BY WriteAssumption, FS_Subset
  <1>3. Changed' = rows /\ \A r \in rows : reached'[r] = table[r]
    BY <1>1 DEF Changed
  <1>4. SeenKeys' = SeenKeys
    BY SameRows
  <1>5. ASSUME NotUnique(rows) PROVE \E r, q \in rows : r # q /\ table[r] = table[q]
    BY <1>1, <1>2, <1>5, MoreRowsThanKeys DEF NotUnique, KeysSent
  <1>6. ASSUME ~NotUnique(rows), AllAndOneTwice' PROVE FALSE
    <2>1. \A k \in SeenKeys : \E r \in rows : table[r] = k
      BY <1>3, <1>4, <1>6 DEF AllAndOneTwice
    <2>2. PICK r, q \in rows : r # q /\ table[r] = table[q]
      BY <1>3, <1>6 DEF AllAndOneTwice
    <2>3. ~(Cardinality(rows) > Cardinality(SeenKeys))
      BY <1>6 DEF NotUnique, KeysSent
    <2>4. r = q
      BY <1>1, <1>2, <2>1, <2>2, <2>3, ARowForEachKey
    <2> QED
      BY <2>2, <2>4
  <1> QED
    BY <1>3, <1>5, <1>6

LEMMA AnswerDoneInv == ASSUME Inv, AnswerDone PROVE Inv'
  <1>1. PICK rows \in IF write = "empty" THEN {{}} ELSE Reachable :
          /\ reached' = [r \in Rows |->
                IF r \notin rows THEN Gone
                ELSE IF r \in Gathered /\ kind \in {"insert", "create"} THEN sunk[r] ELSE table[r]]
          /\ affected' = CountOf(rows)
          /\ IF kind = "keyed" /\ NotUnique(rows)
             THEN Fail("refused")
             ELSE phase' = "output" /\ UNCHANGED outcome
    BY DEF AnswerDone
  <1>2. /\ status[Task] = "pulling" /\ status'[Task] = "finished"
        /\ status' = [status EXCEPT ![Task] = "finished"]
        /\ signal' = [signal EXCEPT ![Task] = FALSE]
        /\ write' = "none" /\ slot' = Restored
        /\ UNCHANGED <<kind, runs, cancelled, sunk, keys_sent, created, table, changes, ddls, asked>>
    BY DEF AnswerDone, Waking!Answer, Inv, TypeOK, Task, source
  <1>3. phase = "finalize" /\ write # "none" /\ outcome = "none"
    BY <1>2 DEF Inv, PulledWhenReady, NotYet
  <1>4. rows \in SUBSET Rows
    BY <1>1 DEF Reachable, Gathered, Inv, TypeOK, Kinds
  <1>5. affected' \in Nat
    BY <1>1, <1>4, WriteAssumption, FS_Subset, FS_CardinalityType DEF CountOf
  <1>6. reached' \in [Rows -> Keys \cup {Gone}]
    BY <1>1 DEF Inv, TypeOK
  <1>7. TypeOK'
    BY <1>1, <1>2, <1>3, <1>5, <1>6 DEF Inv, TypeOK, Fail, Restored, Waking!Statuses, Task
  <1>8. PulledWhenReady' /\ NotYet' /\ RowsInHand' /\ SeamInPlace'
    BY <1>1, <1>2, <1>3 DEF Inv, PulledWhenReady, NotYet, RowsInHand, SeamInPlace, Fail, Restored
  <1>9. AskedOnce' /\ SeamIsBack'
    BY <1>1, <1>2, <1>3, SameRows DEF Inv, AskedOnce, SeamIsBack, Fail
  <1>10. CASE kind = "keyed"
    <2>1. \A r \in rows : table[r] \in SeenKeys
      BY <1>1, <1>10 DEF Reachable
    <2>2. reached' = [r \in Rows |-> IF r \in rows THEN table[r] ELSE Gone]
      BY <1>1, <1>10
    <2>3. keys_sent = KeysSent
      BY <1>3, <1>10 DEF Inv, RowsInHand
    <2>4. /\ NotUnique(rows) => \E r, q \in Changed' : r # q /\ reached'[r] = reached'[q]
          /\ ~NotUnique(rows) => ~AllAndOneTwice'
      BY <1>2, <1>4, <1>10, <2>1, <2>2, <2>3, KeyChecked
    <2> QED
      BY <1>1, <1>3, <1>7, <1>8, <1>9, <1>10, <2>4
         DEF Inv, AlarmMeansAmbiguous, AmbiguityRefused, Fail
  <1>11. CASE kind # "keyed"
    BY <1>1, <1>2, <1>3, <1>7, <1>8, <1>9, <1>11 DEF Inv, AlarmMeansAmbiguous, AmbiguityRefused
  <1> QED
    BY <1>10, <1>11

LEMMA AnswerErrorInv == ASSUME Inv, AnswerError PROVE Inv'
  <1>1. Gathered' = Gathered /\ SeenKeys' = SeenKeys /\ KeysSent' = KeysSent
    BY SameRows DEF AnswerError
  <1> USE DEF AnswerError, Waking!Answer, Fail, Inv, Task, source
  <1>2. TypeOK'
    BY DEF TypeOK, Waking!Statuses
  <1>3. PulledWhenReady' /\ NotYet' /\ RowsInHand' /\ SeamInPlace'
    BY <1>1 DEF PulledWhenReady, NotYet, RowsInHand, SeamInPlace
  <1>4. AskedOnce' /\ SeamIsBack'
    BY <1>1 DEF AskedOnce, SeamIsBack
  <1> QED
    BY <1>2, <1>3, <1>4, NoVerdict

LEMMA AnswerWaitInv == ASSUME Inv, AnswerWait PROVE Inv'
  <1>1. Gathered' = Gathered /\ SeenKeys' = SeenKeys /\ KeysSent' = KeysSent
    BY SameRows DEF AnswerWait
  <1>2. phase = "finalize" /\ outcome = "none" /\ (kind = "create" => created)
    BY DEF AnswerWait, Inv, PulledWhenReady, NotYet
  <1>3. Changed' = Changed
    BY DEF AnswerWait, Changed
  <1>4. cancelled => kind = "fence"
    BY DEF Inv, SeamInPlace
  <1> USE DEF AnswerWait, Waking!Answer, Waking!FallAsleep, Fail, Inv, Task, source
  <1>5. TypeOK'
    BY <1>2 DEF TypeOK, Waking!Statuses
  <1>6. PulledWhenReady' /\ NotYet' /\ RowsInHand' /\ SeamInPlace'
    BY <1>1, <1>2, <1>3, <1>4 DEF PulledWhenReady, NotYet, RowsInHand, SeamInPlace
  <1>7. AskedOnce' /\ SeamIsBack'
    BY <1>1, <1>2 DEF AskedOnce, SeamIsBack
  <1> QED
    BY <1>2, <1>5, <1>6, <1>7, NoVerdict

-----------------------------------------------------------------------------
LEMMA OutputInv == ASSUME Inv, Output PROVE Inv'
  <1>1. Gathered' = Gathered /\ SeenKeys' = SeenKeys /\ KeysSent' = KeysSent
    BY SameRows DEF Output
  <1>2. Changed' = Changed
    BY DEF Output, Changed
  <1> USE DEF Output, Inv, Task, source
  <1>3. TypeOK'
    BY DEF TypeOK
  <1>4. PulledWhenReady' /\ NotYet' /\ RowsInHand' /\ SeamInPlace'
    BY <1>1, <1>2 DEF PulledWhenReady, NotYet, RowsInHand, SeamInPlace
  <1>5. AskedOnce' /\ SeamIsBack'
    BY <1>1 DEF AskedOnce, SeamIsBack
  <1>6. AlarmMeansAmbiguous' /\ AmbiguityRefused'
    BY <1>1, <1>2 DEF AlarmMeansAmbiguous, AmbiguityRefused, AllAndOneTwice
  <1> QED
    BY <1>3, <1>4, <1>5, <1>6

LEMMA InterruptInv == ASSUME Inv, Interrupt PROVE Inv'
  <1>1. Gathered' = Gathered /\ SeenKeys' = SeenKeys /\ KeysSent' = KeysSent
    BY SameRows DEF Interrupt
  <1> USE DEF Interrupt, Fail, Waking!Restart, Inv, Task, source
  <1>2. TypeOK'
    <2>1. status' \in [{Task} -> Waking!Statuses] /\ signal' \in [{Task} -> BOOLEAN]
      BY DEF Waking!Statuses
    <2> QED
      BY <2>1 DEF TypeOK
  <1>3. PulledWhenReady' /\ NotYet' /\ RowsInHand' /\ SeamInPlace'
    BY <1>1 DEF TypeOK, PulledWhenReady, NotYet, RowsInHand, SeamInPlace
  <1>4. AskedOnce' /\ SeamIsBack'
    BY <1>1 DEF AskedOnce, SeamIsBack
  <1> QED
    BY <1>2, <1>3, <1>4, NoVerdict

LEMMA SourceChangesInv == ASSUME Inv, NEW r \in Rows, SourceChanges(r) PROVE Inv'
  <1>1. Gathered' = Gathered /\ SeenKeys' = SeenKeys /\ KeysSent' = KeysSent
    BY SameRows DEF SourceChanges, execution
  <1>2. Changed' = Changed
    BY DEF SourceChanges, history, Changed
  <1> USE DEF SourceChanges, Inv, Task, execution, history
  <1>3. TypeOK'
    BY DEF TypeOK
  <1>4. PulledWhenReady' /\ NotYet' /\ RowsInHand' /\ SeamInPlace'
    BY <1>1, <1>2 DEF PulledWhenReady, NotYet, RowsInHand, SeamInPlace
  <1>5. AskedOnce' /\ SeamIsBack' /\ (phase' = "output" /\ kind' = "keyed" => ~AllAndOneTwice')
    BY <1>1, <1>2 DEF AskedOnce, SeamIsBack, AllAndOneTwice
  <1>6. AlarmMeansAmbiguous' /\ AmbiguityRefused'
    BY <1>1, <1>2 DEF AlarmMeansAmbiguous, AmbiguityRefused, AllAndOneTwice
  <1> QED
    BY <1>3, <1>4, <1>5, <1>6

\* A step that only wakes or cancels.
LEMMA SleepInv ==
  ASSUME Inv,
         UNCHANGED <<kind, slot, runs, phase, sunk, keys_sent, write, created, affected, source, history>>,
         cancelled' = cancelled \/ (cancelled' = TRUE /\ kind = "fence"),
         status' \in [{Task} -> Waking!Statuses] /\ signal' \in [{Task} -> BOOLEAN],
         status'[Task] \in {"pulling", "asleep"} => status[Task] \in {"pulling", "asleep"}
  PROVE  Inv'
  <1>1. Gathered' = Gathered /\ SeenKeys' = SeenKeys /\ KeysSent' = KeysSent
    BY SameRows
  <1>2. Changed' = Changed
    BY DEF history, Changed
  <1> USE DEF Inv, Task, source, history
  <1>3. TypeOK'
    <2>1. cancelled' \in BOOLEAN
      BY DEF TypeOK
    <2> QED
      BY <2>1 DEF TypeOK
  <1>4. PulledWhenReady' /\ NotYet' /\ RowsInHand' /\ SeamInPlace'
    BY <1>1, <1>2 DEF PulledWhenReady, NotYet, RowsInHand, SeamInPlace
  <1>5. AskedOnce' /\ SeamIsBack' /\ (phase' = "output" /\ kind' = "keyed" => ~AllAndOneTwice')
    BY <1>1, <1>2 DEF AskedOnce, SeamIsBack, AllAndOneTwice
  <1>6. AlarmMeansAmbiguous' /\ AmbiguityRefused'
    BY <1>1, <1>2 DEF AlarmMeansAmbiguous, AmbiguityRefused, AllAndOneTwice
  <1> QED
    BY <1>3, <1>4, <1>5, <1>6

LEMMA WakeInv == ASSUME Inv, SourceWakes \/ Resume \/ Cancel PROVE Inv'
  <1>1. status \in [{Task} -> Waking!Statuses] /\ signal \in [{Task} -> BOOLEAN]
    BY DEF Inv, TypeOK
  <1> USE <1>1, SleepInv
  <1>2. CASE SourceWakes
    BY <1>2 DEF SourceWakes, Waking!Signal, execution, source, history, Waking!Statuses, Task
  <1>3. CASE Resume
    BY <1>3 DEF Resume, Waking!Resume, execution, source, history, Waking!Statuses, Task
  <1>4. CASE Cancel
    BY <1>4 DEF Cancel, Waking!Signal, source, history, Waking!Statuses, Task
  <1> QED
    BY <1>2, <1>3, <1>4

-----------------------------------------------------------------------------
LEMMA StutterInv == ASSUME Inv, UNCHANGED vars PROVE Inv'
  <1>1. status \in [{Task} -> Waking!Statuses] /\ signal \in [{Task} -> BOOLEAN]
    BY DEF Inv, TypeOK
  <1> QED
    BY <1>1, SleepInv DEF vars, execution

LEMMA NextInv == ASSUME Inv, [Next]_vars PROVE Inv'
  <1>1. ASSUME Turn PROVE Inv'
    BY <1>1, EndInputInv, PrepareWriteInv, CreateTableInv, PrepareFenceInv, StartPullInv,
       AskForWriterInv, OutputInv, WakeInv DEF Turn
  <1>2. ASSUME Answers PROVE Inv'
    BY <1>2, AnswerDoneInv, AnswerErrorInv DEF Answers
  <1>3. ASSUME NEW r \in Rows, Sink(r) \/ SourceChanges(r) PROVE Inv'
    BY <1>3, SinkInv, SourceChangesInv
  <1> QED
    BY <1>1, <1>2, <1>3, ExecuteInv, AnswerWaitInv, WakeInv, InterruptInv, StutterInv DEF Next

\* The inductive invariant holds in every reachable state, for any rows, keys and
\* writes and however often the table changes under them.
THEOREM SpecInv == Spec => []Inv
  BY InitInv, NextInv, PTL DEF Spec

\* Finalize, entered again after BLOCKED, never asks for a second writer nor creates
\* a table twice, and no writer is asked for without rows.
THEOREM SpecAskedOnce == Spec => []AskedOnce
  <1>1. Inv => AskedOnce
    BY DEF Inv
  <1> QED
    BY <1>1, SpecInv, PTL

\* However an execution ended, the next one finds the seam in the shared plan.
THEOREM SpecSeamIsBack == Spec => []SeamIsBack
  <1>1. Inv => SeamIsBack
    BY DEF Inv
  <1> QED
    BY <1>1, SpecInv, PTL

\* ThrowIfKeyNotUnique throws only when two rows it reached have one key: with more
\* rows than keys, two of them must share one.
THEOREM SpecAlarmMeansAmbiguous == Spec => []AlarmMeansAmbiguous
  <1>1. Inv => AlarmMeansAmbiguous
    BY DEF Inv
  <1> QED
    BY <1>1, SpecInv, PTL

\* ThrowIfKeyNotUnique lets no write pass that reached every key and one of them
\* twice: with a row for each key and no more rows than keys, no two share one.
THEOREM SpecAmbiguityRefused == Spec => []AmbiguityRefused
  <1>1. Inv => AmbiguityRefused
    BY DEF Inv
  <1> QED
    BY <1>1, SpecInv, PTL

=============================================================================
