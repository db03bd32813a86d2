---------------------------- MODULE CrossingWrite ----------------------------
(***************************************************************************)
(* One prepared write, executed several times (src/crossing_write.cpp):     *)
(* CROSSING_WRITE gathers rows and sends them through the seam of its plan, *)
(* CROSSING_CREATE_TABLE_AS creates the table first, and CROSSING_FENCE     *)
(* sends a plan whose rows come from the source itself.                     *)
(*                                                                          *)
(* The plan is shared by all executions: for the length of one the seam is  *)
(* replaced by the gathered rows.  A writer that answers WAIT has Finalize  *)
(* answer BLOCKED and be called again from its start; the sleeping is the   *)
(* promise of CrossingWaking.                                               *)
(*                                                                          *)
(* The source's table changes while rows are gathered and sent.  The        *)
(* source, the feed and DuckDB's executor are external.                     *)
(***************************************************************************)
EXTENDS Naturals, FiniteSets

CONSTANTS
    Rows,        \* rows of the source's table
    Keys,        \* values of the declared key
    Gone,        \* the key of a row that is not in the table
    MaxRuns,     \* executions of the prepared write (bound)
    MaxChanges   \* changes somebody else makes to the table (bound)

ASSUME WriteAssumption ==
    /\ Gone \notin Keys
    /\ IsFiniteSet(Rows) /\ IsFiniteSet(Keys)
    /\ MaxRuns \in Nat /\ MaxChanges \in Nat

\* INSERT; UPDATE or DELETE through a key the source does not vouch for, and
\* through one it does; CREATE TABLE AS; a write whose rows are the source's.
Kinds == {"insert", "keyed", "vouched", "create", "fence"}

VARIABLES
    kind,        \* which write was prepared
    slot,        \* what the plan's seam slot holds; "none" for a fence
    runs,        \* executions begun
    phase,       \* where the execution is
    status, signal,  \* the task's sleep, as CrossingWaking keeps it
    cancelled,   \* the fence's operator may no longer block
    sunk,        \* state.rows: the key each gathered row had, Gone if not gathered
    keys_sent,   \* state.keys_sent
    write,       \* state.write and how far it is
    created,     \* state.created
    affected,    \* state.affected_rows
    table, changes,  \* source: each row's key now; the changes made
    ddls, asked,     \* history: Ddl and Write calls of this execution
    reached,     \* history: the key each row the source changed was reached by
    outcome      \* history: how the execution ended

execution == <<slot, runs, phase, cancelled, sunk, keys_sent, write, created, affected>>
source == <<table, changes>>
history == <<ddls, asked, reached, outcome>>
vars == <<kind, execution, status, signal, source, history>>

Task == "write"
Waking == INSTANCE CrossingWaking WITH Tasks <- {Task}

Init ==
    /\ kind \in Kinds
    /\ slot = IF kind = "fence" THEN "none" ELSE "seam"
    /\ runs = 0
    /\ phase = "over"
    /\ status = [t \in {Task} |-> "running"]
    /\ signal = [t \in {Task} |-> FALSE]
    /\ cancelled = FALSE
    /\ sunk = [r \in Rows |-> Gone]
    /\ keys_sent = 0
    /\ write = "none"
    /\ created = FALSE
    /\ affected = 0
    /\ table \in [Rows -> Keys \cup {Gone}]
    /\ changes = 0
    /\ ddls = 0 /\ asked = 0
    /\ reached = [r \in Rows |-> Gone]
    /\ outcome = "none"

-----------------------------------------------------------------------------
\* The rows gathered and the keys SeeKey remembers of them.
Gathered == {r \in Rows : sunk[r] # Gone}
SeenKeys == {sunk[r] : r \in Gathered}

\* Mutant: each row is counted for a key.
RowsSent == Cardinality(Gathered)

\* How many keys the seam holds.
KeysSent == Cardinality(SeenKeys)

\* Mutant: the plan keeps the rows of a write whose writer was made.
RestoredUnlessWriting == IF write = "writing" THEN slot ELSE IF slot = "rows" THEN "seam" ELSE slot

\* The slot after ~CrossingSeamFilledWrite, which puts the seam back.
Restored == IF slot = "rows" THEN "seam" ELSE slot

\* The statement ends with an exception.  A sink's state, and the write in it,
\* outlive the statement.
Fail(how) ==
    /\ phase' = "over"
    /\ outcome' = how

-----------------------------------------------------------------------------
\* DuckDB runs the prepared plan.  Building its pipelines destroys what the last
\* execution left in the operator and makes a state anew.
Execute ==
    /\ phase = "over"
    /\ runs < MaxRuns
    /\ runs' = runs + 1
    /\ phase' = IF kind = "fence" THEN "finalize" ELSE "sink"
    /\ slot' = Restored
    /\ write' = "none"
    /\ Waking!Restart
    /\ cancelled' = FALSE
    /\ sunk' = [r \in Rows |-> Gone]
    /\ keys_sent' = 0 /\ created' = FALSE /\ affected' = 0
    /\ ddls' = 0 /\ asked' = 0 /\ reached' = [r \in Rows |-> Gone] /\ outcome' = "none"
    /\ UNCHANGED <<kind, source>>

\* Sink appends a row, as the feed read it from the table, and sees its key.
Sink(r) ==
    /\ phase = "sink"
    /\ sunk[r] = Gone
    /\ table[r] # Gone
    /\ sunk' = [sunk EXCEPT ![r] = table[r]]
    /\ UNCHANGED <<kind, slot, runs, phase, status, signal, cancelled, keys_sent, write, created,
                   affected, source, history>>

\* The feed is exhausted and Finalize is called for the first time.
EndInput ==
    /\ phase = "sink"
    /\ phase' = "finalize"
    /\ UNCHANGED <<kind, slot, runs, status, signal, cancelled, sunk, keys_sent, write, created,
                   affected, source, history>>

-----------------------------------------------------------------------------
\* CrossingSeamFilledWrite's constructor: no rows for a seam make an empty write,
\* and a plan whose slot holds no seam cannot take rows.
FillSeam ==
    IF Gathered = {}
    THEN /\ write' = "empty"
         /\ UNCHANGED <<slot, phase, outcome>>
    ELSE IF slot = "seam"
    THEN /\ write' = "filled"
         /\ slot' = "rows"
         /\ UNCHANGED <<phase, outcome>>
    ELSE /\ Fail("broken")
         /\ UNCHANGED <<write, slot>>

\* Finalize of CROSSING_WRITE before its loop: with no rows it is READY.
PrepareWrite ==
    /\ kind \in {"insert", "keyed", "vouched"}
    /\ phase = "finalize"
    /\ status[Task] = "running"
    /\ write = "none"
    /\ IF Gathered = {}
       THEN /\ phase' = "output"
            /\ UNCHANGED <<slot, write, keys_sent, outcome>>
       ELSE /\ keys_sent' = IF kind = "keyed" THEN KeysSent ELSE 0
            /\ FillSeam
    /\ UNCHANGED <<kind, runs, status, signal, cancelled, sunk, created, affected, source, ddls,
                   asked, reached>>

\* Finalize of CROSSING_CREATE_TABLE_AS before the loop: the session's Ddl, which is
\* remembered before anything else can throw; then the table as the session
\* describes it and the plan of its insert.  Any of them may throw.
CreateTable ==
    /\ kind = "create"
    /\ phase = "finalize"
    /\ status[Task] = "running"
    /\ ~created
    /\ ddls' = ddls + 1
    /\ \/ /\ created' \in BOOLEAN
          /\ Fail("failed")
          /\ UNCHANGED <<slot, write>>
       \/ /\ created' = TRUE
          /\ FillSeam
    /\ UNCHANGED <<kind, runs, status, signal, cancelled, sunk, keys_sent, affected, source,
                   asked, reached>>

\* GetData of CROSSING_FENCE, before its loop.
PrepareFence ==
    /\ kind = "fence"
    /\ phase = "finalize"
    /\ write = "none"
    /\ write' = "filled"
    /\ UNCHANGED <<kind, slot, runs, phase, status, signal, cancelled, sunk, keys_sent, created,
                   affected, source, history>>

-----------------------------------------------------------------------------
\* One turn of the loop: the write is pulled with a waker of its own.
StartPull ==
    /\ phase = "finalize"
    /\ write # "none"
    /\ kind = "create" => created
    /\ Waking!Pull(Task)
    /\ UNCHANGED <<kind, execution, source, history>>

\* Mutant: each pull asks for a writer.
AskAgain ==
    /\ status[Task] = "pulling"
    /\ write \in {"filled", "writing"}
    /\ asked' = asked + 1
    /\ write' = "writing"
    /\ UNCHANGED <<kind, slot, runs, phase, status, signal, cancelled, sunk, keys_sent, created,
                   affected, source, ddls, reached, outcome>>

\* The first pull of a write that is not empty asks the session for a writer.
\* Begin or Write may throw.
AskForWriter ==
    /\ status[Task] = "pulling"
    /\ write = "filled"
    /\ \/ /\ asked' = asked + 1
          /\ write' = "writing"
          /\ UNCHANGED <<phase, status, signal, outcome>>
       \/ /\ asked' \in {asked, asked + 1}
          /\ Waking!Answer(Task)
          /\ status'[Task] = "finished"
          /\ Fail("failed")
          /\ UNCHANGED write
    /\ UNCHANGED <<kind, slot, runs, cancelled, sunk, keys_sent, created, affected, source, ddls,
                   reached>>

\* The rows the source may change: those gathered, for an insert; every row that now
\* has one of the keys sent; any it has, for a fence.
Reachable ==
    CASE kind \in {"insert", "create"} -> {Gathered}
      [] kind \in {"keyed", "vouched"} -> {{r \in Rows : table[r] \in SeenKeys}}
      [] kind = "fence" -> SUBSET {r \in Rows : table[r] # Gone}

\* Mutant: as many rows as keys are too many.
AsManyAsKeys(rows) == Cardinality(rows) >= keys_sent

\* ThrowIfKeyNotUnique.
NotUnique(rows) == Cardinality(rows) > keys_sent

\* CrossingWriteResult::affected_rows.
CountOf(rows) == Cardinality(rows)

\* The writer answers DONE; an empty write does so itself.  The write is
\* destroyed, the key is checked where the source does not vouch for it, and the
\* count is kept for the output.
AnswerDone ==
    /\ status[Task] = "pulling"
    /\ write \in {"empty", "writing"}
    /\ \E rows \in IF write = "empty" THEN {{}} ELSE Reachable :
          /\ reached' = [r \in Rows |->
                IF r \notin rows THEN Gone ELSE IF r \in Gathered /\ kind \in {"insert", "create"} THEN sunk[r] ELSE table[r]]
          /\ affected' = CountOf(rows)
          /\ IF kind = "keyed" /\ NotUnique(rows)
             THEN Fail("refused")
             ELSE phase' = "output" /\ UNCHANGED outcome
    /\ Waking!Answer(Task)
    /\ status'[Task] = "finished"
    /\ write' = "none"
    /\ slot' = Restored
    /\ UNCHANGED <<kind, runs, cancelled, sunk, keys_sent, created, source, ddls, asked>>

\* The writer throws.
AnswerError ==
    /\ status[Task] = "pulling"
    /\ write = "writing"
    /\ Waking!Answer(Task)
    /\ status'[Task] = "finished"
    /\ Fail("failed")
    /\ UNCHANGED <<kind, slot, runs, cancelled, sunk, keys_sent, write, created, affected, source,
                   ddls, asked, reached>>

\* The writer answers WAIT: the task answers BLOCKED and will call Finalize, or
\* GetData, again; a woken one pulls again; a fence that may no longer block ends
\* with its write dropped.
AnswerWait ==
    /\ status[Task] = "pulling"
    /\ write = "writing"
    /\ \/ /\ ~cancelled
          /\ Waking!FallAsleep(Task)
          /\ UNCHANGED <<write, phase, outcome>>
       \/ /\ ~cancelled
          /\ signal[Task]
          /\ Waking!Answer(Task)
          /\ status'[Task] = "running"
          /\ UNCHANGED <<write, phase, outcome>>
       \/ /\ cancelled
          /\ Waking!Answer(Task)
          /\ status'[Task] = "finished"
          /\ write' = "none"
          /\ Fail("dropped")
    /\ UNCHANGED <<kind, slot, runs, cancelled, sunk, keys_sent, created, affected, source, ddls,
                   asked, reached>>

\* Mutant: the output is never over.
OutputAgain == phase = "output" /\ outcome' = "count" /\ UNCHANGED <<kind, execution, status, signal, source, ddls, asked, reached>>

\* GetData hands DuckDB the count, once.
Output ==
    /\ phase = "output"
    /\ phase' = "over"
    /\ outcome' = "count"
    /\ UNCHANGED <<kind, slot, runs, status, signal, cancelled, sunk, keys_sent, write, created,
                   affected, source, ddls, asked, reached>>

-----------------------------------------------------------------------------
\* The source wakes the pull it answered WAIT; the task runs again.
SourceWakes == ~signal[Task] /\ Waking!Signal(Task) /\ UNCHANGED <<kind, execution, source, history>>

Resume == Waking!Resume(Task) /\ UNCHANGED <<kind, execution, source, history>>

\* DuckDB needs no more of a fence: it may no longer block and, asleep, is woken.
Cancel ==
    /\ kind = "fence"
    /\ phase = "finalize"
    /\ ~cancelled
    /\ cancelled' = TRUE
    /\ IF status[Task] = "asleep" THEN Waking!Signal(Task) ELSE UNCHANGED <<status, signal>>
    /\ UNCHANGED <<kind, slot, runs, phase, sunk, keys_sent, write, created, affected, source, history>>

\* The statement is interrupted while none of its threads is inside a pull.
Interrupt ==
    /\ phase # "over"
    /\ Fail("failed")
    /\ write' = IF kind = "fence" THEN "none" ELSE write
    /\ Waking!Restart
    /\ UNCHANGED <<kind, slot, runs, cancelled, sunk, keys_sent, created, affected,
                   source, ddls, asked, reached>>

\* Somebody else inserts, deletes or rekeys a row.
SourceChanges(r) ==
    /\ phase # "over"
    /\ changes < MaxChanges
    /\ changes' = changes + 1
    /\ \E key \in Keys \cup {Gone} : table' = [table EXCEPT ![r] = key]
    /\ UNCHANGED <<kind, execution, status, signal, history>>

Turn ==
    \/ EndInput \/ PrepareWrite \/ CreateTable \/ PrepareFence
    \/ StartPull \/ AskForWriter \/ Output \/ Resume

Answers == AnswerDone \/ AnswerError

Next ==
    \/ Execute \/ Turn \/ Answers \/ AnswerWait
    \/ \E r \in Rows : Sink(r) \/ SourceChanges(r)
    \/ SourceWakes \/ Cancel \/ Interrupt

Spec == Init /\ [][Next]_vars

\* DuckDB runs a runnable task; the source wakes every WAIT, and a writer pulled
\* often enough answers something else.
FairSpec ==
    /\ Spec
    /\ WF_vars(Turn)
    /\ SF_vars(Answers)
    /\ WF_vars(status[Task] = "asleep" /\ SourceWakes)

-----------------------------------------------------------------------------
\* The rows the source changed.
Changed == {r \in Rows : reached[r] # Gone}

\* The source is asked to write once in an execution, however often Finalize was
\* entered again after BLOCKED, and never when no rows were gathered
\* (IMPLEMENTING.md:262); the table of a CREATE TABLE AS is created once, before.
AskedOnce ==
    /\ asked <= 1 /\ ddls <= 1
    /\ asked = 1 => kind = "fence" \/ Gathered # {}
    /\ kind = "create" /\ asked = 1 => ddls = 1

\* No execution finds the rows of an earlier one in the plan's seam, whether that
\* one ended with a count, an exception or an interrupt at any moment.
SeamIsBack ==
    /\ phase = "sink" => slot = "seam"
    /\ outcome # "broken"

\* A write is refused for its key only when two rows it reached share one.
AlarmMeansAmbiguous ==
    outcome = "refused" =>
        \E r, q \in Changed : r # q /\ reached[r] = reached[q]

\* Every key that was sent reached a row, and one of them reached two.
AllAndOneTwice ==
    /\ \A k \in SeenKeys : \E r \in Changed : reached[r] = k
    /\ \E r, q \in Changed : r # q /\ reached[r] = reached[q]

\* Rows with the same key are never all changed in silence: if each key sent
\* reached a row and one reached two, the write is refused, even though rows came,
\* went and were rekeyed since the feed read them.
AmbiguityRefused ==
    (outcome = "count" /\ kind = "keyed") => ~AllAndOneTwice

-----------------------------------------------------------------------------
\* The inductive invariant behind these four.
TypeOK ==
    /\ kind \in Kinds
    /\ slot \in {"none", "seam", "rows"}
    /\ runs \in Nat /\ changes \in Nat /\ keys_sent \in Nat /\ affected \in Nat
    /\ phase \in {"over", "sink", "finalize", "output"}
    /\ status \in [{Task} -> Waking!Statuses] /\ signal \in [{Task} -> BOOLEAN]
    /\ cancelled \in BOOLEAN /\ created \in BOOLEAN
    /\ write \in {"none", "empty", "filled", "writing"}
    /\ sunk \in [Rows -> Keys \cup {Gone}]
    /\ table \in [Rows -> Keys \cup {Gone}]
    /\ reached \in [Rows -> Keys \cup {Gone}]
    /\ ddls \in Nat /\ asked \in Nat
    /\ outcome \in {"none", "broken", "failed", "refused", "dropped", "count"}

\* Only a write that was begun, and whose table is there, is pulled or slept on.
PulledWhenReady ==
    status[Task] \in {"pulling", "asleep"} =>
        phase = "finalize" /\ write # "none" /\ (kind = "create" => created)

\* What an execution has not done yet, at each point of it.
NotYet ==
    /\ phase # "over" => outcome = "none"
    /\ phase \in {"sink", "finalize"} => Changed = {}
    /\ phase = "sink" => write = "none" /\ ~created
    /\ phase \in {"sink", "finalize"} /\ write # "writing" => asked = 0
    /\ phase \in {"sink", "finalize"} /\ ~created => ddls = 0
    /\ created => ddls = 1
    /\ phase = "finalize" /\ kind = "create" /\ ~created => write = "none"

\* A write is empty, or has rows to send; what it sends the keys of was gathered.
RowsInHand ==
    /\ write = "empty" => Gathered = {}
    /\ write \in {"filled", "writing"} => kind = "fence" \/ Gathered # {}
    /\ phase = "finalize" /\ write # "none" /\ kind = "keyed" => keys_sent = KeysSent

\* The seam is out of the plan only while a filled write has it, and only a fence's
\* write is ever dropped for good.
SeamInPlace ==
    /\ cancelled => kind = "fence"
    /\ kind = "fence" => slot = "none" /\ phase # "sink"
    /\ kind # "fence" => slot # "none"
    /\ slot = "rows" => write \in {"filled", "writing"}

Inv ==
    /\ TypeOK
    /\ PulledWhenReady
    /\ NotYet
    /\ RowsInHand
    /\ SeamInPlace
    /\ phase = "output" /\ kind = "keyed" => ~AllAndOneTwice
    /\ AskedOnce /\ SeamIsBack /\ AlarmMeansAmbiguous /\ AmbiguityRefused

\* An execution comes to its end.
WriteEnds == phase # "over" ~> phase = "over"

=============================================================================
