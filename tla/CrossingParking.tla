--------------------------- MODULE CrossingParking ---------------------------
(***************************************************************************)
(* How a pull that has nothing yet puts its DuckDB task to sleep, and how   *)
(* the source's waker gets it running again (src/parking.cpp, ParkSource of *)
(* src/crossing_read.cpp, the parking half of CrossingInsert::Finalize).    *)
(*                                                                          *)
(* Every pull makes a CrossingParking and hands the source a waker on it.   *)
(* The task may answer BLOCKED only through that parking.  Wake sets a flag *)
(* under the parking's lock and calls DuckDB back after releasing it, so a  *)
(* wake is two steps that interleave with everything else.  DuckDB's        *)
(* callback spins until the task it resumes has been descheduled: a         *)
(* callback for a task that is not blocked never returns.                   *)
(*                                                                          *)
(* External: the task scheduler (Deschedule, Callback), the blocked list    *)
(* (PreventBlocking, UnblockTasks) and the end of a statement are DuckDB's, *)
(* modelled from how src/ uses them.                                        *)
(***************************************************************************)
EXTENDS Naturals, FiniteSets

CONSTANTS
    Sources,      \* tasks that pull a reader: ParkSource, with a blocked list
    Finalizers,   \* tasks that pull a writer from Finalize: Park() alone
    Parkings,     \* addresses of CrossingParking objects, reused once freed
    NoTask,       \* a weak task pointer that has expired
    NoParking,    \* no pull under way
    Promising     \* tasks whose reader or writer keeps the waker of a WAIT until it wakes

Tasks == Sources \cup Finalizers

ASSUME ParkingAssumption ==
    /\ NoTask \notin Tasks
    /\ NoParking \notin Parkings
    /\ Sources \cap Finalizers = {}
    /\ Promising \subseteq Tasks

VARIABLES
    task,           \* task[t]: where DuckDB's task t is
    current,        \* current[t]: the parking of t's pull, or the one it sleeps on
    resumes,        \* resumes[p]: the task p's InterruptState calls back
    parked,         \* parked[p]
    woken,          \* woken[p]
    wakers,         \* parkings the source holds a waker of
    callbacks,      \* parkings whose Wake released the lock and has yet to call back
    can_block,      \* the operator state's can_block
    blocked_tasks,  \* weak references the operator state's blocked list holds
    unblocking,     \* entries UnblockTasks has still to visit
    unblocker       \* the parking whose callback UnblockTasks is inside of

vars == <<task, current, resumes, parked, woken, wakers, callbacks,
          can_block, blocked_tasks, unblocking, unblocker>>

TaskStates == {"ready", "pulling", "waiting", "blocked", "descheduled", "finished"}

TypeOK ==
    /\ task \in [Tasks -> TaskStates]
    /\ current \in [Tasks -> Parkings \cup {NoParking}]
    /\ resumes \in [Parkings -> Tasks \cup {NoTask}]
    /\ parked \in [Parkings -> BOOLEAN]
    /\ woken \in [Parkings -> BOOLEAN]
    /\ wakers \subseteq Parkings
    /\ callbacks \subseteq Parkings
    /\ can_block \in BOOLEAN
    /\ blocked_tasks \subseteq Parkings
    /\ unblocking \subseteq Parkings
    /\ unblocker \in Parkings \cup {NoParking}

Init ==
    /\ task = [t \in Tasks |-> "ready"]
    /\ current = [t \in Tasks |-> NoParking]
    /\ resumes = [p \in Parkings |-> NoTask]
    /\ parked = [p \in Parkings |-> FALSE]
    /\ woken = [p \in Parkings |-> FALSE]
    /\ wakers = {}
    /\ callbacks = {}
    /\ can_block = TRUE
    /\ blocked_tasks = {}
    /\ unblocking = {}
    /\ unblocker = NoParking

-----------------------------------------------------------------------------
\* t answered BLOCKED and nobody has resumed it.
Asleep(t) == task[t] \in {"blocked", "descheduled"}

\* t is inside GetData or Finalize, which own the parking by a local shared_ptr.
InPull(t) == task[t] \in {"pulling", "waiting"}

\* Somebody owns p: the pull that made it, a waker, or a Wake under way on it.
\* The blocked list does not: its reference is weak.
Alive(p) ==
    \/ p \in wakers
    \/ p \in callbacks
    \/ \E t \in Tasks : InPull(t) /\ current[t] = p

\* UnblockTasks runs under the operator state's lock, which ParkSource needs.
StateLockFree == unblocking = {} /\ unblocker = NoParking

-----------------------------------------------------------------------------
\* The task runs its operator, which makes a parking for this pull and calls
\* the reader (or the writer) with its waker.
StartPull(t) ==
    /\ task[t] = "ready"
    /\ \E p \in Parkings :
          /\ ~Alive(p)
          /\ \A u \in Tasks : current[u] # p
          /\ current' = [current EXCEPT ![t] = p]
          /\ resumes' = [resumes EXCEPT ![p] = t]
          /\ parked' = [parked EXCEPT ![p] = FALSE]
          /\ woken' = [woken EXCEPT ![p] = FALSE]
          /\ wakers' = wakers \cup {p}
          /\ blocked_tasks' = blocked_tasks \ {p}
          /\ unblocking' = unblocking \ {p}
    /\ task' = [task EXCEPT ![t] = "pulling"]
    /\ UNCHANGED <<callbacks, can_block, unblocker>>

\* The reader returns rows or is exhausted; the task goes on to pull again or
\* is done.  A writer that answers is done.  The reader may keep its waker.
AnswerRows(t) ==
    /\ task[t] = "pulling"
    /\ \E then \in IF t \in Sources THEN {"ready", "finished"} ELSE {"finished"} :
          task' = [task EXCEPT ![t] = then]
    /\ current' = [current EXCEPT ![t] = NoParking]
    /\ wakers' \in {wakers, wakers \ {current[t]}}
    /\ UNCHANGED <<resumes, parked, woken, callbacks, can_block, blocked_tasks,
                   unblocking, unblocker>>

\* The reader or writer answers WAIT.
AnswerWait(t) ==
    /\ task[t] = "pulling"
    /\ task' = [task EXCEPT ![t] = "waiting"]
    /\ \/ UNCHANGED wakers
       \/ /\ t \in Promising => woken[current[t]]
          /\ wakers' = wakers \ {current[t]}
    /\ UNCHANGED <<current, resumes, parked, woken, callbacks, can_block,
                   blocked_tasks, unblocking, unblocker>>

-----------------------------------------------------------------------------
\* The task answers BLOCKED: it sleeps on its pull's parking.
Sleep(t) ==
    /\ task' = [task EXCEPT ![t] = "blocked"]
    /\ parked' = [parked EXCEPT ![current[t]] = TRUE]
    /\ UNCHANGED current

\* The task goes on without sleeping; the pull's parking goes out of scope.
GoOn(t, then) ==
    /\ task' = [task EXCEPT ![t] = then]
    /\ current' = [current EXCEPT ![t] = NoParking]
    /\ UNCHANGED parked

\* Mutant: whether the operator may block was read before its lock was taken.
ParkSourceUnchecked(t) ==
    /\ t \in Sources
    /\ task[t] = "waiting"
    /\ StateLockFree
    /\ \/ /\ ~woken[current[t]]
          /\ blocked_tasks' = blocked_tasks \cup {current[t]}
          /\ Sleep(t)
       \/ /\ woken[current[t]]
          /\ GoOn(t, "ready")
          /\ UNCHANGED blocked_tasks
    /\ UNCHANGED <<resumes, woken, wakers, callbacks, can_block, unblocking, unblocker>>

\* ParkSource, one critical section of the state's lock and the parking's.
\* Woken already: pull again.  Blocking prevented: the scan is finished.
ParkSource(t) ==
    /\ t \in Sources
    /\ task[t] = "waiting"
    /\ StateLockFree
    /\ \/ /\ can_block /\ ~woken[current[t]]
          /\ blocked_tasks' = blocked_tasks \cup {current[t]}
          /\ Sleep(t)
       \/ /\ ~can_block
          /\ GoOn(t, "finished")
          /\ UNCHANGED blocked_tasks
       \/ /\ can_block /\ woken[current[t]]
          /\ GoOn(t, "ready")
          /\ UNCHANGED blocked_tasks
    /\ UNCHANGED <<resumes, woken, wakers, callbacks, can_block, unblocking, unblocker>>

\* Mutant: the task parks without looking whether it was woken.
ParkFinalizeBlind(t) ==
    /\ t \in Finalizers
    /\ task[t] = "waiting"
    /\ Sleep(t)
    /\ UNCHANGED <<resumes, woken, wakers, callbacks, can_block, blocked_tasks,
                   unblocking, unblocker>>

\* Finalize parks without a blocked list: only the waker gets it going again.
ParkFinalize(t) ==
    /\ t \in Finalizers
    /\ task[t] = "waiting"
    /\ \/ ~woken[current[t]] /\ Sleep(t)
       \/ woken[current[t]] /\ GoOn(t, "ready")
    /\ UNCHANGED <<resumes, woken, wakers, callbacks, can_block, blocked_tasks,
                   unblocking, unblocker>>

-----------------------------------------------------------------------------
\* Mutant: a wake always calls back.
SetWokenLoudly(p) ==
    /\ woken' = [woken EXCEPT ![p] = TRUE]
    /\ callbacks' = callbacks \cup {p}

\* The part of Wake under the parking's lock: the first caller sets `woken` and
\* will call back only if the task has parked.
SetWoken(p) ==
    /\ woken' = [woken EXCEPT ![p] = TRUE]
    /\ callbacks' = IF parked[p] THEN callbacks \cup {p} ELSE callbacks

\* The source calls Wake on a waker it holds, from any thread, at any time.
Wake(p) ==
    /\ p \in wakers
    /\ ~woken[p]
    /\ SetWoken(p)
    /\ UNCHANGED <<task, current, resumes, parked, wakers, can_block,
                   blocked_tasks, unblocking, unblocker>>

\* The source lets go of a waker.  One that promised to wake does so first.
DropWaker(p) ==
    /\ p \in wakers
    /\ \A t \in Tasks : current[t] = p => task[t] # "pulling"
    /\ (\E t \in Promising : current[t] = p) => woken[p]
    /\ wakers' = wakers \ {p}
    /\ UNCHANGED <<task, current, resumes, parked, woken, callbacks, can_block,
                   blocked_tasks, unblocking, unblocker>>

\* resume.Callback(): DuckDB reschedules the task once it is descheduled; the
\* call does nothing when the task no longer exists.
Callback(p) ==
    /\ p \in callbacks
    /\ \/ /\ resumes[p] = NoTask
          /\ UNCHANGED <<task, current>>
       \/ /\ resumes[p] # NoTask
          /\ task[resumes[p]] = "descheduled"
          /\ task' = [task EXCEPT ![resumes[p]] = "ready"]
          /\ current' = [current EXCEPT ![resumes[p]] = NoParking]
    /\ callbacks' = callbacks \ {p}
    /\ unblocker' = IF unblocker = p THEN NoParking ELSE unblocker
    /\ UNCHANGED <<resumes, parked, woken, wakers, can_block, blocked_tasks, unblocking>>

-----------------------------------------------------------------------------
\* The executor takes a task that answered BLOCKED off the run queue.
Deschedule(t) ==
    /\ task[t] = "blocked"
    /\ task' = [task EXCEPT ![t] = "descheduled"]
    /\ UNCHANGED <<current, resumes, parked, woken, wakers, callbacks, can_block,
                   blocked_tasks, unblocking, unblocker>>

\* Mutant: the blocked list is dropped, its tasks still asleep.
PreventBlockingSilently ==
    /\ can_block
    /\ can_block' = FALSE
    /\ blocked_tasks' = {}
    /\ UNCHANGED <<task, current, resumes, parked, woken, wakers, callbacks, unblocking, unblocker>>

\* The operator's consumers need no more rows: blocking is prevented and, under
\* the same lock, every entry of the blocked list is called back.
PreventBlocking ==
    /\ can_block
    /\ can_block' = FALSE
    /\ unblocking' = blocked_tasks
    /\ blocked_tasks' = {}
    /\ UNCHANGED <<task, current, resumes, parked, woken, wakers, callbacks, unblocker>>

\* UnblockTasks reaches an entry: a parking nobody owns any more is skipped, a
\* live one is rescheduled, which is Wake.
UnblockEntry(p) ==
    /\ unblocker = NoParking
    /\ p \in unblocking
    /\ unblocking' = unblocking \ {p}
    /\ IF Alive(p) /\ ~woken[p]
       THEN /\ SetWoken(p)
            /\ unblocker' = IF parked[p] THEN p ELSE NoParking
       ELSE UNCHANGED <<woken, callbacks, unblocker>>
    /\ UNCHANGED <<task, current, resumes, parked, wakers, can_block, blocked_tasks>>

\* Mutant: the parkings keep the tasks they resume alive.
EndStatementKeepsTasks ==
    /\ StateLockFree
    /\ \A t \in Tasks : task[t] \in {"ready", "descheduled", "finished"}
    /\ task' = [t \in Tasks |-> "ready"]
    /\ current' = [t \in Tasks |-> NoParking]
    /\ can_block' = TRUE
    /\ blocked_tasks' = {}
    /\ UNCHANGED <<resumes, parked, woken, wakers, callbacks, unblocking, unblocker>>

\* The statement ends, finished, failed or interrupted: DuckDB waits for the
\* threads that run its tasks and destroys every task, blocked ones included.
EndStatement ==
    /\ StateLockFree
    /\ \A t \in Tasks : task[t] \in {"ready", "descheduled", "finished"}
    /\ task' = [t \in Tasks |-> "ready"]
    /\ current' = [t \in Tasks |-> NoParking]
    /\ resumes' = [p \in Parkings |-> NoTask]
    /\ can_block' = TRUE
    /\ blocked_tasks' = {}
    /\ UNCHANGED <<parked, woken, wakers, callbacks, unblocking, unblocker>>

Next ==
    \/ \E t \in Tasks :
          \/ StartPull(t) \/ AnswerRows(t) \/ AnswerWait(t)
          \/ ParkSource(t) \/ ParkFinalize(t) \/ Deschedule(t)
    \/ \E p \in Parkings :
          Wake(p) \/ DropWaker(p) \/ Callback(p) \/ UnblockEntry(p)
    \/ PreventBlocking
    \/ EndStatement

\* A thread that has started a Wake, a deschedule or an unblock finishes it; a
\* reader that was called returns; a woken task is run.
Fairness ==
    /\ \A t \in Tasks : WF_vars(Deschedule(t))
    /\ \A p \in Parkings : WF_vars(Callback(p)) /\ WF_vars(UnblockEntry(p))

Spec == Init /\ [][Next]_vars

FairSpec == Spec /\ Fairness

-----------------------------------------------------------------------------
\* A callback under way is for a task that sleeps on exactly that parking, or
\* for one that no longer exists.  A callback for a task that is running, or
\* that sleeps on a later parking, would spin in the scheduler or resume a pull
\* that nobody woke (parking.cpp:52-65, the read of `parked` under the lock).
NoStrayCallback ==
    \A p \in callbacks :
        resumes[p] = NoTask \/ (Asleep(resumes[p]) /\ current[resumes[p]] = p)

\* A task that sleeps on a woken parking has its callback on the way: a wake
\* that arrives between the source's answer and the park is never lost
\* (parking.cpp:22-42 against 52-65).
NoLostWake ==
    \A t \in Tasks : Asleep(t) /\ woken[current[t]] => current[t] \in callbacks

\* Once the operator may not block, every source task asleep on a live parking
\* is about to be called back: a cancel cannot fall between a park's check of
\* can_block and its entry in the blocked list (crossing_read.cpp:457-468).
CancelReaches ==
    ~can_block =>
        \A t \in Sources :
            Asleep(t) /\ Alive(current[t]) =>
                current[t] \in callbacks \cup unblocking

-----------------------------------------------------------------------------
\* What the safety properties rest on.  A task has a parking exactly while it
\* pulls or sleeps, parked once it sleeps; that parking resumes this task.
PullParkings ==
    \A t \in Tasks :
        /\ InPull(t) \/ Asleep(t) <=> current[t] # NoParking
        /\ InPull(t) => ~parked[current[t]]
        /\ Asleep(t) => parked[current[t]]
        /\ current[t] # NoParking => resumes[current[t]] = t

\* The task of a parking that parked and was not woken still sleeps on it.
ParkedSleeps ==
    \A p \in Parkings :
        parked[p] /\ ~woken[p] /\ resumes[p] # NoTask =>
            Asleep(resumes[p]) /\ current[resumes[p]] = p

CallbacksWoken == \A p \in callbacks : parked[p] /\ woken[p]

\* While the operator may block, its list refers to every source task asleep on
\* a live parking nobody has woken.
SleepersListed ==
    can_block =>
        \A t \in Sources :
            Asleep(t) /\ Alive(current[t]) /\ ~woken[current[t]] =>
                current[t] \in blocked_tasks

\* The inductive invariant.
Inv ==
    /\ TypeOK
    /\ PullParkings
    /\ ParkedSleeps
    /\ CallbacksWoken
    /\ SleepersListed
    /\ NoStrayCallback
    /\ NoLostWake
    /\ CancelReaches

-----------------------------------------------------------------------------
\* A cancelled scan leaves no task asleep while the source keeps its promise
\* to hold the waker of a pull that waits.
CancelResumes ==
    \A t \in Sources \cap Promising : (Asleep(t) /\ ~can_block) ~> ~Asleep(t)

-----------------------------------------------------------------------------
\* Seen from a source: a task pulls, sleeps or runs, and its pull's signal is
\* the flag of the pull's parking.
StatusOf(state) ==
    CASE state \in {"pulling", "waiting"} -> "pulling"
      [] state \in {"blocked", "descheduled"} -> "asleep"
      [] state = "finished" -> "finished"
      [] state = "ready" -> "running"

WakingStatus == [t \in Tasks |-> StatusOf(task[t])]

WakingSignal == [t \in Tasks |-> current[t] # NoParking /\ woken[current[t]]]

Waking == INSTANCE CrossingWaking WITH status <- WakingStatus, signal <- WakingSignal

\* Parking, with its flags, callbacks and locks, keeps the promise: nothing but
\* a signal wakes a sleeping pull, and a signal always does.
ImplementsWaking == Waking!Spec

=============================================================================
