------------------------ MODULE CrossingParkingProofs ------------------------
(***************************************************************************)
(* Parking for any number of tasks, parkings and pulls: the inductive       *)
(* invariant Inv of CrossingParking, the safety properties it carries, and  *)
(* the safety half of the refinement to CrossingWaking.                     *)
(***************************************************************************)
EXTENDS CrossingParking, TLAPS

LEMMA InitInv == Init => Inv
  BY ParkingAssumption DEF Init, Inv, TypeOK, PullParkings, ParkedSleeps,
     CallbacksWoken, SleepersListed, NoStrayCallback, NoLostWake, CancelReaches,
     InPull, Asleep, TaskStates, Tasks

LEMMA StartPullInv == ASSUME Inv, NEW t \in Tasks, StartPull(t) PROVE Inv'
  <1>1. PICK p \in Parkings :
          /\ ~Alive(p)
          /\ \A u \in Tasks : current[u] # p
          /\ current' = [current EXCEPT ![t] = p]
          /\ resumes' = [resumes EXCEPT ![p] = t]
          /\ parked' = [parked EXCEPT ![p] = FALSE]
          /\ woken' = [woken EXCEPT ![p] = FALSE]
          /\ wakers' = wakers \cup {p}
          /\ blocked_tasks' = blocked_tasks \ {p}
          /\ unblocking' = unblocking \ {p}
    BY DEF StartPull
  <1>2. /\ task[t] = "ready"
        /\ task' = [task EXCEPT ![t] = "pulling"]
        /\ UNCHANGED <<callbacks, can_block, unblocker>>
    BY DEF StartPull
  <1>3. p \notin callbacks
    BY <1>1 DEF Alive
  <1> USE DEF Inv, TypeOK, InPull, Asleep
  <1>4. TypeOK'
    BY <1>1, <1>2 DEF TaskStates
  <1>5. PullParkings'
    BY <1>1, <1>2, ParkingAssumption DEF PullParkings
  <1>6. ParkedSleeps'
    BY <1>1, <1>2 DEF ParkedSleeps
  <1>7. CallbacksWoken'
    BY <1>1, <1>2, <1>3 DEF CallbacksWoken
  <1>8. NoStrayCallback'
    BY <1>1, <1>2, <1>3 DEF NoStrayCallback
  <1>9. NoLostWake'
    BY <1>1, <1>2, <1>3 DEF NoLostWake
  <1>10. ASSUME NEW u \in Tasks, Asleep(u)', Alive(current[u])'
         PROVE  Asleep(u) /\ Alive(current[u]) /\ current'[u] = current[u] /\ current[u] # p
    BY <1>10, <1>1, <1>2 DEF Alive
  <1>11. SleepersListed'
    BY <1>10, <1>1, <1>2 DEF SleepersListed, Tasks
  <1>12. CancelReaches'
    BY <1>10, <1>1, <1>2 DEF CancelReaches, Tasks
  <1> QED
    BY <1>4, <1>5, <1>6, <1>7, <1>8, <1>9, <1>11, <1>12

LEMMA AnswerRowsInv == ASSUME Inv, NEW t \in Tasks, AnswerRows(t) PROVE Inv'
  <1> USE DEF Inv, TypeOK, InPull, Asleep, AnswerRows
  <1>1. TypeOK'
    BY DEF TaskStates
  <1>2. ASSUME NEW p \in Parkings, Alive(p)', ~Alive(p) PROVE FALSE
    BY <1>2 DEF Alive
  <1>3. PullParkings'
    BY ParkingAssumption DEF PullParkings, NoStrayCallback
  <1>4. ParkedSleeps'
    BY ParkingAssumption DEF ParkedSleeps, PullParkings, NoStrayCallback, CallbacksWoken, NoLostWake
  <1>5. CallbacksWoken'
    BY ParkingAssumption DEF CallbacksWoken
  <1>6. SleepersListed'
    BY <1>2, ParkingAssumption DEF SleepersListed, PullParkings, Tasks
  <1>7. NoStrayCallback'
    BY ParkingAssumption DEF NoStrayCallback, ParkedSleeps, PullParkings
  <1>8. NoLostWake'
    BY ParkingAssumption DEF NoLostWake, PullParkings
  <1>9. CancelReaches'
    BY <1>2, ParkingAssumption DEF CancelReaches, SleepersListed, NoLostWake, PullParkings, Tasks
  <1> QED
    BY <1>1, <1>3, <1>4, <1>5, <1>6, <1>7, <1>8, <1>9

LEMMA AnswerWaitInv == ASSUME Inv, NEW t \in Tasks, AnswerWait(t) PROVE Inv'
  <1> USE DEF Inv, TypeOK, InPull, Asleep, AnswerWait
  <1>1. TypeOK'
    BY DEF TaskStates
  <1>2. ASSUME NEW p \in Parkings, Alive(p)', ~Alive(p) PROVE FALSE
    BY <1>2 DEF Alive
  <1>3. PullParkings'
    BY ParkingAssumption DEF PullParkings, NoStrayCallback
  <1>4. ParkedSleeps'
    BY ParkingAssumption DEF ParkedSleeps, PullParkings, NoStrayCallback, CallbacksWoken, NoLostWake
  <1>5. CallbacksWoken'
    BY ParkingAssumption DEF CallbacksWoken
  <1>6. SleepersListed'
    BY <1>2, ParkingAssumption DEF SleepersListed, PullParkings, Tasks
  <1>7. NoStrayCallback'
    BY ParkingAssumption DEF NoStrayCallback, ParkedSleeps, PullParkings
  <1>8. NoLostWake'
    BY ParkingAssumption DEF NoLostWake, PullParkings
  <1>9. CancelReaches'
    BY <1>2, ParkingAssumption DEF CancelReaches, SleepersListed, NoLostWake, PullParkings, Tasks
  <1> QED
    BY <1>1, <1>3, <1>4, <1>5, <1>6, <1>7, <1>8, <1>9

LEMMA ParkSourceInv == ASSUME Inv, NEW t \in Tasks, ParkSource(t) PROVE Inv'
  <1> USE DEF Inv, TypeOK, InPull, Asleep, ParkSource, Sleep, GoOn
  <1>1. TypeOK'
    <2>1. current[t] \in Parkings
      BY DEF PullParkings
    <2>2. task' \in [Tasks -> TaskStates] /\ current' \in [Tasks -> Parkings \cup {NoParking}]
      BY DEF TaskStates
    <2>3. parked' \in [Parkings -> BOOLEAN] /\ blocked_tasks' \subseteq Parkings
      BY <2>1
    <2> QED
      BY <2>2, <2>3
  <1>2. ASSUME NEW p \in Parkings, Alive(p)', ~Alive(p) PROVE FALSE
    BY <1>2 DEF Alive
  <1>3. PullParkings'
    BY ParkingAssumption DEF PullParkings, NoStrayCallback
  <1>4. ParkedSleeps'
    BY ParkingAssumption DEF ParkedSleeps, PullParkings, NoStrayCallback, CallbacksWoken, NoLostWake
  <1>5. CallbacksWoken'
    BY ParkingAssumption DEF CallbacksWoken
  <1>6. SleepersListed'
    BY <1>2, ParkingAssumption DEF SleepersListed, PullParkings, Tasks
  <1>7. NoStrayCallback'
    BY ParkingAssumption DEF NoStrayCallback, ParkedSleeps, PullParkings
  <1>8. NoLostWake'
    BY ParkingAssumption DEF NoLostWake, PullParkings
  <1>9. CancelReaches'
    BY <1>2, ParkingAssumption DEF CancelReaches, SleepersListed, NoLostWake, PullParkings, Tasks
  <1> QED
    BY <1>1, <1>3, <1>4, <1>5, <1>6, <1>7, <1>8, <1>9

LEMMA ParkFinalizeInv == ASSUME Inv, NEW t \in Tasks, ParkFinalize(t) PROVE Inv'
  <1> USE DEF Inv, TypeOK, InPull, Asleep, ParkFinalize, Sleep, GoOn
  <1>1. TypeOK'
    BY DEF TaskStates, PullParkings
  <1>2. ASSUME NEW p \in Parkings, Alive(p)', ~Alive(p) PROVE FALSE
    BY <1>2 DEF Alive
  <1>3. PullParkings'
    BY ParkingAssumption DEF PullParkings, NoStrayCallback
  <1>4. ParkedSleeps'
    BY ParkingAssumption DEF ParkedSleeps, PullParkings, NoStrayCallback, CallbacksWoken, NoLostWake
  <1>5. CallbacksWoken'
    BY ParkingAssumption DEF CallbacksWoken
  <1>6. SleepersListed'
    BY <1>2, ParkingAssumption DEF SleepersListed, PullParkings, Tasks
  <1>7. NoStrayCallback'
    BY ParkingAssumption DEF NoStrayCallback, ParkedSleeps, PullParkings
  <1>8. NoLostWake'
    BY ParkingAssumption DEF NoLostWake, PullParkings
  <1>9. CancelReaches'
    BY <1>2, ParkingAssumption DEF CancelReaches, SleepersListed, NoLostWake, PullParkings, Tasks
  <1> QED
    BY <1>1, <1>3, <1>4, <1>5, <1>6, <1>7, <1>8, <1>9

LEMMA DescheduleInv == ASSUME Inv, NEW t \in Tasks, Deschedule(t) PROVE Inv'
  <1> USE DEF Inv, TypeOK, InPull, Asleep, Deschedule
  <1>1. TypeOK'
    BY DEF TaskStates
  <1>2. ASSUME NEW p \in Parkings, Alive(p)', ~Alive(p) PROVE FALSE
    BY <1>2 DEF Alive
  <1>3. PullParkings'
    BY ParkingAssumption DEF PullParkings, NoStrayCallback
  <1>4. ParkedSleeps'
    BY ParkingAssumption DEF ParkedSleeps, PullParkings, NoStrayCallback, CallbacksWoken, NoLostWake
  <1>5. CallbacksWoken'
    BY ParkingAssumption DEF CallbacksWoken
  <1>6. SleepersListed'
    BY <1>2, ParkingAssumption DEF SleepersListed, PullParkings, Tasks
  <1>7. NoStrayCallback'
    BY ParkingAssumption DEF NoStrayCallback, ParkedSleeps, PullParkings
  <1>8. NoLostWake'
    BY ParkingAssumption DEF NoLostWake, PullParkings
  <1>9. CancelReaches'
    BY <1>2, ParkingAssumption DEF CancelReaches, SleepersListed, NoLostWake, PullParkings, Tasks
  <1> QED
    BY <1>1, <1>3, <1>4, <1>5, <1>6, <1>7, <1>8, <1>9

LEMMA WakeInv == ASSUME Inv, NEW q \in Parkings, Wake(q) PROVE Inv'
  <1> USE DEF Inv, TypeOK, InPull, Asleep, Wake, SetWoken
  <1>1. TypeOK'
    BY DEF TaskStates
  <1>2. ASSUME NEW p \in Parkings, Alive(p)', ~Alive(p) PROVE FALSE
    BY <1>2 DEF Alive
  <1>3. PullParkings'
    BY ParkingAssumption DEF PullParkings, NoStrayCallback
  <1>4. ParkedSleeps'
    BY ParkingAssumption DEF ParkedSleeps, PullParkings, NoStrayCallback, CallbacksWoken, NoLostWake
  <1>5. CallbacksWoken'
    BY ParkingAssumption DEF CallbacksWoken
  <1>6. SleepersListed'
    BY <1>2, ParkingAssumption DEF SleepersListed, PullParkings, Tasks
  <1>7. NoStrayCallback'
    BY ParkingAssumption DEF NoStrayCallback, ParkedSleeps, PullParkings
  <1>8. NoLostWake'
    BY ParkingAssumption DEF NoLostWake, PullParkings
  <1>9. CancelReaches'
    BY <1>2, ParkingAssumption DEF CancelReaches, SleepersListed, NoLostWake, PullParkings, Tasks
  <1> QED
    BY <1>1, <1>3, <1>4, <1>5, <1>6, <1>7, <1>8, <1>9

LEMMA DropWakerInv == ASSUME Inv, NEW q \in Parkings, DropWaker(q) PROVE Inv'
  <1> USE DEF Inv, TypeOK, InPull, Asleep, DropWaker
  <1>1. TypeOK'
    BY DEF TaskStates
  <1>2. ASSUME NEW p \in Parkings, Alive(p)', ~Alive(p) PROVE FALSE
    BY <1>2 DEF Alive
  <1>3. PullParkings'
    BY ParkingAssumption DEF PullParkings, NoStrayCallback
  <1>4. ParkedSleeps'
    BY ParkingAssumption DEF ParkedSleeps, PullParkings, NoStrayCallback, CallbacksWoken, NoLostWake
  <1>5. CallbacksWoken'
    BY ParkingAssumption DEF CallbacksWoken
  <1>6. SleepersListed'
    BY <1>2, ParkingAssumption DEF SleepersListed, PullParkings, Tasks
  <1>7. NoStrayCallback'
    BY ParkingAssumption DEF NoStrayCallback, ParkedSleeps, PullParkings
  <1>8. NoLostWake'
    BY ParkingAssumption DEF NoLostWake, PullParkings
  <1>9. CancelReaches'
    BY <1>2, ParkingAssumption DEF CancelReaches, SleepersListed, NoLostWake, PullParkings, Tasks
  <1> QED
    BY <1>1, <1>3, <1>4, <1>5, <1>6, <1>7, <1>8, <1>9

LEMMA CallbackInv == ASSUME Inv, NEW q \in Parkings, Callback(q) PROVE Inv'
  <1> USE DEF Inv, TypeOK, InPull, Asleep, Callback
  <1>1. TypeOK'
    BY DEF TaskStates
  <1>2. ASSUME NEW p \in Parkings, Alive(p)', ~Alive(p) PROVE FALSE
    BY <1>2 DEF Alive
  <1>3. PullParkings'
    BY ParkingAssumption DEF PullParkings, NoStrayCallback
  <1>4. ParkedSleeps'
    BY ParkingAssumption DEF ParkedSleeps, PullParkings, NoStrayCallback, CallbacksWoken, NoLostWake
  <1>5. CallbacksWoken'
    BY ParkingAssumption DEF CallbacksWoken
  <1>6. SleepersListed'
    BY <1>2, ParkingAssumption DEF SleepersListed, PullParkings, Tasks
  <1>7. NoStrayCallback'
    BY ParkingAssumption DEF NoStrayCallback, ParkedSleeps, PullParkings
  <1>8. NoLostWake'
    BY ParkingAssumption DEF NoLostWake, PullParkings
  <1>9. CancelReaches'
    BY <1>2, ParkingAssumption DEF CancelReaches, SleepersListed, NoLostWake, PullParkings, Tasks
  <1> QED
    BY <1>1, <1>3, <1>4, <1>5, <1>6, <1>7, <1>8, <1>9

LEMMA UnblockEntryInv == ASSUME Inv, NEW q \in Parkings, UnblockEntry(q) PROVE Inv'
  <1> USE DEF Inv, TypeOK, InPull, Asleep, UnblockEntry, SetWoken
  <1>1. TypeOK'
    BY DEF TaskStates
  <1>2. ASSUME NEW p \in Parkings, Alive(p)', ~Alive(p) PROVE FALSE
    BY <1>2 DEF Alive
  <1>3. PullParkings'
    BY ParkingAssumption DEF PullParkings, NoStrayCallback
  <1>4. ParkedSleeps'
    BY ParkingAssumption DEF ParkedSleeps, PullParkings, NoStrayCallback, CallbacksWoken, NoLostWake
  <1>5. CallbacksWoken'
    BY ParkingAssumption DEF CallbacksWoken
  <1>6. SleepersListed'
    BY <1>2, ParkingAssumption DEF SleepersListed, PullParkings, Tasks
  <1>7. NoStrayCallback'
    BY ParkingAssumption DEF NoStrayCallback, ParkedSleeps, PullParkings
  <1>8. NoLostWake'
    BY ParkingAssumption DEF NoLostWake, PullParkings
  <1>9. CancelReaches'
    BY <1>2, ParkingAssumption DEF CancelReaches, SleepersListed, NoLostWake, PullParkings, Tasks
  <1> QED
    BY <1>1, <1>3, <1>4, <1>5, <1>6, <1>7, <1>8, <1>9

LEMMA PreventBlockingInv == ASSUME Inv, PreventBlocking PROVE Inv'
  <1> USE DEF Inv, TypeOK, InPull, Asleep, PreventBlocking
  <1>1. TypeOK'
    BY DEF TaskStates
  <1>2. ASSUME NEW p \in Parkings, Alive(p)', ~Alive(p) PROVE FALSE
    BY <1>2 DEF Alive
  <1>3. PullParkings'
    BY ParkingAssumption DEF PullParkings, NoStrayCallback
  <1>4. ParkedSleeps'
    BY ParkingAssumption DEF ParkedSleeps, PullParkings, NoStrayCallback, CallbacksWoken, NoLostWake
  <1>5. CallbacksWoken'
    BY ParkingAssumption DEF CallbacksWoken
  <1>6. SleepersListed'
    BY <1>2, ParkingAssumption DEF SleepersListed, PullParkings, Tasks
  <1>7. NoStrayCallback'
    BY ParkingAssumption DEF NoStrayCallback, ParkedSleeps, PullParkings
  <1>8. NoLostWake'
    BY ParkingAssumption DEF NoLostWake, PullParkings
  <1>9. CancelReaches'
    BY <1>2, ParkingAssumption DEF CancelReaches, SleepersListed, NoLostWake, PullParkings, Tasks
  <1> QED
    BY <1>1, <1>3, <1>4, <1>5, <1>6, <1>7, <1>8, <1>9

LEMMA EndStatementInv == ASSUME Inv, EndStatement PROVE Inv'
  <1> USE DEF Inv, TypeOK, InPull, Asleep, EndStatement
  <1>1. TypeOK'
    BY DEF TaskStates
  <1>2. PullParkings'
    BY ParkingAssumption DEF PullParkings, NoStrayCallback
  <1>3. ParkedSleeps'
    BY ParkingAssumption DEF ParkedSleeps, PullParkings, NoStrayCallback, CallbacksWoken, NoLostWake
  <1>4. CallbacksWoken'
    BY ParkingAssumption DEF CallbacksWoken
  <1>5. SleepersListed'
    BY ParkingAssumption DEF SleepersListed, PullParkings, Tasks
  <1>6. NoStrayCallback'
    BY ParkingAssumption DEF NoStrayCallback, ParkedSleeps, PullParkings
  <1>7. NoLostWake'
    BY ParkingAssumption DEF NoLostWake, PullParkings
  <1>8. CancelReaches'
    BY ParkingAssumption DEF CancelReaches, SleepersListed, NoLostWake, PullParkings, Tasks
  <1> QED
    BY <1>1, <1>2, <1>3, <1>4, <1>5, <1>6, <1>7, <1>8

-----------------------------------------------------------------------------
LEMMA NextInv == Inv /\ [Next]_vars => Inv'
  <1> SUFFICES ASSUME Inv, [Next]_vars PROVE Inv'
    OBVIOUS
  <1>1. CASE UNCHANGED vars
    BY <1>1 DEF vars, Inv, TypeOK, PullParkings, ParkedSleeps, CallbacksWoken,
       SleepersListed, NoStrayCallback, NoLostWake, CancelReaches, InPull, Asleep, Alive
  <1>2. CASE Next
    BY <1>2, StartPullInv, AnswerRowsInv, AnswerWaitInv, ParkSourceInv, ParkFinalizeInv,
       DescheduleInv, WakeInv, DropWakerInv, CallbackInv, UnblockEntryInv,
       PreventBlockingInv, EndStatementInv DEF Next
  <1> QED
    BY <1>1, <1>2

\* The inductive invariant holds in every reachable state, for any tasks, any
\* parkings and any source, whether or not it keeps its promise.
THEOREM SpecInv == Spec => []Inv
  BY InitInv, NextInv, PTL DEF Spec

\* parking.cpp's two-step wake never calls back a task that is running or that
\* sleeps on another parking.
THEOREM SpecNoStrayCallback == Spec => []NoStrayCallback
  <1>1. Inv => NoStrayCallback
    BY DEF Inv
  <1> QED
    BY <1>1, SpecInv, PTL

\* A wake that races the park is either seen by the park or calls back.
THEOREM SpecNoLostWake == Spec => []NoLostWake
  <1>1. Inv => NoLostWake
    BY DEF Inv
  <1> QED
    BY <1>1, SpecInv, PTL

\* After PreventBlocking every source task asleep on a live parking is called
\* back or about to be.
THEOREM SpecCancelReaches == Spec => []CancelReaches
  <1>1. Inv => CancelReaches
    BY DEF Inv
  <1> QED
    BY <1>1, SpecInv, PTL

-----------------------------------------------------------------------------
LEMMA StatusOfStates ==
    /\ StatusOf("ready") = "running"
    /\ StatusOf("pulling") = "pulling" /\ StatusOf("waiting") = "pulling"
    /\ StatusOf("blocked") = "asleep" /\ StatusOf("descheduled") = "asleep"
    /\ StatusOf("finished") = "finished"
  BY DEF StatusOf

\* A step that moves one task changes the mapped status of that task alone.
LEMMA StatusMoves ==
    ASSUME TypeOK, NEW t \in Tasks, NEW state, task' = [task EXCEPT ![t] = state]
    PROVE  WakingStatus' = [WakingStatus EXCEPT ![t] = StatusOf(state)]
  BY DEF TypeOK, WakingStatus

\* A step that moves no task to another mapped status changes none.
LEMMA StatusStays ==
    ASSUME TypeOK, NEW t \in Tasks, NEW state, task' = [task EXCEPT ![t] = state],
           StatusOf(state) = StatusOf(task[t])
    PROVE  UNCHANGED WakingStatus
  BY DEF TypeOK, WakingStatus

\* A pull that is over has no signal.
LEMMA SignalClears ==
    ASSUME TypeOK, NEW t \in Tasks, UNCHANGED woken, current' = [current EXCEPT ![t] = NoParking]
    PROVE  WakingSignal' = [WakingSignal EXCEPT ![t] = FALSE]
  BY DEF TypeOK, WakingSignal

\* Waking a parking signals the one task that has it, if any does.
LEMMA SignalSets ==
    ASSUME TypeOK, PullParkings, NEW p \in Parkings,
           UNCHANGED <<task, current>>, woken' = [woken EXCEPT ![p] = TRUE]
    PROVE  UNCHANGED Waking!vars \/ \E t \in Tasks : Waking!Signal(t)
  <1> USE DEF TypeOK
  <1>1. UNCHANGED WakingStatus
    BY DEF WakingStatus
  <1>2. CASE \E t \in Tasks : current[t] = p
    <2>1. PICK t \in Tasks : current[t] = p
      BY <1>2
    <2>2. \A u \in Tasks : current[u] = p => u = t
      BY <2>1, ParkingAssumption DEF PullParkings
    <2>3. WakingSignal' = [WakingSignal EXCEPT ![t] = TRUE]
      BY <2>1, <2>2, ParkingAssumption DEF WakingSignal
    <2>4. WakingStatus[t] \in {"pulling", "asleep"}
      BY <2>1, StatusOfStates, ParkingAssumption
         DEF WakingStatus, PullParkings, InPull, Asleep
    <2> QED
      BY <1>1, <2>3, <2>4 DEF Waking!Signal
  <1>3. CASE \A t \in Tasks : current[t] # p
    BY <1>1, <1>3 DEF WakingSignal, Waking!vars
  <1> QED
    BY <1>2, <1>3

LEMMA MappedInit == Init => Waking!Init
  BY StatusOfStates DEF Init, Waking!Init, WakingStatus, WakingSignal

\* Every step, seen from the source, is a step of the promise or none.
LEMMA MappedStep == Inv /\ [Next]_vars => [Waking!Next]_(Waking!vars)
  <1> SUFFICES ASSUME Inv, [Next]_vars PROVE Waking!Next \/ UNCHANGED Waking!vars
    OBVIOUS
  <1> USE StatusOfStates DEF Inv, TypeOK
  <1>1. ASSUME NEW t \in Tasks, StartPull(t) PROVE Waking!Pull(t)
    <2>1. PICK p \in Parkings :
            /\ \A u \in Tasks : current[u] # p
            /\ current' = [current EXCEPT ![t] = p]
            /\ woken' = [woken EXCEPT ![p] = FALSE]
      BY <1>1 DEF StartPull
    <2>2. task[t] = "ready" /\ task' = [task EXCEPT ![t] = "pulling"]
      BY <1>1 DEF StartPull
    <2>3. current[t] = NoParking
      BY <2>2 DEF PullParkings, InPull, Asleep
    <2>4. UNCHANGED WakingSignal
      BY <2>1, <2>3 DEF WakingSignal
    <2>5. WakingStatus[t] = "running" /\ WakingStatus' = [WakingStatus EXCEPT ![t] = "pulling"]
      BY <2>2, StatusMoves DEF WakingStatus
    <2> QED
      BY <2>4, <2>5 DEF Waking!Pull
  <1>2. ASSUME NEW t \in Tasks, AnswerRows(t) PROVE Waking!Answer(t)
    <2>1. PICK then \in {"ready", "finished"} : task' = [task EXCEPT ![t] = then]
      BY <1>2 DEF AnswerRows
    <2>2. WakingStatus[t] = "pulling" /\ WakingStatus' = [WakingStatus EXCEPT ![t] = StatusOf(then)]
      BY <1>2, <2>1, StatusMoves DEF AnswerRows, WakingStatus
    <2>3. WakingSignal' = [WakingSignal EXCEPT ![t] = FALSE]
      BY <1>2, SignalClears DEF AnswerRows
    <2> QED
      BY <2>2, <2>3 DEF Waking!Answer
  <1>3. ASSUME NEW t \in Tasks, AnswerWait(t) \/ Deschedule(t) PROVE UNCHANGED Waking!vars
    <2>1. UNCHANGED WakingStatus
      BY <1>3, StatusStays DEF AnswerWait, Deschedule
    <2> QED
      BY <1>3, <2>1 DEF AnswerWait, Deschedule, WakingSignal, Waking!vars
  <1>4. ASSUME NEW t \in Tasks, ParkSource(t) \/ ParkFinalize(t)
        PROVE  Waking!FallAsleep(t) \/ Waking!Answer(t)
    <2>1. task[t] = "waiting" /\ UNCHANGED woken
      BY <1>4 DEF ParkSource, ParkFinalize
    <2>2. \/ ~woken[current[t]] /\ Sleep(t)
          \/ \E then \in {"ready", "finished"} : GoOn(t, then)
      BY <1>4 DEF ParkSource, ParkFinalize
    <2>3. CASE ~woken[current[t]] /\ Sleep(t)
      <3>1. ~WakingSignal[t] /\ UNCHANGED WakingSignal
        BY <2>1, <2>3 DEF Sleep, WakingSignal
      <3>2. WakingStatus[t] = "pulling" /\ WakingStatus' = [WakingStatus EXCEPT ![t] = "asleep"]
        BY <2>1, <2>3, StatusMoves DEF Sleep, WakingStatus
      <3> QED
        BY <3>1, <3>2 DEF Waking!FallAsleep
    <2>4. ASSUME NEW then \in {"ready", "finished"}, GoOn(t, then) PROVE Waking!Answer(t)
      <3>1. WakingSignal' = [WakingSignal EXCEPT ![t] = FALSE]
        BY <2>1, <2>4, SignalClears DEF GoOn
      <3>2. WakingStatus[t] = "pulling" /\ WakingStatus' = [WakingStatus EXCEPT ![t] = StatusOf(then)]
        BY <2>1, <2>4, StatusMoves DEF GoOn, WakingStatus
      <3> QED
        BY <2>4, <3>1, <3>2 DEF Waking!Answer
    <2> QED
      BY <2>2, <2>3, <2>4
  <1>5. ASSUME NEW p \in Parkings, Wake(p)
        PROVE  UNCHANGED Waking!vars \/ \E t \in Tasks : Waking!Signal(t)
    BY <1>5, SignalSets DEF Wake, SetWoken
  <1>6. ASSUME NEW p \in Parkings, DropWaker(p) PROVE UNCHANGED Waking!vars
    BY <1>6 DEF DropWaker, WakingStatus, WakingSignal, Waking!vars
  <1>7. ASSUME NEW p \in Parkings, Callback(p)
        PROVE  UNCHANGED Waking!vars \/ \E t \in Tasks : Waking!Resume(t)
    <2>1. CASE resumes[p] = NoTask
      BY <1>7, <2>1 DEF Callback, WakingStatus, WakingSignal, Waking!vars
    <2>2. CASE resumes[p] # NoTask
      <3> DEFINE t == resumes[p]
      <3>1. t \in Tasks /\ current[t] = p /\ woken[p]
        BY <1>7, <2>2 DEF Callback, NoStrayCallback, CallbacksWoken
      <3>2. /\ task[t] = "descheduled"
            /\ task' = [task EXCEPT ![t] = "ready"]
            /\ current' = [current EXCEPT ![t] = NoParking]
            /\ UNCHANGED woken
        BY <1>7, <2>2 DEF Callback
      <3> HIDE DEF t
      <3>3. WakingStatus[t] = "asleep" /\ WakingStatus' = [WakingStatus EXCEPT ![t] = "running"]
        BY <3>1, <3>2, StatusMoves DEF WakingStatus
      <3>4. WakingSignal[t] /\ WakingSignal' = [WakingSignal EXCEPT ![t] = FALSE]
        BY <3>1, <3>2, SignalClears, ParkingAssumption DEF WakingSignal
      <3> QED
        BY <3>1, <3>3, <3>4 DEF Waking!Resume
    <2> QED
      BY <2>1, <2>2
  <1>8. ASSUME NEW p \in Parkings, UnblockEntry(p)
        PROVE  UNCHANGED Waking!vars \/ \E t \in Tasks : Waking!Signal(t)
    <2>1. CASE Alive(p) /\ ~woken[p]
      BY <1>8, <2>1, SignalSets DEF UnblockEntry, SetWoken
    <2>2. CASE ~(Alive(p) /\ ~woken[p])
      BY <1>8, <2>2 DEF UnblockEntry, WakingStatus, WakingSignal, Waking!vars
    <2> QED
      BY <2>1, <2>2
  <1>9. CASE PreventBlocking
    BY <1>9 DEF PreventBlocking, WakingStatus, WakingSignal, Waking!vars
  <1>10. CASE EndStatement
    BY <1>10 DEF EndStatement, Waking!Restart, Waking!Next, WakingStatus, WakingSignal
  <1>11. CASE UNCHANGED vars
    BY <1>11 DEF vars, WakingStatus, WakingSignal, Waking!vars
  <1> QED
    BY <1>1, <1>2, <1>3, <1>4, <1>5, <1>6, <1>7, <1>8, <1>9, <1>10, <1>11
       DEF Next, Waking!Next

\* Parking implements the safety of the promise: a task sleeps only on a pull
\* nobody signalled and runs again only once somebody has.
THEOREM ParkingImplementsWaking == Spec => Waking!Safe
  BY SpecInv, MappedInit, MappedStep, PTL DEF Spec, Waking!Safe

=============================================================================
