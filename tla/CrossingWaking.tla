--------------------------- MODULE CrossingWaking ---------------------------
(***************************************************************************)
(* What parking promises a source and a task, with no parkings, callbacks,  *)
(* locks or blocked lists: each pull has one signal; a task may fall asleep *)
(* only while its pull's signal is off, runs again only once it is on, and  *)
(* once it is on does run again.  crossing.hpp:272-301 states the contract. *)
(***************************************************************************)
CONSTANT Tasks

VARIABLES
    status,   \* status[t]: what the task is doing
    signal    \* signal[t]: whether the pull t makes or sleeps on was signalled

vars == <<status, signal>>

Statuses == {"running", "pulling", "asleep", "finished"}

Init ==
    /\ status = [t \in Tasks |-> "running"]
    /\ signal = [t \in Tasks |-> FALSE]

\* A pull starts with its signal off.
Pull(t) ==
    /\ status[t] = "running"
    /\ status' = [status EXCEPT ![t] = "pulling"]
    /\ UNCHANGED signal

\* A task that finds nothing left to pull is done.
Finish(t) ==
    /\ status[t] = "running"
    /\ status' = [status EXCEPT ![t] = "finished"]
    /\ UNCHANGED signal

\* The source, or whoever cancels the scan, signals the pull.
Signal(t) ==
    /\ status[t] \in {"pulling", "asleep"}
    /\ signal' = [signal EXCEPT ![t] = TRUE]
    /\ UNCHANGED status

\* The pull is over; the task runs on, or is done.
Answer(t) ==
    /\ status[t] = "pulling"
    /\ \E then \in {"running", "finished"} : status' = [status EXCEPT ![t] = then]
    /\ signal' = [signal EXCEPT ![t] = FALSE]

\* The task falls asleep on a pull that was not signalled.
FallAsleep(t) ==
    /\ status[t] = "pulling"
    /\ ~signal[t]
    /\ status' = [status EXCEPT ![t] = "asleep"]
    /\ UNCHANGED signal

\* A signalled task runs again.
Resume(t) ==
    /\ status[t] = "asleep"
    /\ signal[t]
    /\ status' = [status EXCEPT ![t] = "running"]
    /\ signal' = [signal EXCEPT ![t] = FALSE]

\* The statement ends and another begins.
Restart ==
    /\ \A t \in Tasks : status[t] # "pulling"
    /\ status' = [t \in Tasks |-> "running"]
    /\ signal' = [t \in Tasks |-> FALSE]

Next ==
    \/ \E t \in Tasks : Pull(t) \/ Finish(t) \/ Signal(t) \/ Answer(t) \/ FallAsleep(t) \/ Resume(t)
    \/ Restart

Safe == Init /\ [][Next]_vars

Spec == Safe /\ \A t \in Tasks : WF_vars(Resume(t))

=============================================================================
