----------------------------- MODULE TaskQueue ------------------------------
(***************************************************************************)
(* What the task queue promises to the users of the inspector, without     *)
(* leases, heartbeats, sessions or statuses: a task is in the hands of at  *)
(* most one worker at a time, a worker that gives a task up may be         *)
(* followed by another, and the report of a task is published once, by the *)
(* worker that holds it, and ends it.                                      *)
(***************************************************************************)
CONSTANTS Workers, Tasks

VARIABLES holders,   \* the workers that execute a task
          reported   \* the report of a task has been published

Init ==
    /\ holders = [t \in Tasks |-> {}]
    /\ reported = [t \in Tasks |-> FALSE]

Take(w, t) ==
    /\ holders[t] = {}
    /\ ~reported[t]
    /\ \A u \in Tasks : w \notin holders[u]
    /\ holders' = [holders EXCEPT ![t] = {w}]
    /\ UNCHANGED reported

\* A failure, a cancellation, a crash.
GiveUp(w, t) ==
    /\ holders[t] = {w}
    /\ holders' = [holders EXCEPT ![t] = {}]
    /\ UNCHANGED reported

Publish(w, t) ==
    /\ holders[t] = {w}
    /\ ~reported[t]
    /\ holders' = [holders EXCEPT ![t] = {}]
    /\ reported' = [reported EXCEPT ![t] = TRUE]

Next == \E w \in Workers, t \in Tasks : Take(w, t) \/ GiveUp(w, t) \/ Publish(w, t)

Spec == Init /\ [][Next]_<<holders, reported>>
=============================================================================
