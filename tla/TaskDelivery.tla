---------------------------- MODULE TaskDelivery ----------------------------
(***************************************************************************)
(* What internal/taskqueue promises to a handler that delegates a task: it *)
(* is executed at most once, and an answer, if one comes, is the outcome   *)
(* of that execution.                                                      *)
(***************************************************************************)
CONSTANT Tasks

VARIABLES
    task,          \* where the execution of a task stands
    answer         \* what the delegating handler was told

Final == {"completed", "failed"}

Init ==
    /\ task = [t \in Tasks |-> "none"]
    /\ answer = [t \in Tasks |-> "none"]

Queue(t) ==
    /\ task[t] = "none"
    /\ task' = [task EXCEPT ![t] = "queued"]
    /\ UNCHANGED answer

Run(t) ==
    /\ task[t] = "queued"
    /\ task' = [task EXCEPT ![t] = "running"]
    /\ UNCHANGED answer

\* The execution ends, or its worker is lost.
End(t) ==
    /\ task[t] = "running"
    /\ \E outcome \in Final \union {"lost"} : task' = [task EXCEPT ![t] = outcome]
    /\ UNCHANGED answer

Answer(t) ==
    /\ answer[t] = "none"
    /\ task[t] \in Final
    /\ answer' = [answer EXCEPT ![t] = task[t]]
    /\ UNCHANGED task

Next == \E t \in Tasks : Queue(t) \/ Run(t) \/ End(t) \/ Answer(t)

Spec == Init /\ [][Next]_<<task, answer>>
=============================================================================
