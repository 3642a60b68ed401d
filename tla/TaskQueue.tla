----------------------------- MODULE TaskQueue ------------------------------
(***************************************************************************)
(* Tasks delegated by the API pods to the worker pods (internal/taskqueue).*)
(*                                                                         *)
(* A handler of the API (PublishAndStream, PublishAndWait) appends the     *)
(* task to a Redis stream and then subscribes to its progress channel.     *)
(* Workers read the stream as one consumer group, one message at a time,   *)
(* check age and de-duplication key, run the task, publish its progress,   *)
(* and acknowledge.  The Redis client repeats a command whose answer was   *)
(* lost, so a task can be appended more than once; Pub/Sub reaches only    *)
(* those who are subscribed.  Signatures are left out: all messages are    *)
(* signed with the common key.                                             *)
(***************************************************************************)
EXTENDS Integers, Sequences

CONSTANTS
    Tasks,         \* the tasks delegated, one call of PublishAndWait each
    Registered,    \* those whose type has a handler in the workers
    Workers,
    MaxMessages    \* bound: executions of XADD

ASSUME TaskQueueAssumption ==
    /\ Registered \subseteq Tasks
    /\ MaxMessages \in Nat \ {0}

VARIABLES
    stream,        \* the tasks of tasks:worker, in the order of their ids
    cursor,        \* how many of them the group has been given
    pending,       \* those given and not acknowledged
    claimed,       \* tasks whose key task:processed:<id> is set
    old,           \* tasks published longer ago than SignatureWindow
    outcome,       \* what became of the execution of a task (history)
    worker,        \* what each worker is doing
    client,        \* the calls that delegated the tasks
    inbox          \* progress received and not read by these calls

vars == <<stream, cursor, pending, claimed, old, outcome, worker, client, inbox>>

Idle == [at |-> "idle"]

Working ==
    [at : {"check", "claim", "start", "handle", "return", "ack"}, entry : Nat]

TypeOK ==
    /\ stream \in Seq(Tasks)
    /\ cursor \in 0 .. Len(stream)
    /\ pending \subseteq 1 .. cursor
    /\ claimed \subseteq Tasks
    /\ old \subseteq Tasks
    /\ outcome \in [Tasks -> {"none", "running", "completed", "failed", "lost"}]
    /\ worker \in [Workers -> {Idle} \union Working]
    /\ \A w \in Workers : worker[w] # Idle => worker[w].entry \in pending
    /\ client \in [Tasks -> {"idle", "publish", "subscribe", "listen", "refused",
                             "gone", "completed", "failed"}]
    /\ inbox \in [Tasks -> Seq({"running", "completed", "failed"})]

Init ==
    /\ stream = <<>>
    /\ cursor = 0
    /\ pending = {}
    /\ claimed = {}
    /\ old = {}
    /\ outcome = [t \in Tasks |-> "none"]
    /\ worker = [w \in Workers |-> Idle]
    /\ client = [t \in Tasks |-> "idle"]
    /\ inbox = [t \in Tasks |-> <<>>]

queueVars == <<stream, cursor, pending, claimed>>
runVars == <<outcome, worker>>

-----------------------------------------------------------------------------
(* The delegating call.                                                    *)

Queued(t) == \E i \in DOMAIN stream : stream[i] = t

Call(t, label) == client' = [client EXCEPT ![t] = label]

\* Publish stamps and signs the task.
Publish(t) ==
    /\ client[t] = "idle"
    /\ Call(t, "publish")
    /\ UNCHANGED <<queueVars, old, runVars, inbox>>

\* Redis executes the XADD, for the first time or as a retry of the client.
Append_(t) ==
    /\ client[t] = "publish"
    /\ Len(stream) < MaxMessages
    /\ stream' = Append(stream, t)
    /\ UNCHANGED <<cursor, pending, claimed, old, runVars, client, inbox>>

\* The XADD returns; if it returns an error the call answers and ends, whatever
\* Redis has executed.
Published(t) ==
    /\ client[t] = "publish"
    /\ \/ Queued(t) /\ Call(t, "subscribe")
       \/ Call(t, "refused")
    /\ UNCHANGED <<queueVars, old, runVars, inbox>>

\* SubscribeProgress, in effect or failed.
Subscribe(t) ==
    /\ client[t] = "subscribe"
    /\ Call(t, "listen") \/ Call(t, "refused")
    /\ UNCHANGED <<queueVars, old, runVars, inbox>>

\* The next progress message: the last one is a final status.
Hear(t) ==
    /\ client[t] = "listen"
    /\ inbox[t] # <<>>
    /\ Call(t, IF Head(inbox[t]) = "running" THEN "listen" ELSE Head(inbox[t]))
    /\ inbox' = [inbox EXCEPT ![t] = Tail(@)]
    /\ UNCHANGED <<queueVars, old, runVars>>

\* The user's connection is closed.
Leave(t) ==
    /\ client[t] \in {"publish", "subscribe", "listen"}
    /\ Call(t, "gone")
    /\ UNCHANGED <<queueVars, old, runVars, inbox>>

-----------------------------------------------------------------------------
(* processMessage.                                                         *)

TaskAt(w) == stream[worker[w].entry]

Go(w, label) == worker' = [worker EXCEPT ![w].at = label]

\* PUBLISH: whoever listens gets the report.
Report(t, status) ==
    inbox' = IF client[t] = "listen"
             THEN [inbox EXCEPT ![t] = Append(@, status)] ELSE inbox

\* XREADGROUP with ">": a message no worker was given before.
Read(w) ==
    /\ worker[w] = Idle
    /\ cursor < Len(stream)
    /\ cursor' = cursor + 1
    /\ pending' = pending \union {cursor'}
    /\ worker' = [worker EXCEPT ![w] = [at |-> "check", entry |-> cursor']]
    /\ UNCHANGED <<stream, claimed, old, outcome, client, inbox>>

\* Mutation: the time window is not checked.
CheckNoWindow(w) ==
    /\ worker[w].at = "check"
    /\ Go(w, "claim")
    /\ UNCHANGED <<queueVars, old, outcome, client, inbox>>

\* Signature and time window.
Check(w) ==
    /\ worker[w].at = "check"
    /\ Go(w, IF TaskAt(w) \in old THEN "ack" ELSE "claim")
    /\ UNCHANGED <<queueVars, old, outcome, client, inbox>>

\* Mutation: the key is set with SET, not SETNX.
ClaimAlways(w) ==
    /\ worker[w].at = "claim"
    /\ claimed' = claimed \union {TaskAt(w)}
    /\ Go(w, IF TaskAt(w) \in Registered THEN "start" ELSE "ack")
    /\ UNCHANGED <<stream, cursor, pending, old, outcome, client, inbox>>

\* SETNX of the de-duplication key, and the look-up of the handler.
Claim(w) ==
    /\ worker[w].at = "claim"
    /\ claimed' = claimed \union {TaskAt(w)}
    /\ Go(w, IF TaskAt(w) \in Registered \ claimed THEN "start" ELSE "ack")
    /\ UNCHANGED <<stream, cursor, pending, old, outcome, client, inbox>>

\* An error of SETNX, which may have set the key, is taken for "already set".
ClaimFails(w) ==
    /\ worker[w].at = "claim"
    /\ claimed' \in {claimed, claimed \union {TaskAt(w)}}
    /\ Go(w, "ack")
    /\ UNCHANGED <<stream, cursor, pending, old, outcome, client, inbox>>

\* Report(running), and the handler is called.
Start(w) ==
    /\ worker[w].at = "start"
    /\ outcome' = [outcome EXCEPT ![TaskAt(w)] = "running"]
    /\ Report(TaskAt(w), "running")
    /\ Go(w, "handle")
    /\ UNCHANGED <<queueVars, old, client>>

\* A handler that succeeds reports the completion, with its data, itself.
HandlerCompletes(w) ==
    /\ worker[w].at = "handle"
    /\ outcome' = [outcome EXCEPT ![TaskAt(w)] = "completed"]
    /\ Report(TaskAt(w), "completed")
    /\ Go(w, "return")
    /\ UNCHANGED <<queueVars, old, client>>

\* It has returned nil: the completion is reported once more.
HandlerReturns(w) ==
    /\ worker[w].at = "return"
    /\ Report(TaskAt(w), "completed")
    /\ Go(w, "ack")
    /\ UNCHANGED <<queueVars, old, outcome, client>>

\* Mutation: an error is logged and not reported.
HandlerFailsSilently(w) ==
    /\ worker[w].at = "handle"
    /\ outcome' = [outcome EXCEPT ![TaskAt(w)] = "failed"]
    /\ Go(w, "ack")
    /\ UNCHANGED <<queueVars, old, client, inbox>>

\* It returns an error, its ten minutes being over or not.
HandlerFails(w) ==
    /\ worker[w].at = "handle"
    /\ outcome' = [outcome EXCEPT ![TaskAt(w)] = "failed"]
    /\ Report(TaskAt(w), "failed")
    /\ Go(w, "ack")
    /\ UNCHANGED <<queueVars, old, client>>

Ack(w) ==
    /\ worker[w].at = "ack"
    /\ pending' = pending \ {worker[w].entry}
    /\ worker' = [worker EXCEPT ![w] = Idle]
    /\ UNCHANGED <<stream, cursor, claimed, old, outcome, client, inbox>>

\* The pod dies, the handler panics, or Redis does not take a report or the
\* acknowledgement: the message stays pending, which nobody reads again.
WorkerFails(w) ==
    /\ worker[w] # Idle
    /\ worker' = [worker EXCEPT ![w] = Idle]
    /\ outcome' = IF worker[w].at = "handle"
                  THEN [outcome EXCEPT ![TaskAt(w)] = "lost"] ELSE outcome
    /\ UNCHANGED <<queueVars, old, client, inbox>>

-----------------------------------------------------------------------------
(* Time.                                                                   *)

\* SignatureWindow, 5 minutes, has passed since the task was stamped.
Ages(t) ==
    /\ client[t] # "idle"
    /\ t \notin old
    /\ old' = old \union {t}
    /\ UNCHANGED <<queueVars, runVars, client, inbox>>

\* DeduplicationTTL, 1 hour, has passed since the key was set.  By then the
\* window is over, and no worker has been between check and claim for so long.
KeyExpires(t) ==
    /\ t \in claimed \intersect old
    /\ ~ \E w \in Workers : worker[w].at = "claim" /\ TaskAt(w) = t
    /\ claimed' = claimed \ {t}
    /\ UNCHANGED <<stream, cursor, pending, old, runVars, client, inbox>>

-----------------------------------------------------------------------------
Process(w) ==
    \/ Read(w)
    \/ Check(w)
    \/ Claim(w)
    \/ ClaimFails(w)
    \/ Start(w)
    \/ HandlerCompletes(w)
    \/ HandlerReturns(w)
    \/ HandlerFails(w)
    \/ Ack(w)

Next ==
    \/ \E t \in Tasks :
        \/ Publish(t)
        \/ Append_(t)
        \/ Published(t)
        \/ Subscribe(t)
        \/ Hear(t)
        \/ Leave(t)
        \/ Ages(t)
        \/ KeyExpires(t)
    \/ \E w \in Workers : Process(w) \/ WorkerFails(w)

Spec == Init /\ [][Next]_vars

\* Workers and calls run; handlers end, at their time limit if not before.
FairSpec ==
    /\ Spec
    /\ \A w \in Workers : WF_vars(Process(w))
    /\ \A t \in Tasks : WF_vars(Hear(t))

-----------------------------------------------------------------------------
(* Properties.                                                             *)

\* A task is not executed by two workers at a time, although its message was
\* appended twice and both copies are read at once.
OneRunner ==
    \A v, w \in Workers :
        worker[v].at = "handle" /\ worker[w].at = "handle" /\ TaskAt(v) = TaskAt(w)
            => v = w

\* The queue implements TaskDelivery: no copy, delay, expired key or failed
\* worker makes a task run again, and nobody is told an outcome that is not
\* that of the execution.
TaskState ==
    [t \in Tasks |->
        IF outcome[t] = "none" /\ Queued(t) THEN "queued" ELSE outcome[t]]

Told ==
    [t \in Tasks |-> IF client[t] \in {"completed", "failed"} THEN client[t] ELSE "none"]

Delivery == INSTANCE TaskDelivery WITH task <- TaskState, answer <- Told

DeliversTasks == Delivery!Spec

\* A call that was listening while its task ran is told how it ended, unless
\* the worker or the call itself was lost.
Answered ==
    \A t \in Tasks :
        client[t] = "listen" /\ outcome[t] = "running"
            ~> client[t] # "listen" \/ outcome[t] = "lost"
=============================================================================
