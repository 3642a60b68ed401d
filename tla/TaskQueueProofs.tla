-------------------------- MODULE TaskQueueProofs ---------------------------
(***************************************************************************)
(* At-most-once execution and truthful answers of TaskQueue, for any       *)
(* number of tasks, workers and repeated messages.                         *)
(***************************************************************************)
EXTENDS TaskQueue, TLAPS

\* No worker can pass the check of task t any more: its key is set, or it is
\* too old and nobody stands between the two checks.
Sealed(t) ==
    \/ t \in claimed
    \/ t \in old /\ ~ \E w \in Workers : worker[w].at = "claim" /\ TaskAt(w) = t

\* The worker has set the key of its task and has not ended it.
Executing(w) == worker[w].at \in {"start", "handle"}

\* A message is given to one worker.
OneReader ==
    \A v, w \in Workers :
        worker[v] # Idle /\ worker[w] # Idle /\ worker[v].entry = worker[w].entry
            => v = w

\* What was or will be executed is sealed.
ExecutedSealed ==
    /\ \A t \in Tasks : outcome[t] # "none" => Sealed(t)
    /\ \A w \in Workers : Executing(w) => Sealed(TaskAt(w))

OneExecutor ==
    \A v, w \in Workers :
        Executing(v) /\ Executing(w) /\ TaskAt(v) = TaskAt(w) => v = w

\* The outcome of a task is what its worker is doing.
OutcomeMatches ==
    \A w \in Workers :
        /\ worker[w].at = "start" => outcome[TaskAt(w)] = "none"
        /\ worker[w].at = "handle" => outcome[TaskAt(w)] = "running"
        /\ worker[w].at = "return" => outcome[TaskAt(w)] = "completed"

\* Final reports and answers are the outcome.
FinalStatus == {"completed", "failed"}

Truthful ==
    \A t \in Tasks :
        /\ client[t] \in FinalStatus => outcome[t] = client[t]
        /\ \A i \in 1 .. Len(inbox[t]) :
                inbox[t][i] \in FinalStatus => outcome[t] = inbox[t][i]

QueueInv ==
    /\ TypeOK
    /\ OneReader
    /\ ExecutedSealed
    /\ OneExecutor
    /\ OutcomeMatches
    /\ Truthful

-----------------------------------------------------------------------------
\* A busy worker works on a task of the stream.
LEMMA BusyTask ==
    ASSUME TypeOK, NEW w \in Workers, worker[w] # Idle
    PROVE  /\ worker[w] \in Working
           /\ worker[w].entry \in 1 .. Len(stream)
           /\ worker[w].entry \in DOMAIN stream
           /\ TaskAt(w) \in Tasks
<1>1. worker[w] \in Working /\ worker[w].entry \in pending
  BY DEF TypeOK
<1>2. cursor \in 0 .. Len(stream) /\ pending \subseteq 1 .. cursor
  BY DEF TypeOK
<1>3. stream \in Seq(Tasks) /\ Len(stream) \in Nat /\ DOMAIN stream = 1 .. Len(stream)
  BY DEF TypeOK
<1>4. worker[w].entry \in 1 .. Len(stream)
  <2>1. ASSUME NEW n \in Nat, NEW c \in 0 .. n, NEW e \in 1 .. c
        PROVE  e \in 1 .. n
    BY <2>1
  <2> QED
    BY <1>1, <1>2, <1>3, <2>1, Zenon
<1>5. TaskAt(w) \in Tasks
  BY <1>3, <1>4 DEF TaskAt
<1> QED
  BY <1>1, <1>3, <1>4, <1>5

\* A worker that moves keeps its message; the others keep everything.
LEMMA GoEffect ==
    ASSUME TypeOK, NEW w \in Workers, worker[w] # Idle,
           NEW label \in {"check", "claim", "start", "handle", "return", "ack"},
           Go(w, label)
    PROVE  /\ worker'[w] = [at |-> label, entry |-> worker[w].entry]
           /\ \A v \in Workers : v # w => worker'[v] = worker[v]
           /\ worker' \in [Workers -> {Idle} \union Working]
           /\ worker'[w] # Idle
BY DEF TypeOK, Go, Working, Idle

LEMMA InitInv == Init => QueueInv
BY DEF Init, QueueInv, TypeOK, Idle, OneReader, ExecutedSealed, Executing,
       OneExecutor, OutcomeMatches, Truthful, FinalStatus

-----------------------------------------------------------------------------
(* The steps of the delegating calls, and of time.                         *)

\* A call that goes on without an answer changes nothing else.
LEMMA CallStep ==
    ASSUME QueueInv, NEW t \in Tasks,
           NEW label \in {"publish", "subscribe", "listen", "refused", "gone"},
           Call(t, label),
           UNCHANGED <<queueVars, old, runVars, inbox>>
    PROVE  QueueInv'
<1> USE DEF queueVars, runVars
<1>1. TypeOK'
  BY DEF QueueInv, TypeOK, Call
<1>2. OneReader' /\ OneExecutor' /\ OutcomeMatches' /\ ExecutedSealed'
  BY DEF QueueInv, OneReader, OneExecutor, OutcomeMatches, ExecutedSealed,
         Executing, Sealed, TaskAt
<1>3. Truthful'
  BY DEF QueueInv, TypeOK, Truthful, FinalStatus, Call
<1> QED
  BY <1>1, <1>2, <1>3 DEF QueueInv

LEMMA AppendStep ==
    ASSUME QueueInv, NEW t \in Tasks, Append_(t)
    PROVE  QueueInv'
<1> USE DEF Append_, runVars
<1>1. /\ stream \in Seq(Tasks)
      /\ stream' = Append(stream, t)
      /\ stream' \in Seq(Tasks)
      /\ Len(stream') = Len(stream) + 1
      /\ \A i \in 1 .. Len(stream) : stream'[i] = stream[i]
  BY DEF QueueInv, TypeOK
<1>2. TypeOK'
  <2>1. cursor \in 0 .. Len(stream')
    BY <1>1 DEF QueueInv, TypeOK
  <2> QED
    BY <1>1, <2>1 DEF QueueInv, TypeOK
<1>3. \A w \in Workers : worker[w] # Idle => TaskAt(w)' = TaskAt(w)
  BY <1>1, BusyTask DEF QueueInv, TaskAt
<1>4. \A w \in Workers : worker[w].at # "idle" => worker[w] # Idle
  BY DEF Idle
<1>5. OneReader' /\ Truthful'
  BY DEF QueueInv, OneReader, Truthful
<1>6. \A t_1 \in Tasks : Sealed(t_1) => Sealed(t_1)'
  BY <1>3, <1>4 DEF Sealed
<1>7. ExecutedSealed'
  BY <1>3, <1>4, <1>6, BusyTask DEF QueueInv, ExecutedSealed, Executing
<1>8. OneExecutor' /\ OutcomeMatches'
  BY <1>3, <1>4 DEF QueueInv, OneExecutor, OutcomeMatches, Executing
<1> QED
  BY <1>2, <1>5, <1>7, <1>8 DEF QueueInv

\* The head of the inbox is told, the rest is still to be heard.
LEMMA HearStep ==
    ASSUME QueueInv, NEW t \in Tasks, Hear(t)
    PROVE  QueueInv'
<1> USE DEF Hear, queueVars, runVars
<1> DEFINE Status == {"running", "completed", "failed"}
<1>1. /\ inbox[t] \in Seq(Status)
      /\ inbox[t] # <<>>
      /\ inbox'[t] = Tail(inbox[t])
      /\ \A u \in Tasks : u # t => inbox'[u] = inbox[u]
  BY DEF QueueInv, TypeOK
<1>2. /\ Head(inbox[t]) = inbox[t][1]
      /\ Head(inbox[t]) \in Status
      /\ 1 \in 1 .. Len(inbox[t])
      /\ Tail(inbox[t]) \in Seq(Status)
      /\ Len(Tail(inbox[t])) = Len(inbox[t]) - 1
      /\ \A i \in 1 .. Len(Tail(inbox[t])) :
            i + 1 \in 1 .. Len(inbox[t]) /\ Tail(inbox[t])[i] = inbox[t][i + 1]
  BY <1>1
<1>3. TypeOK'
  BY <1>1, <1>2 DEF QueueInv, TypeOK, Call
<1>4. OneReader' /\ OneExecutor' /\ OutcomeMatches' /\ ExecutedSealed'
  BY DEF QueueInv, OneReader, OneExecutor, OutcomeMatches, ExecutedSealed,
         Executing, Sealed, TaskAt
<1>5. Truthful'
  <2>1. client'[t] \in FinalStatus => outcome[t] = client'[t]
    BY <1>1, <1>2 DEF QueueInv, TypeOK, Truthful, FinalStatus, Call
  <2>2. \A i \in 1 .. Len(inbox'[t]) :
            inbox'[t][i] \in FinalStatus => outcome[t] = inbox'[t][i]
    BY <1>1, <1>2 DEF QueueInv, Truthful
  <2>3. \A u \in Tasks : u # t => client'[u] = client[u]
    BY DEF QueueInv, TypeOK, Call
  <2> QED
    BY <1>1, <2>1, <2>2, <2>3 DEF QueueInv, Truthful
<1> QED
  BY <1>3, <1>4, <1>5 DEF QueueInv

LEMMA AgesStep ==
    ASSUME QueueInv, NEW t \in Tasks, Ages(t)
    PROVE  QueueInv'
<1> USE DEF Ages, queueVars, runVars
<1>1. TypeOK'
  BY DEF QueueInv, TypeOK
<1>2. OneReader' /\ OneExecutor' /\ OutcomeMatches' /\ Truthful'
  BY DEF QueueInv, OneReader, OneExecutor, OutcomeMatches, Truthful,
         Executing, TaskAt
<1>3. ExecutedSealed'
  BY DEF QueueInv, ExecutedSealed, Executing, Sealed, TaskAt
<1> QED
  BY <1>1, <1>2, <1>3 DEF QueueInv

\* The key expires when its task is too old to be claimed again.
LEMMA KeyExpiresStep ==
    ASSUME QueueInv, NEW t \in Tasks, KeyExpires(t)
    PROVE  QueueInv'
<1> USE DEF KeyExpires, runVars
<1>1. TypeOK'
  BY DEF QueueInv, TypeOK
<1>2. OneReader' /\ OneExecutor' /\ OutcomeMatches' /\ Truthful'
  BY DEF QueueInv, OneReader, OneExecutor, OutcomeMatches, Truthful,
         Executing, TaskAt
<1>3. \A u \in Tasks : Sealed(u) => Sealed(u)'
  BY DEF Sealed, TaskAt
<1>4. ExecutedSealed'
  <2>1. \A w \in Workers : Executing(w) => TaskAt(w) \in Tasks
    BY BusyTask DEF QueueInv, Executing, Idle
  <2> QED
    BY <1>3, <2>1 DEF QueueInv, ExecutedSealed, Executing, TaskAt
<1> QED
  BY <1>1, <1>2, <1>4 DEF QueueInv

-----------------------------------------------------------------------------
(* The steps of a worker.                                                  *)

\* The worker is given a message that no other worker has.
LEMMA ReadStep ==
    ASSUME QueueInv, NEW w \in Workers, Read(w)
    PROVE  QueueInv'
<1> USE DEF Read
<1>1. /\ worker'[w] = [at |-> "check", entry |-> cursor + 1]
      /\ \A v \in Workers : v # w => worker'[v] = worker[v]
      /\ worker[w] = Idle
      /\ cursor + 1 \in Nat
      /\ worker'[w] # Idle
  BY DEF QueueInv, TypeOK, Idle
<1>2. TypeOK'
  <2>1. cursor' \in 0 .. Len(stream) /\ pending' \subseteq 1 .. cursor'
    BY DEF QueueInv, TypeOK
  <2>2. worker' \in [Workers -> {Idle} \union Working]
    BY <1>1 DEF QueueInv, TypeOK, Working
  <2>3. \A v \in Workers : worker'[v] # Idle => worker'[v].entry \in pending'
    BY <1>1 DEF QueueInv, TypeOK
  <2> QED
    BY <2>1, <2>2, <2>3 DEF QueueInv, TypeOK
<1>3. OneReader'
  <2>1. \A v \in Workers : worker[v] # Idle => worker[v].entry # cursor + 1
    BY DEF QueueInv, TypeOK
  <2> QED
    BY <1>1, <2>1 DEF QueueInv, OneReader
<1>4. \A v \in Workers :
        /\ worker'[v].at \notin {"check", "idle"} => v # w
        /\ v # w => TaskAt(v)' = TaskAt(v)
  BY <1>1 DEF TaskAt
<1>5. ExecutedSealed'
  BY <1>1, <1>4 DEF QueueInv, ExecutedSealed, Sealed, Executing
<1>6. OneExecutor' /\ OutcomeMatches'
  BY <1>1, <1>4 DEF QueueInv, OneExecutor, OutcomeMatches, Executing
<1>7. Truthful'
  BY DEF QueueInv, Truthful
<1> QED
  BY <1>2, <1>3, <1>5, <1>6, <1>7 DEF QueueInv

\* What every step of processMessage keeps: the message and the others' tasks.
LEMMA GoKeeps ==
    ASSUME QueueInv, NEW w \in Workers, worker[w].at # "idle",
           NEW label \in {"check", "claim", "start", "handle", "return", "ack"},
           Go(w, label), UNCHANGED <<stream, cursor, pending>>
    PROVE  /\ worker[w] # Idle
           /\ worker'[w].at = label
           /\ \A v \in Workers : v # w => worker'[v] = worker[v]
           /\ \A v \in Workers : TaskAt(v)' = TaskAt(v)
           /\ TaskAt(w) \in Tasks
           /\ worker' \in [Workers -> {Idle} \union Working]
           /\ \A v \in Workers : worker'[v] # Idle => worker'[v].entry \in pending
           /\ OneReader'
<1>1. worker[w] # Idle
  BY DEF Idle
<1>2. /\ worker'[w] = [at |-> label, entry |-> worker[w].entry]
      /\ \A v \in Workers : v # w => worker'[v] = worker[v]
      /\ worker' \in [Workers -> {Idle} \union Working]
  BY <1>1, GoEffect DEF QueueInv
<1>3. \A v \in Workers : TaskAt(v)' = TaskAt(v)
  BY <1>2 DEF TaskAt
<1>4. \A v \in Workers : worker'[v] # Idle => worker'[v].entry \in pending
  <2>1. \A v \in Workers : worker[v] # Idle => worker[v].entry \in pending
    BY DEF QueueInv, TypeOK
  <2>2. worker'[w].entry = worker[w].entry
    BY <1>2
  <2> QED
    BY <1>1, <1>2, <2>1, <2>2, Zenon
<1>5. OneReader'
  BY <1>1, <1>2 DEF QueueInv, OneReader
<1> QED
  BY <1>1, <1>2, <1>3, <1>4, <1>5, BusyTask DEF QueueInv

LEMMA CheckStep ==
    ASSUME QueueInv, NEW w \in Workers, Check(w)
    PROVE  QueueInv'
<1> USE DEF Check, queueVars
<1> DEFINE label == IF TaskAt(w) \in old THEN "ack" ELSE "claim"
<1>1. /\ worker[w].at = "check"
      /\ worker'[w].at = label
      /\ \A v \in Workers : v # w => worker'[v] = worker[v]
      /\ \A v \in Workers : TaskAt(v)' = TaskAt(v)
      /\ worker' \in [Workers -> {Idle} \union Working]
      /\ \A v \in Workers : worker'[v] # Idle => worker'[v].entry \in pending
      /\ OneReader'
  BY GoKeeps
<1>2. TypeOK'
  BY <1>1 DEF QueueInv, TypeOK
\* Whoever goes on to the claim has a task that is not old.
<1>3. \A t \in Tasks : Sealed(t) => Sealed(t)'
  BY <1>1 DEF Sealed
<1>4. ExecutedSealed'
  <2>1. \A v \in Workers : Executing(v) => TaskAt(v) \in Tasks
    BY BusyTask DEF QueueInv, Executing, Idle
  <2>2. \A v \in Workers : Executing(v)' => Executing(v)
    BY <1>1 DEF Executing
  <2> QED
    BY <1>1, <1>3, <2>1, <2>2 DEF QueueInv, ExecutedSealed
<1>5. OneExecutor' /\ OutcomeMatches'
  BY <1>1 DEF QueueInv, OneExecutor, OutcomeMatches, Executing
<1>6. Truthful'
  BY DEF QueueInv, Truthful
<1> QED
  BY <1>1, <1>2, <1>4, <1>5, <1>6 DEF QueueInv

\* A worker that sets the key finds a task that nobody has executed.
LEMMA ClaimStep ==
    ASSUME QueueInv, NEW w \in Workers, Claim(w)
    PROVE  QueueInv'
<1> USE DEF Claim
<1> DEFINE label == IF TaskAt(w) \in Registered \ claimed THEN "start" ELSE "ack"
<1>1. /\ worker[w].at = "claim"
      /\ worker'[w].at = label
      /\ \A v \in Workers : v # w => worker'[v] = worker[v]
      /\ \A v \in Workers : TaskAt(v)' = TaskAt(v)
      /\ TaskAt(w) \in Tasks
      /\ worker' \in [Workers -> {Idle} \union Working]
      /\ \A v \in Workers : worker'[v] # Idle => worker'[v].entry \in pending
      /\ OneReader'
  BY GoKeeps
<1>2. TypeOK'
  BY <1>1 DEF QueueInv, TypeOK
<1>3. \A t \in Tasks : Sealed(t) => Sealed(t)'
  BY <1>1 DEF Sealed
<1>4. Sealed(TaskAt(w))'
  BY <1>1 DEF Sealed
<1>5. \A v \in Workers : Executing(v) => TaskAt(v) \in Tasks
  BY BusyTask DEF QueueInv, Executing, Idle
<1>6. ExecutedSealed'
  BY <1>1, <1>3, <1>4, <1>5 DEF QueueInv, ExecutedSealed, Executing
\* If it goes on, its task was not sealed, so no one executes or executed it.
<1>7. ASSUME worker'[w].at = "start"
      PROVE  /\ outcome[TaskAt(w)] = "none"
             /\ \A v \in Workers : Executing(v) => TaskAt(v) # TaskAt(w)
  <2>1. ~ Sealed(TaskAt(w))
    BY <1>1, <1>7 DEF Sealed
  <2> QED
    BY <1>1, <2>1 DEF QueueInv, ExecutedSealed
<1>8. OneExecutor'
  BY <1>1, <1>7 DEF QueueInv, OneExecutor, Executing
<1>9. OutcomeMatches'
  BY <1>1, <1>7 DEF QueueInv, OutcomeMatches
<1>10. Truthful'
  BY DEF QueueInv, Truthful
<1> QED
  BY <1>1, <1>2, <1>6, <1>8, <1>9, <1>10 DEF QueueInv

LEMMA ClaimFailsStep ==
    ASSUME QueueInv, NEW w \in Workers, ClaimFails(w)
    PROVE  QueueInv'
<1> USE DEF ClaimFails
<1>1. /\ worker[w].at = "claim"
      /\ worker'[w].at = "ack"
      /\ \A v \in Workers : v # w => worker'[v] = worker[v]
      /\ \A v \in Workers : TaskAt(v)' = TaskAt(v)
      /\ TaskAt(w) \in Tasks
      /\ worker' \in [Workers -> {Idle} \union Working]
      /\ \A v \in Workers : worker'[v] # Idle => worker'[v].entry \in pending
      /\ OneReader'
  BY GoKeeps
<1>2. TypeOK'
  BY <1>1 DEF QueueInv, TypeOK
<1>3. \A t \in Tasks : Sealed(t) => Sealed(t)'
  BY <1>1 DEF Sealed
<1>4. ExecutedSealed'
  <2>1. \A v \in Workers : Executing(v) => TaskAt(v) \in Tasks
    BY BusyTask DEF QueueInv, Executing, Idle
  <2> QED
    BY <1>1, <1>3, <2>1 DEF QueueInv, ExecutedSealed, Executing
<1>5. OneExecutor' /\ OutcomeMatches'
  BY <1>1 DEF QueueInv, OneExecutor, OutcomeMatches, Executing
<1>6. Truthful'
  BY DEF QueueInv, Truthful
<1> QED
  BY <1>1, <1>2, <1>4, <1>5, <1>6 DEF QueueInv

\* A report changes the inbox of its task by at most one message at its end.
LEMMA ReportEffect ==
    ASSUME TypeOK, NEW t \in Tasks,
           NEW status \in {"running", "completed", "failed"},
           Report(t, status)
    PROVE  /\ inbox' \in [Tasks -> Seq({"running", "completed", "failed"})]
           /\ \A u \in Tasks : \A i \in 1 .. Len(inbox'[u]) :
                \/ i \in 1 .. Len(inbox[u]) /\ inbox'[u][i] = inbox[u][i]
                \/ u = t /\ inbox'[u][i] = status
<1> DEFINE Status == {"running", "completed", "failed"}
<1>1. inbox \in [Tasks -> Seq(Status)]
  BY DEF TypeOK
<1>2. CASE client[t] # "listen"
  BY <1>1, <1>2 DEF Report
<1>3. CASE client[t] = "listen"
  <2>1. inbox' = [inbox EXCEPT ![t] = Append(inbox[t], status)]
    BY <1>3 DEF Report
  <2>2. /\ Append(inbox[t], status) \in Seq(Status)
        /\ Len(inbox[t]) \in Nat
        /\ Len(Append(inbox[t], status)) = Len(inbox[t]) + 1
        /\ \A i \in 1 .. Len(inbox[t]) : Append(inbox[t], status)[i] = inbox[t][i]
        /\ Append(inbox[t], status)[Len(inbox[t]) + 1] = status
    BY <1>1
  <2>3. inbox' \in [Tasks -> Seq(Status)]
    BY <1>1, <2>1, <2>2
  <2>4. \A i \in 1 .. Len(inbox'[t]) :
            \/ i \in 1 .. Len(inbox[t]) /\ inbox'[t][i] = inbox[t][i]
            \/ inbox'[t][i] = status
    <3>1. inbox'[t] = Append(inbox[t], status)
      BY <1>1, <2>1
    <3>2. \A i \in 1 .. Len(inbox[t]) + 1 :
            i \in 1 .. Len(inbox[t]) \/ i = Len(inbox[t]) + 1
      BY <2>2
    <3> QED
      BY <2>2, <3>1, <3>2
  <2>5. \A u \in Tasks : u # t => inbox'[u] = inbox[u]
    BY <1>1, <2>1
  <2> QED
    BY <2>3, <2>4, <2>5
<1> QED
  BY <1>2, <1>3

\* No report of task t is final while its outcome is not.
LEMMA NothingFinal ==
    ASSUME QueueInv, NEW t \in Tasks, outcome[t] \notin FinalStatus
    PROVE  /\ client[t] \notin FinalStatus
           /\ \A i \in 1 .. Len(inbox[t]) : inbox[t][i] \notin FinalStatus
BY DEF QueueInv, Truthful

\* The steps that run a task: they move its outcome and its executor only.
LEMMA RunStep ==
    ASSUME QueueInv, NEW w \in Workers, Executing(w),
           NEW next \in {"running", "completed", "failed"},
           NEW label \in {"handle", "return", "ack"},
           outcome' = [outcome EXCEPT ![TaskAt(w)] = next],
           Go(w, label), Report(TaskAt(w), next),
           UNCHANGED <<queueVars, old, client>>,
           label = "handle" => next = "running",
           label = "return" => next = "completed",
           next = "running" => worker[w].at = "start"
    PROVE  QueueInv'
<1> USE DEF queueVars
<1>1. /\ worker[w].at # "idle"
      /\ worker[w].at \in {"start", "handle"}
  BY DEF Executing
<1>2. /\ worker[w] # Idle
      /\ worker'[w].at = label
      /\ \A v \in Workers : v # w => worker'[v] = worker[v]
      /\ \A v \in Workers : TaskAt(v)' = TaskAt(v)
      /\ TaskAt(w) \in Tasks
      /\ worker' \in [Workers -> {Idle} \union Working]
      /\ \A v \in Workers : worker'[v] # Idle => worker'[v].entry \in pending
      /\ OneReader'
  BY <1>1, GoKeeps
<1>3. /\ outcome'[TaskAt(w)] = next
      /\ \A t \in Tasks : t # TaskAt(w) => outcome'[t] = outcome[t]
      /\ outcome' \in [Tasks -> {"none", "running", "completed", "failed", "lost"}]
      /\ outcome[TaskAt(w)] \notin FinalStatus
  BY <1>1, <1>2 DEF QueueInv, TypeOK, OutcomeMatches, FinalStatus
<1>4. /\ inbox' \in [Tasks -> Seq({"running", "completed", "failed"})]
      /\ \A u \in Tasks : \A i \in 1 .. Len(inbox'[u]) :
            \/ i \in 1 .. Len(inbox[u]) /\ inbox'[u][i] = inbox[u][i]
            \/ u = TaskAt(w) /\ inbox'[u][i] = next
  BY <1>2, ReportEffect DEF QueueInv
<1>5. TypeOK'
  BY <1>2, <1>3, <1>4 DEF QueueInv, TypeOK
<1>6. \A t \in Tasks : Sealed(t) => Sealed(t)'
  BY <1>2 DEF Sealed
<1>7. \A v \in Workers : Executing(v) => TaskAt(v) \in Tasks
  BY BusyTask DEF QueueInv, Executing, Idle
<1>8. \A v \in Workers : Executing(v)' => Executing(v)
  BY <1>2 DEF Executing
<1>9. ExecutedSealed'
  BY <1>2, <1>3, <1>6, <1>7, <1>8 DEF QueueInv, ExecutedSealed
<1>10. OneExecutor'
  BY <1>2, <1>8 DEF QueueInv, OneExecutor
\* Another worker at this task would execute it too, or have ended it.
<1>11. \A v \in Workers :
        v # w /\ worker[v].at \in {"start", "handle", "return"}
            => TaskAt(v) \in Tasks /\ TaskAt(v) # TaskAt(w)
  <2>1. \A v \in Workers : worker[v].at = "return" => outcome[TaskAt(v)] = "completed"
    BY DEF QueueInv, OutcomeMatches
  <2>2. \A v \in Workers :
            worker[v].at \in {"start", "handle", "return"} => TaskAt(v) \in Tasks
    BY BusyTask DEF QueueInv, Idle
  <2> QED
    BY <1>3, <2>1, <2>2 DEF QueueInv, OneExecutor, Executing, FinalStatus
<1>12. OutcomeMatches'
  BY <1>2, <1>3, <1>11 DEF QueueInv, OutcomeMatches
<1>13. Truthful'
  <2>1. /\ client[TaskAt(w)] \notin FinalStatus
        /\ \A i \in 1 .. Len(inbox[TaskAt(w)]) : inbox[TaskAt(w)][i] \notin FinalStatus
    BY <1>2, <1>3, NothingFinal
  <2> QED
    BY <1>3, <1>4, <2>1 DEF QueueInv, Truthful
<1> QED
  BY <1>2, <1>5, <1>9, <1>10, <1>12, <1>13 DEF QueueInv

LEMMA StartStep ==
    ASSUME QueueInv, NEW w \in Workers, Start(w)
    PROVE  QueueInv'
BY RunStep DEF Start, Executing

LEMMA HandlerCompletesStep ==
    ASSUME QueueInv, NEW w \in Workers, HandlerCompletes(w)
    PROVE  QueueInv'
BY RunStep DEF HandlerCompletes, Executing

LEMMA HandlerFailsStep ==
    ASSUME QueueInv, NEW w \in Workers, HandlerFails(w)
    PROVE  QueueInv'
BY RunStep DEF HandlerFails, Executing

\* The second report of a completion repeats the outcome.
LEMMA HandlerReturnsStep ==
    ASSUME QueueInv, NEW w \in Workers, HandlerReturns(w)
    PROVE  QueueInv'
<1> USE DEF HandlerReturns, queueVars
<1>1. /\ worker[w].at = "return"
      /\ worker'[w].at = "ack"
      /\ \A v \in Workers : v # w => worker'[v] = worker[v]
      /\ \A v \in Workers : TaskAt(v)' = TaskAt(v)
      /\ TaskAt(w) \in Tasks
      /\ worker' \in [Workers -> {Idle} \union Working]
      /\ \A v \in Workers : worker'[v] # Idle => worker'[v].entry \in pending
      /\ OneReader'
  BY GoKeeps
<1>2. /\ inbox' \in [Tasks -> Seq({"running", "completed", "failed"})]
      /\ \A u \in Tasks : \A i \in 1 .. Len(inbox'[u]) :
            \/ i \in 1 .. Len(inbox[u]) /\ inbox'[u][i] = inbox[u][i]
            \/ u = TaskAt(w) /\ inbox'[u][i] = "completed"
  BY <1>1, ReportEffect DEF QueueInv
<1>3. TypeOK'
  BY <1>1, <1>2 DEF QueueInv, TypeOK
<1>4. ExecutedSealed'
  <2>1. \A t \in Tasks : Sealed(t) => Sealed(t)'
    BY <1>1 DEF Sealed
  <2>2. \A v \in Workers : Executing(v) => TaskAt(v) \in Tasks
    BY BusyTask DEF QueueInv, Executing, Idle
  <2>3. \A v \in Workers : Executing(v)' => Executing(v)
    BY <1>1 DEF Executing
  <2> QED
    BY <1>1, <2>1, <2>2, <2>3 DEF QueueInv, ExecutedSealed
<1>5. OneExecutor' /\ OutcomeMatches'
  BY <1>1 DEF QueueInv, OneExecutor, OutcomeMatches, Executing
<1>6. Truthful'
  BY <1>1, <1>2 DEF QueueInv, Truthful, OutcomeMatches
<1> QED
  BY <1>1, <1>3, <1>4, <1>5, <1>6 DEF QueueInv

\* A worker that ends, in order or not, seals nothing and opens nothing.
LEMMA IdleStep ==
    ASSUME QueueInv, NEW w \in Workers,
           worker[w] # Idle,
           worker' = [worker EXCEPT ![w] = Idle],
           pending' \in {pending, pending \ {worker[w].entry}},
           UNCHANGED <<stream, cursor, claimed, old, client, inbox>>,
           outcome' = IF worker[w].at = "handle"
                      THEN [outcome EXCEPT ![TaskAt(w)] = "lost"] ELSE outcome
    PROVE  QueueInv'
<1>1. /\ worker'[w] = Idle
      /\ \A v \in Workers : v # w => worker'[v] = worker[v]
      /\ \A v \in Workers : v # w => TaskAt(v)' = TaskAt(v)
      /\ worker' \in [Workers -> {Idle} \union Working]
      /\ TaskAt(w) \in Tasks
      /\ Idle.at = "idle"
  BY BusyTask DEF QueueInv, TypeOK, TaskAt, Idle
<1>2. /\ \A t \in Tasks : t # TaskAt(w) => outcome'[t] = outcome[t]
      /\ outcome' \in [Tasks -> {"none", "running", "completed", "failed", "lost"}]
      /\ worker[w].at # "handle" => outcome' = outcome
      /\ worker[w].at = "handle" => outcome[TaskAt(w)] = "running"
  BY <1>1 DEF QueueInv, TypeOK, OutcomeMatches
<1>3. TypeOK'
  <2>1. pending' \subseteq 1 .. cursor
    BY DEF QueueInv, TypeOK
  <2>2. \A v \in Workers : worker[v] # Idle => worker[v].entry \in pending
    BY DEF QueueInv, TypeOK
  <2>3. \A v \in Workers : v # w /\ worker[v] # Idle => worker[v].entry # worker[w].entry
    BY DEF QueueInv, OneReader
  <2>4. \A v \in Workers : worker'[v] # Idle => worker'[v].entry \in pending'
    BY <1>1, <2>2, <2>3
  <2> QED
    BY <1>1, <1>2, <2>1, <2>4 DEF QueueInv, TypeOK
<1>4. OneReader'
  BY <1>1 DEF QueueInv, OneReader
<1>5. \A v \in Workers :
        /\ worker'[v].at # "idle" => v # w
        /\ Executing(v)' => Executing(v) /\ v # w
  BY <1>1 DEF Executing
<1>6. \A t \in Tasks : Sealed(t) => Sealed(t)'
  BY <1>1, <1>5 DEF Sealed
<1>7. \A v \in Workers : Executing(v) => TaskAt(v) \in Tasks
  BY BusyTask DEF QueueInv, Executing, Idle
<1>8. ExecutedSealed'
  <2>1. \A t \in Tasks : outcome'[t] # "none" => outcome[t] # "none"
    BY <1>1, <1>2
  <2> QED
    BY <1>1, <1>5, <1>6, <1>7, <2>1 DEF QueueInv, ExecutedSealed
<1>9. OneExecutor'
  BY <1>1, <1>5 DEF QueueInv, OneExecutor
<1>10. OutcomeMatches'
  <2>1. \A v \in Workers :
            worker[v].at \in {"start", "handle", "return"} => TaskAt(v) \in Tasks
    BY BusyTask DEF QueueInv, Idle
  <2>2. \A v \in Workers :
            v # w /\ worker[v].at \in {"start", "handle", "return"}
                => outcome'[TaskAt(v)] = outcome[TaskAt(v)]
    BY <1>2, <2>1 DEF QueueInv, OneExecutor, Executing, OutcomeMatches
  <2> QED
    BY <1>1, <1>5, <2>2 DEF QueueInv, OutcomeMatches
<1>11. Truthful'
  BY <1>1, <1>2, NothingFinal DEF QueueInv, Truthful, FinalStatus
<1> QED
  BY <1>3, <1>4, <1>8, <1>9, <1>10, <1>11 DEF QueueInv

LEMMA AckStep ==
    ASSUME QueueInv, NEW w \in Workers, Ack(w)
    PROVE  QueueInv'
<1>1. /\ worker[w] # Idle
      /\ worker[w].at # "handle"
      /\ worker' = [worker EXCEPT ![w] = Idle]
      /\ pending' = pending \ {worker[w].entry}
      /\ UNCHANGED <<stream, cursor, claimed, old, client, inbox, outcome>>
  BY DEF Ack, Idle
<1> QED
  BY <1>1, IdleStep

LEMMA WorkerFailsStep ==
    ASSUME QueueInv, NEW w \in Workers, WorkerFails(w)
    PROVE  QueueInv'
<1>1. /\ worker[w] # Idle
      /\ worker' = [worker EXCEPT ![w] = Idle]
      /\ pending' = pending
      /\ UNCHANGED <<stream, cursor, claimed, old, client, inbox>>
      /\ outcome' = IF worker[w].at = "handle"
                    THEN [outcome EXCEPT ![TaskAt(w)] = "lost"] ELSE outcome
  BY DEF WorkerFails, queueVars
<1> QED
  BY <1>1, IdleStep

-----------------------------------------------------------------------------
(* The invariant and what follows from it.                                 *)

LEMMA NextInv == QueueInv /\ [Next]_vars => QueueInv'
<1> SUFFICES ASSUME QueueInv, [Next]_vars
             PROVE  QueueInv'
  OBVIOUS
<1>1. ASSUME NEW t \in Tasks, Publish(t) \/ Published(t) \/ Subscribe(t) \/ Leave(t)
      PROVE  QueueInv'
  BY <1>1, CallStep DEF Publish, Published, Subscribe, Leave
<1>2. ASSUME NEW t \in Tasks, Append_(t) \/ Hear(t) \/ Ages(t) \/ KeyExpires(t)
      PROVE  QueueInv'
  BY <1>2, AppendStep, HearStep, AgesStep, KeyExpiresStep
<1>3. ASSUME NEW w \in Workers, Process(w) \/ WorkerFails(w)
      PROVE  QueueInv'
  BY <1>3, ReadStep, CheckStep, ClaimStep, ClaimFailsStep, StartStep,
     HandlerCompletesStep, HandlerReturnsStep, HandlerFailsStep, AckStep,
     WorkerFailsStep
     DEF Process
<1>4. CASE UNCHANGED vars
  BY <1>4 DEF vars, QueueInv, TypeOK, OneReader, ExecutedSealed, Executing,
              OneExecutor, OutcomeMatches, Truthful, Sealed, TaskAt
<1> QED
  BY <1>1, <1>2, <1>3, <1>4 DEF Next

\* The invariant of the queue, its types included.
THEOREM QueueInvariant == Spec => []QueueInv
BY InitInv, NextInv, PTL DEF Spec

\* What is given to workers is in the stream, what they hold is pending.
THEOREM QueueTypeCorrect == Spec => []TypeOK
BY QueueInvariant, PTL DEF QueueInv

\* One worker executes a task at a time (SETNX of task:processed:<id>), however
\* many messages of it are read at once.
THEOREM ExecutedByOne == Spec => []OneRunner
<1>1. QueueInv => OneRunner
  BY DEF QueueInv, OneExecutor, OneRunner, Executing
<1> QED
  BY <1>1, QueueInvariant, PTL

-----------------------------------------------------------------------------
(* The refinement: every step of the queue is one of TaskDelivery's, or    *)
(* none.                                                                   *)

\* A step that moves the abstract state of one task.
LEMMA AbstractStep ==
    ASSUME NEW t \in Tasks,
           \A u \in Tasks : u # t => TaskState'[u] = TaskState[u],
           Told' = Told,
           \/ TaskState'[t] = TaskState[t]
           \/ TaskState[t] = "none" /\ TaskState'[t] = "queued"
           \/ TaskState[t] = "queued" /\ TaskState'[t] = "running"
           \/ /\ TaskState[t] = "running"
              /\ TaskState'[t] \in {"completed", "failed", "lost"}
    PROVE  [Delivery!Next]_<<TaskState, Told>>
<1>1. /\ TaskState' = [u \in Tasks |-> TaskState'[u]]
      /\ TaskState = [u \in Tasks |-> TaskState[u]]
  BY DEF TaskState
<1> HIDE DEF TaskState, Told
<1>2. TaskState' = [TaskState EXCEPT ![t] = TaskState'[t]]
  BY <1>1
<1>3. TaskState'[t] = TaskState[t] => TaskState' = TaskState
  BY <1>1, <1>2
<1> QED
  BY <1>2, <1>3 DEF Delivery!Next, Delivery!Queue, Delivery!Run, Delivery!End,
                    Delivery!Final

\* A step that keeps the stream, the outcomes and the answers is a stutter.
LEMMA StutterStep ==
    ASSUME UNCHANGED <<stream, outcome>>, Told' = Told
    PROVE  [Delivery!Next]_<<TaskState, Told>>
BY DEF TaskState, Queued

LEMMA CallToldSame ==
    ASSUME TypeOK, NEW t \in Tasks, client[t] \notin FinalStatus,
           NEW label \in {"publish", "subscribe", "listen", "refused", "gone"},
           Call(t, label)
    PROVE  Told' = Told
BY DEF TypeOK, Call, Told, FinalStatus

\* The step of a worker changes the outcome of its task only.
LEMMA OutcomeStep ==
    ASSUME QueueInv, NEW w \in Workers, worker[w] # Idle,
           NEW next \in {"running", "completed", "failed", "lost"},
           outcome' = [outcome EXCEPT ![TaskAt(w)] = next],
           UNCHANGED <<stream, client>>,
           \/ next = "running" /\ outcome[TaskAt(w)] = "none"
           \/ next # "running" /\ outcome[TaskAt(w)] = "running"
    PROVE  [Delivery!Next]_<<TaskState, Told>>
<1>1. /\ TaskAt(w) \in Tasks
      /\ Queued(TaskAt(w))
  BY BusyTask DEF QueueInv, Queued, TaskAt
<1>2. Told' = Told
  BY DEF Told
<1>3. /\ outcome'[TaskAt(w)] = next
      /\ \A u \in Tasks : u # TaskAt(w) => outcome'[u] = outcome[u]
  BY <1>1 DEF QueueInv, TypeOK
<1>4. \A u \in Tasks : u # TaskAt(w) => TaskState'[u] = TaskState[u]
  BY <1>3 DEF TaskState, Queued
<1>5. /\ TaskState'[TaskAt(w)] = next
      /\ outcome[TaskAt(w)] = "none" => TaskState[TaskAt(w)] = "queued"
      /\ outcome[TaskAt(w)] = "running" => TaskState[TaskAt(w)] = "running"
  BY <1>1, <1>3 DEF TaskState
<1> QED
  BY <1>1, <1>2, <1>4, <1>5, AbstractStep

LEMMA AppendRefines ==
    ASSUME QueueInv, NEW t \in Tasks, Append_(t)
    PROVE  [Delivery!Next]_<<TaskState, Told>>
<1>1. /\ stream \in Seq(Tasks)
      /\ stream' = Append(stream, t)
      /\ DOMAIN stream = 1 .. Len(stream)
      /\ DOMAIN stream' = 1 .. Len(stream) + 1
      /\ Len(stream) \in Nat
      /\ \A i \in 1 .. Len(stream) : stream'[i] = stream[i]
      /\ stream'[Len(stream) + 1] = t
  BY DEF QueueInv, TypeOK, Append_
<1>2. \A i \in 1 .. Len(stream) + 1 : i \in 1 .. Len(stream) \/ i = Len(stream) + 1
  BY <1>1
<1>3. /\ Queued(t)'
      /\ \A u \in Tasks : u # t => (Queued(u)' <=> Queued(u))
  <2>1. Len(stream) + 1 \in 1 .. Len(stream) + 1
    BY <1>1
  <2>2. \A i \in 1 .. Len(stream) : i \in 1 .. Len(stream) + 1
    BY <1>1
  <2> QED
    BY <1>1, <1>2, <2>1, <2>2 DEF Queued
<1>4. outcome' = outcome /\ Told' = Told
  BY DEF Append_, runVars, Told
<1>5. \A u \in Tasks : u # t => TaskState'[u] = TaskState[u]
  BY <1>3, <1>4 DEF TaskState
<1>6. \/ TaskState'[t] = TaskState[t]
      \/ TaskState[t] = "none" /\ TaskState'[t] = "queued"
  BY <1>3, <1>4 DEF TaskState
<1> QED
  BY <1>4, <1>5, <1>6, AbstractStep

\* A final report is told: it is the outcome of the task.
LEMMA HearRefines ==
    ASSUME QueueInv, NEW t \in Tasks, Hear(t)
    PROVE  [Delivery!Next]_<<TaskState, Told>>
<1> DEFINE status == Head(inbox[t])
<1>1. /\ status = inbox[t][1]
      /\ status \in {"running", "completed", "failed"}
      /\ 1 \in 1 .. Len(inbox[t])
  <2>1. /\ inbox[t] \in Seq({"running", "completed", "failed"})
        /\ inbox[t] # <<>>
    BY DEF QueueInv, TypeOK, Hear
  <2> QED
    BY <2>1
<1>2. client[t] = "listen" /\ client' = [client EXCEPT ![t] = IF status = "running" THEN "listen" ELSE status]
  BY DEF Hear, Call
<1>3. UNCHANGED <<stream, outcome>>
  BY DEF Hear, queueVars, runVars
<1>4. CASE status = "running"
  <2>1. Told' = Told
    BY <1>2, <1>4 DEF QueueInv, TypeOK, Told
  <2> QED
    BY <1>3, <2>1, StutterStep
<1>5. CASE status \in FinalStatus
  <2>1. TaskState' = TaskState
    BY <1>3 DEF TaskState, Queued
  <2>2. TaskState[t] = status
    BY <1>1, <1>5 DEF QueueInv, Truthful, TaskState, FinalStatus
  <2>3. Told[t] = "none" /\ Told' = [Told EXCEPT ![t] = status]
    BY <1>2, <1>5 DEF QueueInv, TypeOK, Told, FinalStatus
  <2> HIDE DEF TaskState, Told
  <2>4. Delivery!Answer(t)
    BY <1>5, <2>1, <2>2, <2>3 DEF Delivery!Answer, Delivery!Final, FinalStatus
  <2> QED
    BY <2>4 DEF Delivery!Next
<1> QED
  BY <1>1, <1>4, <1>5 DEF FinalStatus

LEMMA StepRefines ==
    QueueInv /\ [Next]_vars => [Delivery!Next]_<<TaskState, Told>>
<1> SUFFICES ASSUME QueueInv, [Next]_vars
             PROVE  [Delivery!Next]_<<TaskState, Told>>
  OBVIOUS
<1>1. ASSUME NEW t \in Tasks, Publish(t) \/ Published(t) \/ Subscribe(t) \/ Leave(t)
      PROVE  [Delivery!Next]_<<TaskState, Told>>
  <2>1. UNCHANGED <<stream, outcome>> /\ client[t] \notin FinalStatus
    BY <1>1 DEF Publish, Published, Subscribe, Leave, queueVars, runVars, FinalStatus
  <2>2. \E label \in {"publish", "subscribe", "listen", "refused", "gone"} :
            Call(t, label)
    BY <1>1 DEF Publish, Published, Subscribe, Leave
  <2> QED
    BY <2>1, <2>2, CallToldSame, StutterStep DEF QueueInv
<1>2. ASSUME NEW t \in Tasks, Ages(t) \/ KeyExpires(t)
      PROVE  [Delivery!Next]_<<TaskState, Told>>
  <2>1. UNCHANGED <<stream, outcome, client>>
    BY <1>2 DEF Ages, KeyExpires, queueVars, runVars
  <2> QED
    BY <2>1, StutterStep DEF Told
<1>3. ASSUME NEW w \in Workers,
             \/ Read(w) \/ Check(w) \/ Claim(w) \/ ClaimFails(w)
             \/ HandlerReturns(w) \/ Ack(w)
      PROVE  [Delivery!Next]_<<TaskState, Told>>
  <2>1. UNCHANGED <<stream, outcome, client>>
    BY <1>3 DEF Read, Check, Claim, ClaimFails, HandlerReturns, Ack, queueVars
  <2> QED
    BY <2>1, StutterStep DEF Told
<1>4. ASSUME NEW w \in Workers,
             Start(w) \/ HandlerCompletes(w) \/ HandlerFails(w) \/ WorkerFails(w)
      PROVE  [Delivery!Next]_<<TaskState, Told>>
  <2>1. CASE WorkerFails(w) /\ worker[w].at # "handle"
    BY <2>1, StutterStep DEF WorkerFails, queueVars, Told
  <2>2. CASE ~ (WorkerFails(w) /\ worker[w].at # "handle")
    <3>1. worker[w] # Idle /\ UNCHANGED <<stream, client>>
      BY <1>4 DEF Start, HandlerCompletes, HandlerFails, WorkerFails, queueVars, Idle
    <3>2. \/ /\ outcome[TaskAt(w)] = "none"
             /\ outcome' = [outcome EXCEPT ![TaskAt(w)] = "running"]
          \/ /\ outcome[TaskAt(w)] = "running"
             /\ \E next \in {"completed", "failed", "lost"} :
                    outcome' = [outcome EXCEPT ![TaskAt(w)] = next]
      BY <1>4, <2>2 DEF Start, HandlerCompletes, HandlerFails, WorkerFails,
                        QueueInv, OutcomeMatches
    <3> QED
      BY <3>1, <3>2, OutcomeStep
  <2> QED
    BY <2>1, <2>2
<1>5. CASE UNCHANGED vars
  BY <1>5, StutterStep DEF vars, Told
<1> QED
  BY <1>1, <1>2, <1>3, <1>4, <1>5, AppendRefines, HearRefines DEF Next, Process

LEMMA InitRefines == Init => Delivery!Init
BY DEF Init, Delivery!Init, TaskState, Told, Queued

\* The queue implements TaskDelivery: repeated messages, expiring keys, failing
\* workers and calls never execute a task twice or answer what is not so.
THEOREM ImplementsDelivery == Spec => DeliversTasks
BY InitRefines, StepRefines, QueueInvariant, PTL
   DEF Spec, DeliversTasks, Delivery!Spec

-----------------------------------------------------------------------------
(* What Answered rests on: a report is not lost between the worker that      *)
(* makes it and the call that listens.                                       *)

\* A call whose task runs, and one that has received how its task ended.
Waiting(t) == client[t] = "listen" /\ outcome[t] = "running"

Reported(t) ==
    /\ client[t] = "listen"
    /\ \E i \in 1 .. Len(inbox[t]) : inbox[t][i] \in FinalStatus

\* From waiting a call goes to a final report at hand, and from there to its
\* answer, unless it leaves or its worker is lost.
Kept(t) ==
    \/ Waiting(t)' \/ Reported(t)'
    \/ client'[t] \in FinalStatus \union {"gone"}
    \/ outcome'[t] = "lost"

ReportsKept ==
    [][\A t \in Tasks : Waiting(t) \/ Reported(t) => Kept(t)]_vars

\* A report is added to what a call has received.
LEMMA AppendKeeps ==
    ASSUME TypeOK, NEW t \in Tasks, NEW u \in Tasks,
           NEW s \in FinalStatus \union {"running"},
           Report(u, s), UNCHANGED client
    PROVE  /\ Reported(t) => Reported(t)'
           /\ t = u /\ s \in FinalStatus /\ client[t] = "listen" => Reported(t)'
<1> DEFINE Status == {"running", "completed", "failed"}
<1>1. inbox \in [Tasks -> Seq(Status)] /\ s \in Status
  BY DEF TypeOK, FinalStatus
<1>2. CASE t = u /\ client[t] = "listen"
  <2>1. inbox'[t] = Append(inbox[t], s)
    BY <1>1, <1>2 DEF Report
  <2>2. /\ Len(Append(inbox[t], s)) = Len(inbox[t]) + 1
        /\ Len(inbox[t]) \in Nat
        /\ Append(inbox[t], s)[Len(inbox[t]) + 1] = s
        /\ \A i \in 1 .. Len(inbox[t]) : Append(inbox[t], s)[i] = inbox[t][i]
    BY <1>1
  <2>3. /\ Len(inbox[t]) + 1 \in 1 .. Len(inbox'[t])
        /\ \A i \in 1 .. Len(inbox[t]) : i \in 1 .. Len(inbox'[t])
    BY <2>1, <2>2
  <2> QED
    BY <1>2, <2>1, <2>2, <2>3 DEF Reported
<1>3. CASE ~(t = u /\ client[t] = "listen")
  BY <1>1, <1>3 DEF Report, Reported
<1> QED
  BY <1>2, <1>3

\* A call that reads a report other than the final one still has that one.
LEMMA HearKeeps ==
    ASSUME TypeOK, NEW t \in Tasks, NEW u \in Tasks, Hear(u),
           Waiting(t) \/ Reported(t)
    PROVE  Kept(t)
<1> USE DEF Kept
<1>1. CASE t # u
  BY <1>1 DEF Hear, TypeOK, Call, Waiting, Reported, queueVars, runVars
<1>2. CASE t = u
  <2> DEFINE Status == {"running", "completed", "failed"}
  <2>1. /\ inbox[t] \in Seq(Status) /\ inbox[t] # <<>>
        /\ inbox'[t] = Tail(inbox[t]) /\ outcome' = outcome
        /\ client'[t] = IF Head(inbox[t]) = "running" THEN "listen"
                        ELSE Head(inbox[t])
    BY <1>2 DEF TypeOK, Hear, Call, queueVars, runVars
  <2>2. /\ Head(inbox[t]) = inbox[t][1] /\ Head(inbox[t]) \in Status
        /\ Len(Tail(inbox[t])) = Len(inbox[t]) - 1 /\ Len(inbox[t]) \in Nat
        /\ \A i \in 1 .. Len(inbox[t]) : i # 1 =>
              /\ i - 1 \in 1 .. Len(inbox[t]) - 1
              /\ Tail(inbox[t])[i - 1] = inbox[t][i]
    BY <2>1
  <2>3. CASE Head(inbox[t]) # "running"
    BY <2>1, <2>2, <2>3 DEF FinalStatus
  <2>4. CASE Head(inbox[t]) = "running" /\ Waiting(t)
    BY <2>1, <2>4 DEF Waiting
  <2>5. CASE Head(inbox[t]) = "running" /\ Reported(t)
    <3>1. PICK i \in 1 .. Len(inbox[t]) : inbox[t][i] \in FinalStatus
      BY <2>5 DEF Reported
    <3>2. i # 1
      BY <2>2, <2>5, <3>1 DEF FinalStatus
    <3> QED
      BY <2>1, <2>2, <2>5, <3>1, <3>2 DEF Reported
  <2> QED
    BY <2>3, <2>4, <2>5
<1> QED
  BY <1>1, <1>2

\* A worker that starts, ends or loses its task leaves the calls of others as
\* they were, and that of its own with the report.
LEMMA WorkKeeps ==
    ASSUME QueueInv, NEW t \in Tasks, NEW w \in Workers,
           \/ Start(w) \/ HandlerCompletes(w) \/ HandlerFails(w)
           \/ HandlerReturns(w) \/ WorkerFails(w),
           Waiting(t) \/ Reported(t)
    PROVE  Kept(t)
<1> USE DEF Kept
<1>1. worker[w] # Idle /\ client' = client
  BY DEF Start, HandlerCompletes, HandlerFails, HandlerReturns, WorkerFails, Idle
<1>2. TaskAt(w) \in Tasks /\ TypeOK
  BY <1>1, BusyTask DEF QueueInv
<1>3. CASE WorkerFails(w)
  BY <1>2, <1>3 DEF WorkerFails, TypeOK, Waiting, Reported
<1>4. CASE Start(w) \/ HandlerReturns(w)
  <2>1. /\ \E s \in FinalStatus \union {"running"} : Report(TaskAt(w), s)
        /\ outcome[t] = "running" => outcome'[t] = "running"
    BY <1>2, <1>4 DEF Start, HandlerReturns, FinalStatus, TypeOK
  <2>2. Reported(t) => Reported(t)'
    BY <1>1, <1>2, <2>1, AppendKeeps
  <2> QED
    BY <1>1, <2>1, <2>2 DEF Waiting
<1>5. CASE HandlerCompletes(w) \/ HandlerFails(w)
  <2>1. PICK s \in FinalStatus : /\ Report(TaskAt(w), s)
                                 /\ outcome' = [outcome EXCEPT ![TaskAt(w)] = s]
    BY <1>5 DEF HandlerCompletes, HandlerFails, FinalStatus
  <2>2. /\ Reported(t) => Reported(t)'
        /\ t = TaskAt(w) /\ client[t] = "listen" => Reported(t)'
    BY <1>1, <1>2, <2>1, AppendKeeps
  <2>3. t # TaskAt(w) => outcome'[t] = outcome[t]
    BY <1>2, <2>1 DEF TypeOK
  <2> QED
    BY <1>1, <2>2, <2>3 DEF Waiting
<1> QED
  BY <1>3, <1>4, <1>5

\* No report to a listening call is lost on the way (publisher.go:82
\* subscribes, consumer.go:216 reports), for any number of tasks, workers and
\* messages.
THEOREM NoReportLost == Spec => ReportsKept
<1>1. ASSUME QueueInv, [Next]_vars, NEW t \in Tasks, Waiting(t) \/ Reported(t)
      PROVE  Kept(t)
  <2>1. ASSUME NEW u \in Tasks, Publish(u) \/ Append_(u) \/ Published(u)
                                \/ Subscribe(u) \/ Ages(u) \/ KeyExpires(u)
        PROVE  Kept(t)
    BY <1>1, <2>1
    DEF Publish, Append_, Published, Subscribe, Ages, KeyExpires, Call,
        queueVars, runVars, QueueInv, TypeOK, Kept, Waiting, Reported
  <2>2. ASSUME NEW u \in Tasks, Leave(u)
        PROVE  Kept(t)
    BY <1>1, <2>2
    DEF Leave, Call, queueVars, runVars, QueueInv, TypeOK, Kept, Waiting,
        Reported
  <2>3. ASSUME NEW u \in Tasks, Hear(u)
        PROVE  Kept(t)
    BY <1>1, <2>3, HearKeeps DEF QueueInv
  <2>4. ASSUME NEW w \in Workers,
               \/ Start(w) \/ HandlerCompletes(w) \/ HandlerFails(w)
               \/ HandlerReturns(w) \/ WorkerFails(w)
        PROVE  Kept(t)
    BY <1>1, <2>4, WorkKeeps
  <2>5. ASSUME NEW w \in Workers,
               Read(w) \/ Check(w) \/ Claim(w) \/ ClaimFails(w) \/ Ack(w)
        PROVE  Kept(t)
    BY <1>1, <2>5
    DEF Read, Check, Claim, ClaimFails, Ack, queueVars, Kept, Waiting, Reported
  <2>6. CASE UNCHANGED vars
    BY <1>1, <2>6 DEF vars, Kept, Waiting, Reported
  <2> QED
    BY <1>1, <2>1, <2>2, <2>3, <2>4, <2>5, <2>6 DEF Next, Process
<1>2. QueueInv /\ [Next]_vars =>
        [\A t \in Tasks : Waiting(t) \/ Reported(t) => Kept(t)]_vars
  BY <1>1
<1> QED
  BY <1>2, QueueInvariant, PTL DEF Spec, ReportsKept

=============================================================================
