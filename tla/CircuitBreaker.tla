--------------------------- MODULE CircuitBreaker ---------------------------
(***************************************************************************)
(* The circuit breaker of one channel (RedisCircuitBreaker), shared through *)
(* Redis by the goroutines of every pod.                                   *)
(*                                                                         *)
(* A goroutine asks IsOpen before it uses the channel and reports the      *)
(* outcome with RecordSuccess or RecordFailure.  Each of these is a series *)
(* of Redis commands, one action here: a GET, a SET, a DEL, the CAS script *)
(* or the buffered commands of one pipeline, which Redis executes in one   *)
(* go.  Between two of them any other goroutine may run, time may pass,    *)
(* the command may fail, or the pod may die.                               *)
(*                                                                         *)
(* Time is kept as ages and times to live in seconds, so that it may go on *)
(* forever.  The pods' clocks agree.                                       *)
(***************************************************************************)
EXTENDS Integers, FiniteSets

CONSTANTS
    Callers,         \* goroutines that use the channel
    MaxFailures,     \* consecutive failures that trip the breaker
    RateNum, RateDen,\* the failure rate that trips it, RateNum / RateDen
    MinRequests,     \* fewest requests the rate is computed from
    OpenTimeout,     \* seconds before an open breaker half-opens
    Slack,           \* 10: how much longer than that the open keys live
    Window,          \* seconds the counts live after the last report
    Faults,          \* whether commands fail and pods die
    MaxRequests      \* bound: no new call while this many are counted

ASSUME BreakerAssumption ==
    /\ MaxFailures \in Nat \ {0}
    /\ RateNum \in Nat \ {0} /\ RateDen \in Nat \ {0}
    /\ MinRequests \in Nat \ {0}
    /\ OpenTimeout \in Nat \ {0}
    /\ Slack \in Nat \ {0}
    /\ Window \in Nat \ {0}
    /\ Faults \in BOOLEAN
    /\ MaxRequests \in Nat

VARIABLES
    state,           \* breaker:state, "none" when the key does not exist
    stateAge,        \* seconds since an open state was set; 0 for the others
    openAge,         \* seconds since the time in breaker:open_at, or None
    counts,          \* breaker:counts, all 0 when the key does not exist
    countsTTL,       \* seconds breaker:counts has to live
    at,              \* the command a goroutine sends next
    why,             \* what the goroutine reads the state for
    quiet            \* history: nobody could undo the last trip when it
                     \* was dated

vars == <<state, stateAge, openAge, counts, countsTTL, at, why, quiet>>

None == -1
OpenTTL == OpenTimeout + Slack

States == {"none", "closed", "open", "half_open"}

\* idle: before IsOpen.  state, date, cas: the commands of State.  call: the
\* channel answers the request.  close, forget, clear: RecordSuccess closes the
\* breaker.  rate: RecordFailure reads the counts.  trip, stamp: it opens it.
Commands == {"idle", "state", "date", "cas", "call",
             "close", "forget", "clear", "rate", "trip", "stamp"}

NoCounts == [requests |-> 0, failures |-> 0, consecutive |-> 0]

TypeOK ==
    /\ state \in States
    /\ stateAge \in 0 .. OpenTTL - 1
    /\ openAge \in {None} \union 0 .. OpenTTL - 1
    /\ counts \in [requests : Nat, failures : Nat, consecutive : Nat]
    /\ countsTTL \in 0 .. Window
    /\ at \in [Callers -> Commands]
    /\ why \in [Callers -> {"select", "close"}]
    /\ quiet \in BOOLEAN

Init ==
    /\ state = "none" /\ stateAge = 0
    /\ openAge = None
    /\ counts = NoCounts /\ countsTTL = 0
    /\ at = [c \in Callers |-> "idle"]
    /\ why = [c \in Callers |-> "select"]
    /\ quiet = FALSE

-----------------------------------------------------------------------------
Goto(c, place) == at' = [at EXCEPT ![c] = place]

\* A goroutine is about to select a channel.  The bound counts the reports
\* that are still to come.
Begin(c) ==
    /\ at[c] = "idle"
    /\ counts.requests + Cardinality({d \in Callers : at[d] # "idle"}) < MaxRequests
    /\ Goto(c, "state")
    /\ why' = [why EXCEPT ![c] = "select"]
    /\ UNCHANGED <<state, stateAge, openAge, counts, countsTTL, quiet>>

\* Mutation: a success closes the breaker whatever state it reads.
AnsweredAny(c, s) ==
    Goto(c, IF why[c] = "select"
            THEN IF s = "open" THEN "idle" ELSE "call"
            ELSE "close")

\* What the caller of State does with its answer: IsOpen excludes an open
\* channel only, RecordSuccess closes a half-open breaker only.
Answered(c, s) ==
    Goto(c, IF why[c] = "select"
            THEN IF s = "open" THEN "idle" ELSE "call"
            ELSE IF s = "half_open" THEN "close" ELSE "idle")

\* State, first command: GET state.
ReadState(c) ==
    /\ at[c] = "state"
    /\ IF state = "open" THEN Goto(c, "date") ELSE Answered(c, state)
    /\ UNCHANGED <<state, stateAge, openAge, counts, countsTTL, why, quiet>>

\* State, second command: GET open_at and compare it with the clock.
ReadOpenAt(c) ==
    /\ at[c] = "date"
    /\ IF openAge # None /\ openAge > OpenTimeout
       THEN Goto(c, "cas")
       ELSE Answered(c, "open")
    /\ UNCHANGED <<state, stateAge, openAge, counts, countsTTL, why, quiet>>

\* Mutation: a plain SET instead of the script.
AnyState == TRUE

StillOpen == state = "open"

\* State, third command: the script that turns open into half_open and leaves
\* any other state alone.  The caller is told half_open in any case.
HalfOpen(c) ==
    /\ at[c] = "cas"
    /\ IF StillOpen
       THEN state' = "half_open" /\ stateAge' = 0
       ELSE UNCHANGED <<state, stateAge>>
    /\ Answered(c, "half_open")
    /\ UNCHANGED <<openAge, counts, countsTTL, why, quiet>>

-----------------------------------------------------------------------------
\* RecordSuccess, first pipeline: one request more, no consecutive failures,
\* and the counts live for another Window.  Then it reads the state.
RecordSuccess(c) ==
    /\ at[c] = "call"
    /\ counts' = [requests |-> counts.requests + 1,
                  failures |-> counts.failures,
                  consecutive |-> 0]
    /\ countsTTL' = Window
    /\ Goto(c, "state")
    /\ why' = [why EXCEPT ![c] = "close"]
    /\ UNCHANGED <<state, stateAge, openAge, quiet>>

\* It found the breaker half-open: SET closed, whatever the state is by now,
\* DEL open_at, DEL counts.
Close(c) ==
    /\ at[c] = "close"
    /\ state' = "closed" /\ stateAge' = 0
    /\ Goto(c, "forget")
    /\ UNCHANGED <<openAge, counts, countsTTL, why, quiet>>

Forget(c) ==
    /\ at[c] = "forget"
    /\ openAge' = None
    /\ Goto(c, "clear")
    /\ UNCHANGED <<state, stateAge, counts, countsTTL, why, quiet>>

Clear(c) ==
    /\ at[c] = "clear"
    /\ counts' = NoCounts /\ countsTTL' = 0
    /\ Goto(c, "idle")
    /\ UNCHANGED <<state, stateAge, openAge, why, quiet>>

\* RecordFailure, the pipeline: the answer of the third command decides.
RecordFailure(c) ==
    /\ at[c] = "call"
    /\ counts' = [requests |-> counts.requests + 1,
                  failures |-> counts.failures + 1,
                  consecutive |-> counts.consecutive + 1]
    /\ countsTTL' = Window
    /\ Goto(c, IF counts'.consecutive >= MaxFailures THEN "trip" ELSE "rate")
    /\ UNCHANGED <<state, stateAge, openAge, why, quiet>>

\* RecordFailure: too few in a row, so it reads the counts again for the rate.
ReadRate(c) ==
    /\ at[c] = "rate"
    /\ Goto(c, IF /\ counts.requests >= MinRequests
                  /\ counts.failures * RateDen > counts.requests * RateNum
               THEN "trip" ELSE "idle")
    /\ UNCHANGED <<state, stateAge, openAge, counts, countsTTL, why, quiet>>

\* RecordFailure: SET state open with its time to live.
Trip(c) ==
    /\ at[c] = "trip"
    /\ state' = "open" /\ stateAge' = 0
    /\ Goto(c, "stamp")
    /\ UNCHANGED <<openAge, counts, countsTTL, why, quiet>>

\* Goroutines that may still overwrite the state or remove its date: they have
\* decided so on what they read before.
Undoing == {c \in Callers : at[c] \in {"cas", "close", "forget"}}

\* RecordFailure: SET open_at.
Stamp(c) ==
    /\ at[c] = "stamp"
    /\ openAge' = 0
    /\ quiet' = (state = "open" /\ stateAge < Slack /\ Undoing = {})
    /\ Goto(c, "idle")
    /\ UNCHANGED <<state, stateAge, counts, countsTTL, why>>

\* RecordResultWithError: an error of the client, a timeout or a 4xx is not
\* reported to the breaker.
NotCounted(c) ==
    /\ at[c] = "call"
    /\ Goto(c, "idle")
    /\ UNCHANGED <<state, stateAge, openAge, counts, countsTTL, why, quiet>>

-----------------------------------------------------------------------------
\* A command fails and changes nothing.  A state that cannot be read counts as
\* closed, a date that cannot be read as too young, the script as done; the
\* errors of SET and DEL are ignored, a pipeline's ends the report.
CommandFails(c) ==
    /\ Faults
    /\ \/ at[c] = "state" /\ Answered(c, "closed")
       \/ at[c] = "date"  /\ Answered(c, "open")
       \/ at[c] = "cas"   /\ Answered(c, "half_open")
       \/ at[c] = "close" /\ Goto(c, "forget")
       \/ at[c] = "forget" /\ Goto(c, "clear")
       \/ at[c] = "trip"  /\ Goto(c, "stamp")
       \/ at[c] \in {"call", "rate", "clear", "stamp"} /\ Goto(c, "idle")
    /\ UNCHANGED <<state, stateAge, openAge, counts, countsTTL, why, quiet>>

\* The pod dies.
Crash(c) ==
    /\ Faults
    /\ at[c] # "idle"
    /\ Goto(c, "idle")
    /\ UNCHANGED <<state, stateAge, openAge, counts, countsTTL, why, quiet>>

\* An administrator resets the breaker: one DEL of the three keys.
Reset ==
    /\ state # "none"
    /\ state' = "none" /\ stateAge' = 0
    /\ openAge' = None
    /\ counts' = NoCounts /\ countsTTL' = 0
    /\ quiet' = FALSE
    /\ UNCHANGED <<at, why>>

\* Mutation: SET open without a time to live.
KeepState == UNCHANGED <<state, stateAge>>

\* The key of an open state expires; the other states are set without a TTL.
AgeState ==
    IF state = "open"
    THEN IF stateAge + 1 < OpenTTL
         THEN stateAge' = stateAge + 1 /\ UNCHANGED state
         ELSE stateAge' = 0 /\ state' = "none"
    ELSE UNCHANGED <<state, stateAge>>

\* A second passes.
Tick ==
    /\ AgeState
    /\ openAge' = IF openAge # None /\ openAge + 1 < OpenTTL
                  THEN openAge + 1 ELSE None
    /\ countsTTL' = IF countsTTL = 0 THEN 0 ELSE countsTTL - 1
    /\ counts' = IF countsTTL > 1 THEN counts ELSE NoCounts
    /\ UNCHANGED <<at, why, quiet>>

\* The next command of a goroutine, or the outcome of its call.
Step(c) ==
    \/ ReadState(c) \/ ReadOpenAt(c) \/ HalfOpen(c)
    \/ RecordSuccess(c) \/ Close(c) \/ Forget(c) \/ Clear(c)
    \/ RecordFailure(c) \/ ReadRate(c) \/ Trip(c) \/ Stamp(c)
    \/ NotCounted(c)

Next ==
    \/ \E c \in Callers : Begin(c) \/ Step(c) \/ CommandFails(c) \/ Crash(c)
    \/ Reset
    \/ Tick

\* Time passes.  Nothing else is assumed: no goroutine has to go on.
Spec == Init /\ [][Next]_vars /\ WF_vars(Tick)

-----------------------------------------------------------------------------
\* A trip that nobody was about to undo when it was dated keeps the channel
\* out for all of OpenTimeout, whatever goroutines do that come later: the
\* ones whose calls end late, that trip again, or that read the state.
TripHolds ==
    quiet /\ openAge \in 0 .. OpenTimeout => state = "open"

\* Why: the date is young, so nobody decides to half-open; the state key
\* outlives it; and nobody is left who decided before.
QuietTrip ==
    quiet /\ openAge \in 0 .. OpenTimeout =>
        /\ state = "open"
        /\ stateAge < openAge + Slack
        /\ Undoing = {}

\* A breaker half-opens from open alone: a goroutine that saw it open and too
\* old does not send a breaker that others have closed since back to half-open.
NoProbeOfClosed ==
    [][state' = "half_open" => state \in {"open", "half_open"}]_vars

\* A breaker does not stay open for good: calls that end late open it again, a
\* pod dies between setting the state and dating it, or a goroutine that
\* closes it removes the date of a trip that came in between.  It is left for
\* half-open, or its key expires, once Redis can be read.
NeverStuckOpen ==
    (\A c \in Callers : <>[][~CommandFails(c)]_vars) => []<>(state # "open")
=============================================================================
