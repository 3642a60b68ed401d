--------------------------- MODULE ChannelProofs ----------------------------
(***************************************************************************)
(* Proofs about what happens to channels: their breakers (CircuitBreaker,   *)
(* for any number of goroutines and any configuration), and the requests of *)
(* the main API that try one after the other (Completions, for any number   *)
(* of requests, channels and attempts).                                     *)
(***************************************************************************)
EXTENDS CircuitBreaker, Completions, FiniteSetTheorems, TLAPS

-----------------------------------------------------------------------------
(* Breakers.                                                                *)

\* Every step of State leads to a command that exists.
LEMMA AnsweredType ==
    ASSUME TypeOK, NEW c \in Callers, NEW s \in States, Answered(c, s)
    PROVE  /\ at' \in [Callers -> Commands]
           /\ at' = [at EXCEPT ![c] = at'[c]]
           /\ at'[c] \in {"idle", "call", "close"}
           /\ at'[c] = "close" => s = "half_open"
  BY DEF TypeOK, Answered, Goto, Commands, States

\* A command that fails changes the place of its goroutine alone, and leaves it
\* undoing a trip only where it was before.
LEMMA FailsType ==
    ASSUME TypeOK, NEW c \in Callers, CommandFails(c)
    PROVE  /\ at' \in [Callers -> Commands]
           /\ at' = [at EXCEPT ![c] = at'[c]]
           /\ at'[c] \in {"cas", "close", "forget"} =>
                  at[c] \in {"cas", "close", "forget"}
  <1>1. CASE at[c] \in {"state", "date", "cas"}
    <2>1. \E s \in {"closed", "open", "half_open"} :
              Answered(c, s) /\ (s = "half_open" => at[c] = "cas")
      BY <1>1 DEF CommandFails
    <2>2. PICK s \in {"closed", "open", "half_open"} :
              Answered(c, s) /\ (s = "half_open" => at[c] = "cas")
      BY <2>1
    <2>3. s \in States
      BY DEF States
    <2> QED
      BY <2>2, <2>3, AnsweredType
  <1>2. CASE at[c] \notin {"state", "date", "cas"}
    BY <1>2 DEF TypeOK, CommandFails, Goto, Commands
  <1> QED
    BY <1>1, <1>2

\* The breaker's variables keep their types: ages stay below the time to live
\* of their keys.
THEOREM TypeCorrect == Spec => []TypeOK
  <1>1. ASSUME Init PROVE TypeOK
    <2>1. 0 \in 0 .. OpenTTL - 1 /\ 0 \in 0 .. Window
      BY BreakerAssumption DEF OpenTTL
    <2>2. NoCounts \in [requests : Nat, failures : Nat, consecutive : Nat]
      BY DEF NoCounts
    <2>3. at \in [Callers -> Commands] /\ why \in [Callers -> {"select", "close"}]
      BY <1>1 DEF Init, Commands
    <2> QED
      BY <1>1, <2>1, <2>2, <2>3 DEF Init, TypeOK, States
  <1>2. TypeOK /\ [Next]_vars => TypeOK'
    <2> SUFFICES ASSUME TypeOK, [Next]_vars
                 PROVE  TypeOK'
      OBVIOUS
    <2> USE BreakerAssumption
    <2>1. ASSUME NEW c \in Callers, Begin(c)
          PROVE  TypeOK'
      BY <2>1 DEF TypeOK, Begin, Goto, Commands
    <2>2. ASSUME NEW c \in Callers, ReadState(c)
          PROVE  TypeOK'
      <3>1. CASE state = "open"
        BY <2>2, <3>1 DEF TypeOK, ReadState, Goto, Commands
      <3>2. CASE state # "open"
        <4>1. at' \in [Callers -> Commands]
          BY <2>2, <3>2, AnsweredType DEF ReadState, TypeOK
        <4> QED
          BY <2>2, <4>1 DEF TypeOK, ReadState
      <3> QED
        BY <3>1, <3>2
    <2>3. ASSUME NEW c \in Callers, ReadOpenAt(c)
          PROVE  TypeOK'
      <3>1. at' \in [Callers -> Commands]
        <4>1. CASE openAge # None /\ openAge > OpenTimeout
          BY <2>3, <4>1 DEF TypeOK, ReadOpenAt, Goto, Commands
        <4>2. CASE ~(openAge # None /\ openAge > OpenTimeout)
          <5>1. Answered(c, "open") /\ "open" \in States
            BY <2>3, <4>2 DEF ReadOpenAt, States
          <5> QED
            BY <5>1, AnsweredType
        <4> QED
          BY <4>1, <4>2
      <3> QED
        BY <2>3, <3>1 DEF TypeOK, ReadOpenAt
    <2>4. ASSUME NEW c \in Callers, HalfOpen(c)
          PROVE  TypeOK'
      <3>1. Answered(c, "half_open") /\ "half_open" \in States
        BY <2>4 DEF HalfOpen, States
      <3>2. at' \in [Callers -> Commands]
        BY <3>1, AnsweredType
      <3>3. state' \in States /\ stateAge' \in 0 .. OpenTTL - 1
        BY <2>4 DEF TypeOK, HalfOpen, States, OpenTTL
      <3> QED
        BY <2>4, <3>2, <3>3 DEF TypeOK, HalfOpen
    <2>5. ASSUME NEW c \in Callers, RecordSuccess(c) \/ RecordFailure(c)
          PROVE  TypeOK'
      <3>1. Window \in 0 .. Window
        OBVIOUS
      <3>2. counts' \in [requests : Nat, failures : Nat, consecutive : Nat]
        BY <2>5 DEF TypeOK, RecordSuccess, RecordFailure
      <3>3. at' \in [Callers -> Commands] /\ why' \in [Callers -> {"select", "close"}]
        BY <2>5 DEF TypeOK, RecordSuccess, RecordFailure, Goto, Commands
      <3> QED
        BY <2>5, <3>1, <3>2, <3>3 DEF TypeOK, RecordSuccess, RecordFailure
    <2>6. ASSUME NEW c \in Callers, Close(c) \/ Forget(c) \/ Clear(c)
          PROVE  TypeOK'
      BY <2>6 DEF TypeOK, Close, Forget, Clear, Goto, Commands, States,
                  OpenTTL, None, NoCounts
    <2>7. ASSUME NEW c \in Callers,
                 ReadRate(c) \/ Trip(c) \/ Stamp(c) \/ NotCounted(c)
          PROVE  TypeOK'
      <3>1. 0 \in 0 .. OpenTTL - 1
        BY DEF OpenTTL
      <3>2. at' \in [Callers -> Commands]
        BY <2>7 DEF TypeOK, ReadRate, Trip, Stamp, NotCounted, Goto, Commands
      <3>3. quiet' \in BOOLEAN
        BY <2>7 DEF TypeOK, ReadRate, Trip, Stamp, NotCounted
      <3> QED
        BY <2>7, <3>1, <3>2, <3>3
        DEF TypeOK, ReadRate, Trip, Stamp, NotCounted, States
    <2>8. ASSUME NEW c \in Callers, CommandFails(c)
          PROVE  TypeOK'
      BY <2>8, FailsType DEF TypeOK, CommandFails
    <2>9. ASSUME NEW c \in Callers, Crash(c)
          PROVE  TypeOK'
      BY <2>9 DEF TypeOK, Crash, Goto, Commands
    <2>10. CASE Reset
      <3>1. 0 \in 0 .. OpenTTL - 1 /\ 0 \in 0 .. Window
        BY DEF OpenTTL
      <3> QED
        BY <2>10, <3>1 DEF TypeOK, Reset, States, NoCounts
    <2>11. CASE Tick
      BY <2>11 DEF TypeOK, Tick, AgeState, States, OpenTTL, None, NoCounts
    <2>12. CASE UNCHANGED vars
      BY <2>12 DEF TypeOK, vars
    <2> QED
      BY <2>1, <2>2, <2>3, <2>4, <2>5, <2>6, <2>7, <2>8, <2>9, <2>10, <2>11,
         <2>12 DEF Next, Step
  <1> QED
    BY <1>1, <1>2, PTL DEF Spec

\* A trip that nobody was about to undo when it was dated keeps the channel out
\* for all of OpenTimeout.  TripHolds is not inductive: a goroutine that has
\* decided to half-open or to close would break it, and so would the expiry of
\* the state before its date; QuietTrip rules both out.
THEOREM TripKept == Spec => []TripHolds
  <1>1. Init => QuietTrip
    BY DEF Init, QuietTrip
  <1>2. TypeOK /\ QuietTrip /\ [Next]_vars => QuietTrip'
    <2> SUFFICES ASSUME TypeOK, QuietTrip, [Next]_vars
                 PROVE  QuietTrip'
      OBVIOUS
    <2> USE BreakerAssumption
    \* The keys stay as they are and nobody new decides to undo the trip.
    <2>a. ASSUME UNCHANGED <<state, stateAge, openAge, quiet>>,
                 quiet /\ openAge \in 0 .. OpenTimeout => Undoing' \subseteq Undoing
          PROVE  QuietTrip'
      BY <2>a DEF QuietTrip
    <2>b. ASSUME NEW c \in Callers, at' = [at EXCEPT ![c] = at'[c]],
                 at'[c] \in {"cas", "close", "forget"} =>
                     at[c] \in {"cas", "close", "forget"}
          PROVE  Undoing' \subseteq Undoing
      BY <2>b DEF Undoing, TypeOK
    <2>1. ASSUME NEW c \in Callers,
                 \/ Begin(c) \/ RecordSuccess(c) \/ RecordFailure(c)
                 \/ Clear(c) \/ ReadRate(c) \/ NotCounted(c) \/ Crash(c)
          PROVE  QuietTrip'
      <3>1. /\ UNCHANGED <<state, stateAge, openAge, quiet>>
            /\ at' = [at EXCEPT ![c] = at'[c]]
            /\ at'[c] \notin {"cas", "close", "forget"}
        BY <2>1 DEF TypeOK, Begin, RecordSuccess, RecordFailure, Clear, ReadRate,
                    NotCounted, Crash, Goto
      <3> QED
        BY <3>1, <2>a, <2>b
    <2>2. ASSUME NEW c \in Callers, ReadState(c)
          PROVE  QuietTrip'
      <3>1. UNCHANGED <<state, stateAge, openAge, quiet>>
        BY <2>2 DEF ReadState
      <3>2. CASE state = "open"
        <4>1. at' = [at EXCEPT ![c] = at'[c]] /\ at'[c] = "date"
          BY <2>2, <3>2 DEF TypeOK, ReadState, Goto
        <4> QED
          BY <3>1, <4>1, <2>a, <2>b
      <3>3. CASE state # "open"
        BY <3>1, <3>3 DEF QuietTrip
      <3> QED
        BY <3>2, <3>3
    <2>3. ASSUME NEW c \in Callers, ReadOpenAt(c)
          PROVE  QuietTrip'
      <3>1. UNCHANGED <<state, stateAge, openAge, quiet>>
        BY <2>3 DEF ReadOpenAt
      <3>2. CASE openAge \in 0 .. OpenTimeout
        <4>1. Answered(c, "open") /\ "open" \in States
          BY <2>3, <3>2 DEF ReadOpenAt, States
        <4>2. at' = [at EXCEPT ![c] = at'[c]] /\ at'[c] \in {"idle", "call"}
          BY <4>1, AnsweredType
        <4> QED
          BY <3>1, <4>2, <2>a, <2>b
      <3>3. CASE openAge \notin 0 .. OpenTimeout
        BY <3>1, <3>3 DEF QuietTrip
      <3> QED
        BY <3>2, <3>3
    <2>4. ASSUME NEW c \in Callers, HalfOpen(c) \/ Close(c) \/ Forget(c)
          PROVE  QuietTrip'
      <3>1. c \in Undoing
        BY <2>4 DEF Undoing, HalfOpen, Close, Forget
      <3>2. quiet' = quiet /\ (openAge' = openAge \/ openAge' = None)
        BY <2>4 DEF HalfOpen, Close, Forget
      <3>3. ~(quiet /\ openAge \in 0 .. OpenTimeout)
        BY <3>1 DEF QuietTrip
      <3> QED
        BY <3>2, <3>3 DEF QuietTrip, None
    <2>5. ASSUME NEW c \in Callers, Trip(c)
          PROVE  QuietTrip'
      <3>1. at' = [at EXCEPT ![c] = "stamp"]
        BY <2>5 DEF Trip, Goto
      <3>2. Undoing' \subseteq Undoing
        BY <3>1, <2>b DEF TypeOK
      <3>3. openAge \in 0 .. OpenTimeout => 0 < openAge + Slack
        OBVIOUS
      <3> QED
        BY <2>5, <3>2, <3>3 DEF QuietTrip, Trip
    <2>6. ASSUME NEW c \in Callers, Stamp(c)
          PROVE  QuietTrip'
      <3>1. at' = [at EXCEPT ![c] = "idle"]
        BY <2>6 DEF Stamp, Goto
      <3>2. Undoing' \subseteq Undoing
        BY <3>1, <2>b DEF TypeOK
      <3>3. stateAge < Slack => stateAge < 0 + Slack
        BY DEF TypeOK
      <3> QED
        BY <2>6, <3>2, <3>3 DEF QuietTrip, Stamp
    <2>7. ASSUME NEW c \in Callers, CommandFails(c)
          PROVE  QuietTrip'
      BY <2>7, <2>a, <2>b, FailsType DEF CommandFails
    <2>8. CASE Reset
      BY <2>8 DEF Reset, QuietTrip
    <2>9. CASE Tick
      <3>1. quiet' = quiet /\ Undoing' = Undoing
        BY <2>9 DEF Tick, Undoing
      <3> SUFFICES ASSUME quiet, openAge' \in 0 .. OpenTimeout
                   PROVE  state' = "open" /\ stateAge' < openAge' + Slack
                          /\ Undoing = {}
        BY <3>1 DEF QuietTrip
      <3>2. openAge \in 0 .. OpenTimeout /\ openAge' = openAge + 1
        BY <2>9 DEF Tick, TypeOK, None, OpenTTL
      <3>3. state = "open" /\ stateAge < openAge + Slack /\ Undoing = {}
        BY <3>2 DEF QuietTrip
      <3>4. stateAge + 1 < OpenTTL
        BY <3>2, <3>3 DEF TypeOK, OpenTTL
      <3> QED
        BY <2>9, <3>2, <3>3, <3>4 DEF Tick, AgeState, TypeOK
    <2>10. CASE UNCHANGED vars
      BY <2>10 DEF QuietTrip, Undoing, vars
    <2> QED
      BY <2>1, <2>2, <2>3, <2>4, <2>5, <2>6, <2>7, <2>8, <2>9, <2>10
      DEF Next, Step
  <1>3. QuietTrip => TripHolds
    BY DEF QuietTrip, TripHolds
  <1> QED
    BY <1>1, <1>2, <1>3, TypeCorrect, PTL DEF Spec

\* Only the script of State writes half_open, and only over open.
THEOREM ClosedNotProbed == Spec => NoProbeOfClosed
  <1>1. TypeOK /\ [Next]_vars =>
            (state' = "half_open" => state \in {"open", "half_open"})
    <2> SUFFICES ASSUME TypeOK, [Next]_vars, state' = "half_open"
                 PROVE  state \in {"open", "half_open"}
      OBVIOUS
    <2>1. ASSUME NEW c \in Callers, HalfOpen(c)
          PROVE  state \in {"open", "half_open"}
      BY <2>1 DEF HalfOpen, StillOpen
    <2>2. ASSUME NEW c \in Callers, Step(c), ~HalfOpen(c)
          PROVE  state \in {"open", "half_open"}
      BY <2>2 DEF Step, ReadState, ReadOpenAt, RecordSuccess, Close, Forget,
                  Clear, RecordFailure, ReadRate, Trip, Stamp, NotCounted
    <2>3. ASSUME NEW c \in Callers, Begin(c) \/ CommandFails(c) \/ Crash(c)
          PROVE  state \in {"open", "half_open"}
      BY <2>3 DEF Begin, CommandFails, Crash
    <2>4. CASE Reset \/ Tick
      BY <2>4 DEF Reset, Tick, AgeState
    <2> QED
      BY <2>1, <2>2, <2>3, <2>4 DEF Next, vars
  <1> QED
    BY <1>1, TypeCorrect, PTL DEF Spec, NoProbeOfClosed

-----------------------------------------------------------------------------
(* Requests of the main API.                                                *)

\* Where a request still looks for an answer.
Trying == {"start", "select"} \union InFlight

\* What a request does, and what happens to it.
Act(r) ==
    \/ Freeze(r) \/ SelectRouted(r) \/ SelectCoding(r) \/ SelectNone(r)
    \/ ChatFails(r) \/ FIMFails(r) \/ Answer(r) \/ Connect(r)
    \/ StreamEnds(r) \/ StreamBreaks(r)
    \/ Release(r) \/ Settle(r) \/ Commission(r)
    \/ CronRelease(r) \/ Disconnect(r) \/ PodDies(r)

\* What is known of a request from where it stands: one that still tries has
\* attempts left and no result, a result decides between charge and release.
Placed(r) ==
    /\ stage[r] \in Trying =>
          /\ tries[r] < MaxRetries
          /\ result[r] = Nothing
    /\ stage[r] = "start" => hold[r] = Nothing
    /\ stage[r] = "settle" => result[r] \in {"answer", "broken"}
    /\ stage[r] = "release" => result[r] \in {"unmetered", "failed"}

RequestsInv == CompletionsTypeOK /\ \A r \in Requests : Placed(r)

LEMMA NextActs == CompletionsNext <=> \E r \in Requests : Act(r)
  BY DEF CompletionsNext, Act

\* Whoever counts or uncounts a channel leaves the types of the attempt.
LEMMA RecordType ==
    ASSUME CompletionsTypeOK, NEW r \in Requests,
           RecordResult(r) \/ NoResult(r)
    PROVE  /\ chan' \in [Requests -> Channels \union {Nothing}]
           /\ routed' \in [Requests -> BOOLEAN]
           /\ load' \in [Channels -> Int]
           /\ lost' \subseteq Requests
           /\ uncalled' \in [Requests -> Channels \union {Nothing}]
  <1>1. CASE RecordResult(r)
    <2>1. load' \in [Channels -> Int]
      <3>1. load \in [Channels -> Int]
        BY DEF CompletionsTypeOK
      <3>2. load' = [load EXCEPT ![chan[r]] = load[chan[r]] - 1]
        BY <1>1 DEF RecordResult
      <3>3. \A c \in Channels : load[c] - 1 \in Int
        BY <3>1
      <3> QED
        BY <3>1, <3>2, <3>3
    <2>2. /\ chan' \in [Requests -> Channels \union {Nothing}]
          /\ routed' \in [Requests -> BOOLEAN] /\ lost' \subseteq Requests
      BY <1>1 DEF CompletionsTypeOK, RecordResult
    <2>3. uncalled' \in [Requests -> Channels \union {Nothing}]
      BY <1>1 DEF CompletionsTypeOK, RecordResult
    <2> QED
      BY <2>1, <2>2, <2>3
  <1>2. CASE NoResult(r)
    BY <1>2 DEF CompletionsTypeOK, NoResult
  <1> QED
    BY <1>1, <1>2

\* The choice of a channel and the attempts on it keep the types.
LEMMA AttemptType ==
    ASSUME RequestsInv, NEW r \in Requests,
           \/ Freeze(r) \/ SelectRouted(r) \/ SelectCoding(r)
           \/ SelectNone(r) \/ ChatFails(r) \/ FIMFails(r) \/ Answer(r)
           \/ Connect(r) \/ StreamEnds(r) \/ StreamBreaks(r)
    PROVE  CompletionsTypeOK'
  <1> USE DEF RequestsInv, Places, Continue, Result, attempt, money
  <1>1. CASE Freeze(r)
    BY <1>1 DEF CompletionsTypeOK, Freeze
  <1>2. CASE SelectRouted(r)
    BY <1>2 DEF CompletionsTypeOK, SelectRouted
  <1>3. CASE SelectCoding(r)
    BY <1>3 DEF CompletionsTypeOK, SelectCoding
  <1>4. CASE SelectNone(r)
    BY <1>4 DEF CompletionsTypeOK, SelectNone
  <1>5. CASE ChatFails(r)
    <2>1. tries[r] \in Nat /\ tries[r] + 1 \in 0..MaxRetries
      BY <1>5, CompletionsAssumption
      DEF CompletionsTypeOK, Placed, Trying, InFlight, ChatFails
    <2> QED
      BY <1>5, <2>1, RecordType DEF CompletionsTypeOK, ChatFails
  <1>6. CASE FIMFails(r)
    BY <1>6, RecordType DEF CompletionsTypeOK, FIMFails
  <1>7. CASE Answer(r)
    BY <1>7, RecordType DEF CompletionsTypeOK, Answer
  <1>8. CASE Connect(r)
    BY <1>8 DEF CompletionsTypeOK, Connect
  <1>9. CASE StreamEnds(r)
    BY <1>9, RecordType DEF CompletionsTypeOK, StreamEnds, StreamResult
  <1>10. CASE StreamBreaks(r)
    BY <1>10, RecordType DEF CompletionsTypeOK, StreamBreaks, StreamResult
  <1> QED
    BY <1>1, <1>2, <1>3, <1>4, <1>5, <1>6, <1>7, <1>8, <1>9, <1>10

\* So do its end and what happens beside it.
LEMMA ClosingType ==
    ASSUME CompletionsTypeOK, NEW r \in Requests,
           \/ Release(r) \/ Settle(r) \/ Commission(r)
           \/ CronRelease(r) \/ Disconnect(r) \/ PodDies(r)
    PROVE  CompletionsTypeOK'
  <1> USE DEF Places, Continue, attempt, money
  <1>1. GivenBack(r)
          \in [Requests -> {Nothing, "FROZEN", "SETTLED", "RELEASED"}]
    BY DEF CompletionsTypeOK, GivenBack
  <1>2. CASE Release(r)
    BY <1>1, <1>2 DEF CompletionsTypeOK, Release, ReleaseFrozen
  <1>3. CASE Settle(r)
    <2>1. ASSUME NEW cost \in {0, 1}, Charge(r, cost) \/ ChargeFails(r, cost),
                 Continue(r, IF cost > 0 THEN "commission" ELSE "end")
          PROVE  CompletionsTypeOK'
      BY <1>3, <2>1 DEF CompletionsTypeOK, Settle, Charge, ChargeFails
    <2>2. ASSUME Unpriced(r), Continue(r, "end")
          PROVE  CompletionsTypeOK'
      BY <1>1, <1>3, <2>2 DEF CompletionsTypeOK, Settle, Unpriced
    <2> QED
      BY <1>3, <2>1, <2>2 DEF Settle
  <1>4. CASE Commission(r)
    BY <1>4 DEF CompletionsTypeOK, Commission
  <1>5. CASE CronRelease(r) \/ Disconnect(r)
    BY <1>5 DEF CompletionsTypeOK, CronRelease, Disconnect
  <1>6. CASE PodDies(r)
    BY <1>6 DEF CompletionsTypeOK, PodDies
  <1> QED
    BY <1>2, <1>3, <1>4, <1>5, <1>6

\* What the statements of one request change of another is nothing but the
\* load of its channel.
LEMMA OthersKept ==
    ASSUME CompletionsTypeOK, NEW r \in Requests, Act(r),
           NEW q \in Requests, q # r
    PROVE  /\ stage'[q] = stage[q] /\ kind'[q] = kind[q]
           /\ hold'[q] = hold[q] /\ tries'[q] = tries[q]
           /\ chan'[q] = chan[q] /\ routed'[q] = routed[q]
           /\ result'[q] = result[q] /\ bill'[q] = bill[q]
           /\ charges'[q] = charges[q] /\ commissions'[q] = commissions[q]
           /\ uncalled'[q] = uncalled[q]
           /\ q \in unlucky' <=> q \in unlucky
           /\ q \in died' <=> q \in died
           /\ q \in lost' <=> q \in lost
  <1> USE DEF CompletionsTypeOK, Continue, Result, attempt, money
  <1>1. CASE \/ Freeze(r) \/ SelectRouted(r) \/ SelectCoding(r)
             \/ SelectNone(r) \/ Connect(r)
    BY <1>1 DEF Freeze, SelectRouted, SelectCoding, SelectNone, Connect
  <1>2. CASE \/ ChatFails(r) \/ FIMFails(r) \/ Answer(r)
             \/ StreamEnds(r) \/ StreamBreaks(r)
    <2>1. CASE RecordResult(r)
      BY <1>2, <2>1
      DEF RecordResult, ChatFails, FIMFails, Answer, StreamEnds, StreamBreaks
    <2>2. CASE NoResult(r)
      BY <1>2, <2>2
      DEF NoResult, ChatFails, FIMFails, Answer, StreamEnds, StreamBreaks
    <2> QED
      BY <1>2, <2>1, <2>2 DEF ChatFails, FIMFails, Answer, StreamEnds,
                              StreamBreaks, StreamResult
  <1>3. CASE Release(r)
    BY <1>3 DEF Release, ReleaseFrozen, GivenBack
  <1>4. CASE Settle(r)
    BY <1>4 DEF Settle, Charge, ChargeFails, Unpriced, GivenBack
  <1>5. CASE \/ Commission(r) \/ CronRelease(r) \/ Disconnect(r)
             \/ PodDies(r)
    BY <1>5 DEF Commission, CronRelease, Disconnect, PodDies
  <1> QED
    BY <1>1, <1>2, <1>3, <1>4, <1>5 DEF Act

\* The places of a request change with what is known of it.
LEMMA PlacedStep ==
    ASSUME RequestsInv, NEW r \in Requests, Act(r)
    PROVE  Placed(r)'
  <1> USE DEF RequestsInv, CompletionsTypeOK, Placed, Trying, InFlight, Places,
              Continue, Result, attempt, money
  <1>1. CASE Freeze(r)
    BY <1>1 DEF Freeze
  <1>2. CASE SelectRouted(r) \/ SelectCoding(r) \/ SelectNone(r)
    BY <1>2 DEF SelectRouted, SelectCoding, SelectNone
  <1>3. CASE ChatFails(r) \/ FIMFails(r)
    BY <1>3 DEF ChatFails, FIMFails
  <1>4. CASE Answer(r) \/ Connect(r)
    BY <1>4 DEF Answer, Connect
  <1>5. CASE StreamEnds(r) \/ StreamBreaks(r)
    BY <1>5 DEF StreamEnds, StreamBreaks
  <1>6. CASE Release(r) \/ Commission(r)
    BY <1>6 DEF Release, Commission
  <1>7. CASE Settle(r)
    BY <1>7 DEF Settle
  <1>8. CASE CronRelease(r)
    BY <1>8 DEF CronRelease, Nothing
  <1>9. CASE Disconnect(r) \/ PodDies(r)
    BY <1>9 DEF Disconnect, PodDies
  <1> QED
    BY <1>1, <1>2, <1>3, <1>4, <1>5, <1>6, <1>7, <1>8, <1>9 DEF Act

LEMMA RequestsPlaced == CompletionsSpec => []RequestsInv
  <1>1. ASSUME CompletionsInit PROVE RequestsInv
    <2>1. 0 \in 0..MaxRetries /\ 0 < MaxRetries
      BY CompletionsAssumption
    <2>2. CompletionsTypeOK
      BY <1>1, <2>1 DEF CompletionsInit, CompletionsTypeOK, Places
    <2>3. ASSUME NEW r \in Requests PROVE Placed(r)
      BY <1>1, <2>1 DEF CompletionsInit, Placed, Trying, InFlight
    <2> QED
      BY <2>2, <2>3 DEF RequestsInv
  <1>2. RequestsInv /\ [CompletionsNext]_completionsVars => RequestsInv'
    <2> SUFFICES ASSUME RequestsInv, [CompletionsNext]_completionsVars
                 PROVE  RequestsInv'
      OBVIOUS
    <2>1. ASSUME NEW r \in Requests, Act(r)
          PROVE  RequestsInv'
      <3>1. CompletionsTypeOK'
        BY <2>1, AttemptType, ClosingType DEF Act, RequestsInv
      <3>2. ASSUME NEW q \in Requests PROVE Placed(q)'
        <4>1. CASE q = r
          BY <2>1, <4>1, PlacedStep
        <4>2. CASE q # r
          BY <2>1, <4>2, OthersKept DEF RequestsInv, Placed
        <4> QED
          BY <4>1, <4>2
      <3> QED
        BY <3>1, <3>2 DEF RequestsInv
    <2>2. CASE UNCHANGED completionsVars
      BY <2>2 DEF completionsVars, RequestsInv, CompletionsTypeOK, Placed
    <2> QED
      BY <2>1, <2>2, NextActs
  <1> QED
    BY <1>1, <1>2, PTL DEF CompletionsSpec

\* The state of the requests keeps its types; above all a request never tries
\* more channels than the failover loop allows (completions_handler.go:519).
THEOREM CompletionsTypeCorrect == CompletionsSpec => []CompletionsTypeOK
  <1>1. RequestsInv => CompletionsTypeOK
    BY DEF RequestsInv
  <1> QED
    BY <1>1, RequestsPlaced, PTL

\* Money is taken and commissions are started once, where the handler settles,
\* and nothing is charged to a hold that is still open.
Charged(r) ==
    /\ charges[r] \in {0, 1} /\ commissions[r] \in {0, 1}
    /\ charges[r] = 1 =>
          /\ stage[r] \in {"commission", "end"}
          /\ hold[r] \in {Nothing, "SETTLED"}
          /\ result[r] \in {"answer", "broken"}
    /\ commissions[r] = 1 => stage[r] = "end"
    /\ stage[r] = "commission" \/ commissions[r] = 1
       => bill[r] \in {"settled", "deduct_failed"}

\* The attempts on the channels come before every charge.
LEMMA ChargedTries ==
    ASSUME CompletionsTypeOK, NEW r \in Requests, Charged(r),
           \/ Freeze(r) \/ SelectRouted(r) \/ SelectCoding(r)
           \/ SelectNone(r) \/ ChatFails(r) \/ FIMFails(r) \/ Answer(r)
           \/ Connect(r) \/ StreamEnds(r) \/ StreamBreaks(r)
    PROVE  Charged(r)'
  <1> USE DEF CompletionsTypeOK, Charged, Continue, Result, attempt, money
  <1>1. CASE Freeze(r)
    BY <1>1 DEF Freeze
  <1>2. CASE SelectRouted(r) \/ SelectCoding(r) \/ SelectNone(r)
    BY <1>2 DEF SelectRouted, SelectCoding, SelectNone
  <1>3. CASE ChatFails(r) \/ FIMFails(r)
    BY <1>3 DEF ChatFails, FIMFails
  <1>4. CASE Answer(r) \/ Connect(r)
    BY <1>4 DEF Answer, Connect
  <1>5. CASE StreamEnds(r) \/ StreamBreaks(r)
    BY <1>5 DEF StreamEnds, StreamBreaks
  <1> QED
    BY <1>1, <1>2, <1>3, <1>4, <1>5

\* The charge takes the hold along with the cost; what closes a hold later
\* finds it settled.
LEMMA ChargedCloses ==
    ASSUME CompletionsTypeOK, NEW r \in Requests, Placed(r), Charged(r),
           \/ Release(r) \/ Settle(r) \/ Commission(r)
           \/ CronRelease(r) \/ Disconnect(r) \/ PodDies(r)
    PROVE  Charged(r)'
  <1> USE DEF CompletionsTypeOK, Charged, Continue, attempt, money
  <1>1. CASE Release(r)
    BY <1>1 DEF Release
  <1>2. CASE Settle(r)
    <2>1. /\ stage[r] = "settle" /\ result'[r] = result[r]
          /\ result[r] \in {"answer", "broken"}
          /\ commissions'[r] = commissions[r]
      BY <1>2 DEF Settle, Placed
    <2>2. charges[r] = 0 /\ commissions[r] = 0
      BY <2>1
    <2>3. ASSUME NEW cost \in {0, 1}, Charge(r, cost),
                 Continue(r, IF cost > 0 THEN "commission" ELSE "end")
          PROVE  Charged(r)'
      BY <2>1, <2>2, <2>3 DEF Charge
    <2>4. ASSUME NEW cost \in {0, 1}, ChargeFails(r, cost),
                 Continue(r, IF cost > 0 THEN "commission" ELSE "end")
          PROVE  Charged(r)'
      BY <2>1, <2>2, <2>4 DEF ChargeFails
    <2>5. ASSUME Unpriced(r), Continue(r, "end")
          PROVE  Charged(r)'
      BY <2>1, <2>2, <2>5 DEF Unpriced
    <2> QED
      BY <1>2, <2>3, <2>4, <2>5 DEF Settle
  <1>3. CASE Commission(r)
    BY <1>3 DEF Commission
  <1>4. CASE CronRelease(r)
    BY <1>4 DEF CronRelease, Nothing
  <1>5. CASE Disconnect(r) \/ PodDies(r)
    BY <1>5 DEF Disconnect, PodDies
  <1> QED
    BY <1>1, <1>2, <1>3, <1>4, <1>5

\* Whatever the number of requests, channels and attempts, and whoever closes
\* the hold meanwhile, a request is charged once, and a commission computed of
\* it once (billing_service.go:190, completions_handler.go:795).
THEOREM ChargedOnce == CompletionsSpec => []OneCharge
  <1> DEFINE Inv == \A r \in Requests : Charged(r)
  <1>1. CompletionsInit => Inv
    BY DEF CompletionsInit, Charged
  <1>2. RequestsInv /\ Inv /\ [CompletionsNext]_completionsVars => Inv'
    <2> SUFFICES ASSUME RequestsInv, Inv, [CompletionsNext]_completionsVars,
                        NEW q \in Requests
                 PROVE  Charged(q)'
      OBVIOUS
    <2>1. ASSUME NEW r \in Requests, Act(r)
          PROVE  Charged(q)'
      <3>1. CASE q = r
        BY <2>1, <3>1, ChargedTries, ChargedCloses DEF Act, RequestsInv
      <3>2. CASE q # r
        BY <2>1, <3>2, OthersKept DEF RequestsInv, Charged
      <3> QED
        BY <3>1, <3>2
    <2>2. CASE UNCHANGED completionsVars
      BY <2>2 DEF completionsVars, Charged
    <2> QED
      BY <2>1, <2>2, NextActs
  <1>3. Inv => OneCharge
    BY DEF Charged, OneCharge
  <1> QED
    BY <1>1, <1>2, <1>3, RequestsPlaced, PTL DEF CompletionsSpec

\* A request without misfortune that has left the charge is billed for what is
\* known of its usage, and its hold is closed, but for FIM streams that broke.
Closed(r) ==
    r \notin died \union unlucky /\ stage[r] \in {"commission", "end"} =>
    /\ result[r] = "answer" \/ (result[r] = "broken" /\ kind[r] = "chat")
       => bill[r] \in {"settled", "no_charge"}
    /\ hold[r] = "FROZEN" => kind[r] = "fim" /\ result[r] = "broken"

\* A request refused at the start has no hold and no result; a FIM stream that
\* broke off is the only one that goes from the upstream to its end.
LEMMA ClosedTries ==
    ASSUME CompletionsTypeOK, NEW r \in Requests, Placed(r), Closed(r),
           \/ Freeze(r) \/ SelectRouted(r) \/ SelectCoding(r)
           \/ SelectNone(r) \/ ChatFails(r) \/ FIMFails(r) \/ Answer(r)
           \/ Connect(r) \/ StreamEnds(r) \/ StreamBreaks(r)
    PROVE  Closed(r)'
  <1> USE DEF CompletionsTypeOK, Closed, Continue, Result, attempt, money
  <1>1. CASE Freeze(r)
    BY <1>1 DEF Freeze, Placed, Trying, Nothing
  <1>2. CASE SelectRouted(r) \/ SelectCoding(r) \/ SelectNone(r)
    BY <1>2 DEF SelectRouted, SelectCoding, SelectNone
  <1>3. CASE ChatFails(r) \/ FIMFails(r)
    BY <1>3 DEF ChatFails, FIMFails
  <1>4. CASE Answer(r) \/ Connect(r)
    BY <1>4 DEF Answer, Connect
  <1>5. CASE StreamEnds(r)
    BY <1>5 DEF StreamEnds
  <1>6. CASE StreamBreaks(r)
    <2>1. kind'[r] = kind[r] /\ kind[r] \in {"chat", "fim"}
      BY <1>6 DEF StreamBreaks
    <2>2. CASE Result(r, "broken")
      <3>1. Continue(r, IF kind[r] = "chat" THEN "settle" ELSE "end")
        BY <1>6, <2>2 DEF StreamBreaks
      <3> QED
        BY <2>1, <2>2, <3>1
    <2>3. CASE Result(r, "failed") /\ Continue(r, "release")
      BY <2>3
    <2> QED
      BY <1>6, <2>2, <2>3 DEF StreamBreaks
  <1> QED
    BY <1>1, <1>2, <1>3, <1>4, <1>5, <1>6

LEMMA ClosedCloses ==
    ASSUME CompletionsTypeOK, NEW r \in Requests, Placed(r), Closed(r),
           \/ Release(r) \/ Settle(r) \/ Commission(r)
           \/ CronRelease(r) \/ Disconnect(r) \/ PodDies(r)
    PROVE  Closed(r)'
  <1> USE DEF CompletionsTypeOK, Closed, Continue, attempt, money
  <1>1. CASE Release(r)
    <2>1. hold'[r] # "FROZEN" \/ r \in unlucky'
      BY <1>1 DEF Release, ReleaseFrozen, GivenBack
    <2>2. result'[r] = result[r] /\ result[r] \in {"unmetered", "failed"}
      BY <1>1 DEF Release, Placed
    <2> QED
      BY <2>1, <2>2
  <1>2. CASE Settle(r)
    <2>1. r \in unlucky' \/ (hold'[r] # "FROZEN"
                             /\ bill'[r] \in {"settled", "no_charge"})
      <3>1. ASSUME NEW cost \in {0, 1}, Charge(r, cost)
            PROVE  hold'[r] # "FROZEN" /\ bill'[r] \in {"settled", "no_charge"}
        BY <3>1 DEF Charge, Nothing
      <3>2. ASSUME NEW cost \in {0, 1}, ChargeFails(r, cost) \/ Unpriced(r)
            PROVE  r \in unlucky'
        BY <3>2 DEF ChargeFails, Unpriced
      <3> QED
        BY <1>2, <3>1, <3>2 DEF Settle
    <2> QED
      BY <2>1
  <1>3. CASE Commission(r)
    BY <1>3 DEF Commission
  <1>4. CASE CronRelease(r)
    BY <1>4 DEF CronRelease
  <1>5. CASE Disconnect(r) \/ PodDies(r)
    BY <1>5 DEF Disconnect, PodDies
  <1> QED
    BY <1>1, <1>2, <1>3, <1>4, <1>5

\* On every way out of the handler both hold together.
LEMMA RequestsClosed == CompletionsSpec => [](\A r \in Requests : Closed(r))
  <1> DEFINE Inv == \A r \in Requests : Closed(r)
  <1>1. CompletionsInit => Inv
    BY DEF CompletionsInit, Closed
  <1>2. RequestsInv /\ Inv /\ [CompletionsNext]_completionsVars => Inv'
    <2> SUFFICES ASSUME RequestsInv, Inv, [CompletionsNext]_completionsVars,
                        NEW q \in Requests
                 PROVE  Closed(q)'
      OBVIOUS
    <2>1. ASSUME NEW r \in Requests, Act(r)
          PROVE  Closed(q)'
      <3>1. CASE q = r
        BY <2>1, <3>1, ClosedTries, ClosedCloses DEF Act, RequestsInv
      <3>2. CASE q # r
        BY <2>1, <3>2, OthersKept DEF RequestsInv, Closed
      <3> QED
        BY <3>1, <3>2
    <2>2. CASE UNCHANGED completionsVars
      BY <2>2 DEF completionsVars, Closed
    <2> QED
      BY <2>1, <2>2, NextActs
  <1> QED
    BY <1>1, <1>2, RequestsPlaced, PTL DEF CompletionsSpec

\* Every request whose usage is known is billed when it is over, unless its
\* billing failed, found no price or died (completions_handler.go:657-697 for
\* the streams that break off).
THEOREM UsageIsBilled == CompletionsSpec => []MeteredIsBilled
  <1>1. (\A r \in Requests : Closed(r)) => MeteredIsBilled
    BY DEF Closed, MeteredIsBilled
  <1> QED
    BY <1>1, RequestsClosed, PTL

\* No way out of the handler leaves a hold to the hourly task but a failed
\* billing, a pod that dies, and a FIM stream that breaks off.
THEOREM HoldsAreClosed == CompletionsSpec => []HoldsEnd
  <1>1. (\A r \in Requests : Closed(r)) => HoldsEnd
    BY DEF Closed, HoldsEnd
  <1> QED
    BY <1>1, RequestsClosed, PTL

\* Where a request stands between being counted and being uncounted: what the
\* router counted stays counted until a result is recorded, or nobody will
\* ever record one, and only a first attempt is made without the router.
Tracked(r) ==
    /\ stage[r] \in InFlight => chan[r] \in Channels
    /\ routed[r] => stage[r] \in InFlight \/ r \in lost
    /\ stage[r] \in Trying => r \notin lost
    /\ tries[r] = 0 /\ stage[r] \in Trying => uncalled[r] = Nothing
    /\ stage[r] \in InFlight /\ ~routed[r] => tries[r] = 0

\* What becomes of an attempt that reports a result, or leaves without one.
LEMMA AttemptOver ==
    ASSUME CompletionsTypeOK, NEW r \in Requests, Tracked(r),
           stage[r] \in InFlight, RecordResult(r) \/ NoResult(r)
    PROVE  /\ routed'[r] => r \in lost'
           /\ RecordResult(r) => ~routed'[r] /\ r \notin lost'
  <1> USE DEF CompletionsTypeOK, Tracked, Trying
  <1>1. CASE RecordResult(r)
    BY <1>1 DEF RecordResult
  <1>2. CASE NoResult(r) /\ ~RecordResult(r)
    BY <1>2 DEF NoResult
  <1> QED
    BY <1>1, <1>2

LEMMA TrackedStep ==
    ASSUME RequestsInv, NEW r \in Requests, Tracked(r), Act(r)
    PROVE  Tracked(r)'
  <1> USE DEF RequestsInv, CompletionsTypeOK, Tracked, Trying, InFlight,
              Continue, Result, attempt, money
  <1>1. CASE Freeze(r)
    BY <1>1 DEF Freeze
  <1>2. CASE SelectRouted(r) \/ SelectCoding(r) \/ SelectNone(r)
    BY <1>2 DEF SelectRouted, SelectCoding, SelectNone
  <1>3. CASE ChatFails(r)
    <2>1. ~routed'[r] /\ r \notin lost'
      BY <1>3, AttemptOver DEF ChatFails
    <2>2. tries'[r] # 0 /\ stage'[r] \in {"select", "release"}
      BY <1>3 DEF ChatFails
    <2> QED
      BY <2>1, <2>2
  <1>4. CASE FIMFails(r) \/ StreamEnds(r) \/ StreamBreaks(r)
    <2>1. routed'[r] => r \in lost'
      BY <1>4, AttemptOver
      DEF FIMFails, StreamEnds, StreamBreaks, StreamResult
    <2>2. stage'[r] \in {"release", "settle", "end"}
      BY <1>4 DEF FIMFails, StreamEnds, StreamBreaks
    <2> QED
      BY <2>1, <2>2
  <1>5. CASE Answer(r)
    <2>1. routed'[r] => r \in lost'
      BY <1>5, AttemptOver DEF Answer
    <2>2. stage'[r] \in {"release", "settle"}
      BY <1>5 DEF Answer
    <2> QED
      BY <2>1, <2>2
  <1>6. CASE Connect(r)
    BY <1>6 DEF Connect
  <1>7. CASE Release(r) \/ Settle(r) \/ Commission(r)
    BY <1>7 DEF Release, Settle, Commission
  <1>8. CASE CronRelease(r) \/ Disconnect(r)
    BY <1>8 DEF CronRelease, Disconnect
  <1>9. CASE PodDies(r)
    BY <1>9 DEF PodDies
  <1> QED
    BY <1>1, <1>2, <1>3, <1>4, <1>5, <1>6, <1>7, <1>8, <1>9 DEF Act

\* The requests on a channel that the router counted, and those whose result
\* was recorded on it uncounted.
Loading(c) ==
    {r \in Requests : /\ chan[r] = c
                      /\ r \in lost \/ (routed[r] /\ stage[r] \in InFlight)}

Overdrawn(c) == {r \in Requests : uncalled[r] = c}

LoadInv ==
    /\ \A r \in Requests : Tracked(r)
    /\ \A c \in Channels :
          load[c] + Cardinality(Overdrawn(c)) = Cardinality(Loading(c))

\* A request joins the requests on a channel or leaves them.
LEMMA JoinLeave ==
    ASSUME IsFiniteSet(Requests), NEW S \in SUBSET Requests,
           NEW r \in Requests
    PROVE  /\ Cardinality(S) \in Nat
           /\ r \notin S => Cardinality(S \union {r}) = Cardinality(S) + 1
           /\ r \in S => Cardinality(S \ {r}) = Cardinality(S) - 1
  <1>1. IsFiniteSet(S)
    BY FS_Subset
  <1> QED
    BY <1>1, FS_CardinalityType, FS_AddElement, FS_RemoveElement

\* A step that counts nothing keeps everybody where it is.
LEMMA SameLoad ==
    ASSUME LoadInv, NEW r \in Requests, CompletionsTypeOK, Act(r),
           load' = load, uncalled'[r] = uncalled[r],
           \A c \in Channels : r \in Loading(c)' <=> r \in Loading(c)
    PROVE  \A c \in Channels :
              load'[c] + Cardinality(Overdrawn(c)') = Cardinality(Loading(c)')
  <1> TAKE c \in Channels
  <1>1. Overdrawn(c)' = Overdrawn(c)
    BY OthersKept DEF Overdrawn
  <1>2. ASSUME NEW q \in Requests PROVE q \in Loading(c)' <=> q \in Loading(c)
    <2>1. CASE q # r
      BY <2>1, OthersKept DEF Loading
    <2> QED
      BY <2>1
  <1>3. Loading(c)' = Loading(c)
    BY <1>2 DEF Loading
  <1> QED
    BY <1>1, <1>3 DEF LoadInv

\* A recorded result takes one from the load of its channel, for the request
\* that was counted or to the debt of the channel.
LEMMA RecordedLoad ==
    ASSUME LoadInv, NEW r \in Requests, CompletionsTypeOK, Act(r),
           stage[r] \in InFlight, RecordResult(r)
    PROVE  \A c \in Channels :
              load'[c] + Cardinality(Overdrawn(c)') = Cardinality(Loading(c)')
  <1> DEFINE d == chan[r]
  <1> TAKE c \in Channels
  <1>1. /\ d \in Channels /\ r \notin lost
        /\ ~routed[r] => uncalled[r] = Nothing
    BY DEF LoadInv, Tracked, Trying
  <1>2. /\ load[c] \in Int
        /\ load'[c] = IF c = d THEN load[c] - 1 ELSE load[c]
    BY <1>1 DEF CompletionsTypeOK, RecordResult
  <1>3. /\ r \in Overdrawn(c)' <=> IF routed[r] THEN r \in Overdrawn(c)
                                                 ELSE c = d
        /\ ~routed[r] => r \notin Overdrawn(c)
    BY <1>1, CompletionsAssumption
    DEF CompletionsTypeOK, RecordResult, Overdrawn
  <1>4. /\ r \notin Loading(c)'
        /\ r \in Loading(c) <=> routed[r] /\ c = d
    BY <1>1, CompletionsAssumption DEF CompletionsTypeOK, RecordResult, Loading
  <1>5. ASSUME NEW q \in Requests, q # r
        PROVE  /\ q \in Overdrawn(c)' <=> q \in Overdrawn(c)
               /\ q \in Loading(c)' <=> q \in Loading(c)
    BY <1>5, OthersKept DEF Overdrawn, Loading
  <1>6. load[c] + Cardinality(Overdrawn(c)) = Cardinality(Loading(c))
    BY DEF LoadInv
  <1>7. Overdrawn(c) \in SUBSET Requests /\ Loading(c) \in SUBSET Requests
    BY DEF Overdrawn, Loading
  <1>8. Overdrawn(c)' \in SUBSET Requests /\ Loading(c)' \in SUBSET Requests
    BY DEF Overdrawn, Loading
  <1>9. CASE c # d
    <2>1. Overdrawn(c)' = Overdrawn(c) /\ Loading(c)' = Loading(c)
      BY <1>3, <1>4, <1>5, <1>7, <1>8, <1>9
    <2> QED
      BY <1>2, <1>6, <1>9, <2>1
  <1>10. CASE c = d /\ routed[r]
    <2>1. Overdrawn(c)' = Overdrawn(c) /\ Loading(c)' = Loading(c) \ {r}
      BY <1>3, <1>4, <1>5, <1>7, <1>8, <1>10
    <2>2. /\ Cardinality(Loading(c) \ {r}) = Cardinality(Loading(c)) - 1
          /\ Cardinality(Loading(c)) \in Nat
          /\ Cardinality(Overdrawn(c)) \in Nat
      BY <1>4, <1>7, <1>10, JoinLeave, CompletionsAssumption
    <2> QED
      BY <1>2, <1>6, <1>10, <2>1, <2>2
  <1>11. CASE c = d /\ ~routed[r]
    <2>1. Overdrawn(c)' = Overdrawn(c) \union {r} /\ Loading(c)' = Loading(c)
      BY <1>3, <1>4, <1>5, <1>7, <1>8, <1>11
    <2>2. /\ Cardinality(Overdrawn(c) \union {r})
             = Cardinality(Overdrawn(c)) + 1
          /\ Cardinality(Loading(c)) \in Nat
          /\ Cardinality(Overdrawn(c)) \in Nat
      BY <1>3, <1>7, <1>11, JoinLeave, CompletionsAssumption
    <2> QED
      BY <1>2, <1>6, <1>11, <2>1, <2>2
  <1> QED
    BY <1>9, <1>10, <1>11

\* The router's choice adds one to the load of the channel.
LEMMA RoutedLoad ==
    ASSUME LoadInv, NEW r \in Requests, CompletionsTypeOK, SelectRouted(r)
    PROVE  \A c \in Channels :
              load'[c] + Cardinality(Overdrawn(c)') = Cardinality(Loading(c)')
  <1> TAKE c \in Channels
  <1>1. Act(r) /\ r \notin lost
    BY DEF Act, SelectRouted, LoadInv, Tracked, Trying
  <1>2. PICK d \in Channels : /\ chan' = [chan EXCEPT ![r] = d]
                              /\ load' = [load EXCEPT ![d] = @ + 1]
    BY DEF SelectRouted
  <1>3. /\ load[c] \in Int
        /\ load'[c] = IF c = d THEN load[c] + 1 ELSE load[c]
    BY <1>2 DEF CompletionsTypeOK
  <1>4. Overdrawn(c)' = Overdrawn(c)
    BY DEF SelectRouted, Overdrawn
  <1>5. r \notin Loading(c)
    BY <1>1 DEF SelectRouted, LoadInv, Tracked, Loading, InFlight
  <1>6. r \in Loading(c)' <=> c = d
    BY <1>1, <1>2
    DEF SelectRouted, CompletionsTypeOK, Continue, Loading, InFlight
  <1>7. \A q \in Requests \ {r} : q \in Loading(c)' <=> q \in Loading(c)
    BY <1>1, OthersKept DEF Loading
  <1>8. Loading(c) \in SUBSET Requests /\ Loading(c)' \in SUBSET Requests
    BY DEF Loading
  <1>9. load[c] + Cardinality(Overdrawn(c)) = Cardinality(Loading(c))
    BY DEF LoadInv
  <1>10. CASE c # d
    <2>1. Loading(c)' = Loading(c)
      BY <1>5, <1>6, <1>7, <1>8, <1>10
    <2> QED
      BY <1>3, <1>4, <1>9, <1>10, <2>1
  <1>11. CASE c = d
    <2>1. Loading(c)' = Loading(c) \union {r}
      BY <1>6, <1>7, <1>8, <1>11
    <2>2. /\ Cardinality(Loading(c) \union {r}) = Cardinality(Loading(c)) + 1
          /\ Cardinality(Loading(c)) \in Nat
      BY <1>5, <1>8, JoinLeave, CompletionsAssumption
    <2>3. Cardinality(Overdrawn(c)) \in Nat
      BY JoinLeave, CompletionsAssumption DEF Overdrawn
    <2> QED
      BY <1>3, <1>4, <1>9, <1>11, <2>1, <2>2, <2>3
  <1> QED
    BY <1>10, <1>11

\* The steps that count nothing: a request is on its channel as it was, or has
\* left it for good without being uncounted.
LEMMA UnloadedStep ==
    ASSUME LoadInv, NEW r \in Requests, RequestsInv, Act(r),
           ~SelectRouted(r), ~(stage[r] \in InFlight /\ RecordResult(r))
    PROVE  \A c \in Channels :
              load'[c] + Cardinality(Overdrawn(c)') = Cardinality(Loading(c)')
  <1> USE DEF LoadInv, Tracked, Trying, InFlight, RequestsInv,
              CompletionsTypeOK, Continue, Result, Loading, attempt, money
  <1> DEFINE Same == /\ load' = load /\ uncalled' = uncalled
                     /\ \A c \in Channels : r \in Loading(c)' <=> r \in Loading(c)
  <1>1. CASE Freeze(r) \/ SelectNone(r)
    <2>1. Same
      BY <1>1 DEF Freeze, SelectNone
    <2> QED
      BY <2>1, SameLoad
  <1>2. CASE SelectCoding(r)
    <2>1. ~routed[r] /\ r \notin lost /\ ~routed'[r] /\ r \notin lost'
      BY <1>2 DEF SelectCoding
    <2>2. Same
      BY <1>2, <2>1 DEF SelectCoding
    <2> QED
      BY <2>2, SameLoad
  <1>3. CASE ChatFails(r)
    BY <1>3 DEF ChatFails
  <1>4. CASE FIMFails(r) \/ Answer(r) \/ StreamEnds(r) \/ StreamBreaks(r)
    <2>1. NoResult(r) /\ stage[r] \in InFlight
      BY <1>4 DEF FIMFails, Answer, StreamEnds, StreamBreaks, StreamResult
    <2>2. /\ stage'[r] \notin InFlight
          /\ r \in lost' <=> routed[r]
      BY <1>4, <2>1
      DEF FIMFails, Answer, StreamEnds, StreamBreaks, NoResult
    <2>3. Same
      BY <2>1, <2>2 DEF NoResult
    <2> QED
      BY <2>3, SameLoad
  <1>5. CASE Connect(r)
    <2>1. Same
      BY <1>5 DEF Connect
    <2> QED
      BY <2>1, SameLoad
  <1>6. CASE Release(r) \/ Settle(r) \/ Commission(r)
    <2>1. /\ stage[r] \notin InFlight /\ stage'[r] \notin InFlight
          /\ UNCHANGED attempt
      BY <1>6 DEF Release, Settle, Commission
    <2>2. Same
      BY <2>1
    <2> QED
      BY <2>2, SameLoad
  <1>7. CASE CronRelease(r) \/ Disconnect(r)
    <2>1. Same
      BY <1>7 DEF CronRelease, Disconnect
    <2> QED
      BY <2>1, SameLoad
  <1>8. CASE PodDies(r)
    <2>1. Same
      BY <1>8 DEF PodDies
    <2> QED
      BY <2>1, SameLoad
  <1> QED
    BY <1>1, <1>2, <1>3, <1>4, <1>5, <1>6, <1>7, <1>8 DEF Act

\* Over any number of attempts of any number of requests the load of a channel
\* is the requests that were counted on it and not yet uncounted, less those
\* that were uncounted without having been counted (channel_router.go counts
\* in its selection, completions_handler.go uncounts in RecordResult).
THEOREM LoadIsBalanced == CompletionsSpec => []LoadBalanced
  <1>1. ASSUME CompletionsInit PROVE LoadInv
    <2>1. \A r \in Requests : Tracked(r)
      BY <1>1 DEF CompletionsInit, Tracked, InFlight
    <2>2. ASSUME NEW c \in Channels
          PROVE  load[c] = 0 /\ Overdrawn(c) = {} /\ Loading(c) = {}
      BY <1>1, CompletionsAssumption
      DEF CompletionsInit, Overdrawn, Loading
    <2> QED
      BY <2>1, <2>2, FS_EmptySet DEF LoadInv
  <1>2. RequestsInv /\ LoadInv /\ [CompletionsNext]_completionsVars => LoadInv'
    <2> SUFFICES ASSUME RequestsInv, LoadInv,
                        [CompletionsNext]_completionsVars
                 PROVE  LoadInv'
      OBVIOUS
    <2>1. ASSUME NEW r \in Requests, Act(r)
          PROVE  LoadInv'
      <3>1. ASSUME NEW q \in Requests PROVE Tracked(q)'
        <4>1. CASE q = r
          BY <2>1, <4>1, TrackedStep DEF LoadInv
        <4>2. CASE q # r
          BY <2>1, <4>2, OthersKept DEF RequestsInv, LoadInv, Tracked
        <4> QED
          BY <4>1, <4>2
      <3>2. \A c \in Channels :
               load'[c] + Cardinality(Overdrawn(c)') = Cardinality(Loading(c)')
        BY <2>1, RoutedLoad, RecordedLoad, UnloadedStep DEF RequestsInv
      <3> QED
        BY <3>1, <3>2 DEF LoadInv
    <2>2. CASE UNCHANGED completionsVars
      BY <2>2 DEF completionsVars, LoadInv, Tracked, Overdrawn, Loading
    <2> QED
      BY <2>1, <2>2, NextActs
  <1>3. LoadInv => LoadBalanced
    BY DEF LoadInv, LoadBalanced, Overdrawn, Loading
  <1> QED
    BY <1>1, <1>2, <1>3, RequestsPlaced, PTL DEF CompletionsSpec

=============================================================================
