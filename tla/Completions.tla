---------------------------- MODULE Completions -----------------------------
(***************************************************************************)
(* The requests of one user on the main API (CompletionsHandler):           *)
(* /v1/chat/completions with its failover to other channels, and            *)
(* /v1/completions (FIM), which has one attempt.  A request holds its       *)
(* estimate, looks for a channel, may lose it and look for another, streams *)
(* or answers, and settles or gives back the hold.                          *)
(*                                                                         *)
(* The account behind the hold is BalanceLedger's, where requests and the   *)
(* hourly task compete for one row; the breakers and the erasure of the     *)
(* load counters are CircuitBreaker's and ChatGateway's.  Here a hold is its *)
(* status, and what matters is that the many ways out of the handler leave  *)
(* hold, charge, billing status and load as they should.                    *)
(***************************************************************************)
EXTENDS Integers, FiniteSets

CONSTANTS
    Requests,        \* goroutines that handle a request of the user
    Channels,        \* channels that may serve the model
    MaxRetries       \* maxRetries of the failover loop

Nothing == "none"

ASSUME CompletionsAssumption ==
    /\ IsFiniteSet(Requests)
    /\ Nothing \notin Channels
    /\ MaxRetries \in Nat \ {0}

VARIABLES
    stage,           \* what a request does next
    kind,            \* the endpoint: chat or fim
    hold,            \* its freeze record: none, FROZEN, SETTLED, RELEASED
    tries,           \* channels that have failed
    chan,            \* the channel of the current attempt
    routed,          \* whether the router counted the attempt
    load,            \* channel:inflight
    result,          \* what came of the upstream call
    bill,            \* billing_status of the request
    gone,            \* requests whose client went away: context cancelled
    charges,         \* history: how often a cost was taken from the account
    commissions,     \* history: commission computations started
    unlucky,         \* history: its billing failed, or found no price
    died,            \* history: requests whose pod died
    lost,            \* history: requests that left without uncounting
    uncalled         \* history: the channel uncounted without being counted

completionsVars ==
    <<stage, kind, hold, tries, chan, routed, load, result, bill, gone, charges,
      commissions, unlucky, died, lost, uncalled>>

attempt == <<tries, chan, routed, load, lost, uncalled>>
money   == <<hold, bill, charges, commissions, unlucky>>

Places == {"start", "select", "call", "stream", "native", "settle",
           "release", "commission", "end"}

InFlight == {"call", "stream", "native"}

CompletionsTypeOK ==
    /\ stage \in [Requests -> Places]
    /\ kind \in [Requests -> {"chat", "fim"}]
    /\ hold \in [Requests -> {Nothing, "FROZEN", "SETTLED", "RELEASED"}]
    /\ tries \in [Requests -> 0..MaxRetries]
    /\ chan \in [Requests -> Channels \union {Nothing}]
    /\ routed \in [Requests -> BOOLEAN]
    /\ load \in [Channels -> Int]
    /\ result \in
         [Requests -> {Nothing, "answer", "broken", "unmetered", "failed"}]
    /\ bill \in [Requests -> {Nothing, "settled", "no_charge", "deduct_failed"}]
    /\ gone \subseteq Requests /\ died \subseteq Requests
    /\ unlucky \subseteq Requests /\ lost \subseteq Requests
    /\ charges \in [Requests -> Nat] /\ commissions \in [Requests -> Nat]
    /\ uncalled \in [Requests -> Channels \union {Nothing}]

CompletionsInit ==
    /\ stage = [r \in Requests |-> "start"]
    /\ kind \in [Requests -> {"chat", "fim"}]
    /\ hold = [r \in Requests |-> Nothing]
    /\ tries = [r \in Requests |-> 0]
    /\ chan = [r \in Requests |-> Nothing]
    /\ routed = [r \in Requests |-> FALSE]
    /\ load = [c \in Channels |-> 0]
    /\ result = [r \in Requests |-> Nothing]
    /\ bill = [r \in Requests |-> Nothing]
    /\ gone = {} /\ died = {} /\ unlucky = {} /\ lost = {}
    /\ charges = [r \in Requests |-> 0]
    /\ commissions = [r \in Requests |-> 0]
    /\ uncalled = [r \in Requests |-> Nothing]

-----------------------------------------------------------------------------

Continue(r, place) == stage' = [stage EXCEPT ![r] = place]

Result(r, x) == result' = [result EXCEPT ![r] = x]

\* FreezeUsage: a hold over the estimate, or none (the model has no price or
\* the estimate is zero), or the request is refused.
Freeze(r) ==
    /\ stage[r] = "start"
    /\ \/ /\ r \notin gone
          /\ hold' = [hold EXCEPT ![r] = "FROZEN"]
          /\ Continue(r, "select")
       \/ Continue(r, "select") /\ UNCHANGED hold
       \/ Continue(r, "end") /\ UNCHANGED hold
    /\ UNCHANGED <<attempt, kind, result, bill, charges, commissions, unlucky,
                   gone, died>>

\* The router finds a channel and counts it.  Which one is data: the channels
\* that have failed are excluded, but not by the fallback to the group.
SelectRouted(r) ==
    /\ stage[r] = "select" /\ r \notin gone
    /\ \E c \in Channels :
          /\ chan' = [chan EXCEPT ![r] = c]
          /\ load' = [load EXCEPT ![c] = @ + 1]
    /\ routed' = [routed EXCEPT ![r] = TRUE]
    /\ Continue(r, "call")
    /\ UNCHANGED <<kind, tries, result, gone, money, died, lost, uncalled>>

\* A coding channel, which nothing counts: the first choice of FIM, the last
\* resort of a chat whose first selection has failed.
SelectCoding(r) ==
    /\ stage[r] = "select" /\ r \notin gone
    /\ tries[r] = 0
    /\ \E c \in Channels : chan' = [chan EXCEPT ![r] = c]
    /\ routed' = [routed EXCEPT ![r] = FALSE]
    /\ Continue(r, "call")
    /\ UNCHANGED <<kind, tries, load, result, gone, money, died, lost, uncalled>>

\* No channel, or no query that gets through: the request has failed.
SelectNone(r) ==
    /\ stage[r] = "select"
    /\ Result(r, "failed")
    /\ Continue(r, "release")
    /\ UNCHANGED <<attempt, kind, gone, money, died>>

\* RecordResult and RecordResultWithError: one less in flight on the channel,
\* whoever chose it.  They do not use the context of the request.
RecordResult(r) ==
    /\ load' = [load EXCEPT ![chan[r]] = @ - 1]
    /\ uncalled' = IF routed[r] THEN uncalled
                   ELSE [uncalled EXCEPT ![r] = chan[r]]
    /\ chan' = [chan EXCEPT ![r] = Nothing]
    /\ routed' = [routed EXCEPT ![r] = FALSE]
    /\ UNCHANGED lost

\* The ways out of FIM that record no result.
NoResult(r) ==
    /\ lost' = IF routed[r] THEN lost \union {r} ELSE lost
    /\ UNCHANGED <<load, uncalled, chan, routed>>

-----------------------------------------------------------------------------

\* Mutation: a failed attempt is not reported to the router.
ChatFailsUnrecorded(r) ==
    /\ stage[r] = "call" /\ kind[r] = "chat"
    /\ tries' = [tries EXCEPT ![r] = @ + 1]
    /\ IF tries'[r] < MaxRetries
       THEN Continue(r, "select") /\ UNCHANGED result
       ELSE Continue(r, "release") /\ Result(r, "failed")
    /\ UNCHANGED <<load, lost, uncalled, kind, chan, routed, gone, money, died>>

\* Mutation: the loop runs once more.
ChatFailsOnceMore(r) ==
    /\ stage[r] = "call" /\ kind[r] = "chat"
    /\ RecordResult(r)
    /\ tries' = [tries EXCEPT ![r] = @ + 1]
    /\ IF tries[r] < MaxRetries
       THEN Continue(r, "select") /\ UNCHANGED result
       ELSE Continue(r, "release") /\ Result(r, "failed")
    /\ UNCHANGED <<kind, gone, money, died>>

\* The call of a chat, or the connection of its stream, fails: the next
\* channel, as long as there are attempts left.
ChatFails(r) ==
    /\ stage[r] = "call" /\ kind[r] = "chat"
    /\ RecordResult(r)
    /\ tries' = [tries EXCEPT ![r] = @ + 1]
    /\ IF tries'[r] < MaxRetries
       THEN Continue(r, "select") /\ UNCHANGED result
       ELSE Continue(r, "release") /\ Result(r, "failed")
    /\ UNCHANGED <<kind, gone, money, died>>

\* The call of a FIM request fails.  Only handleStreamChat records it.
FIMFails(r) ==
    /\ stage[r] = "call" /\ kind[r] = "fim"
    /\ RecordResult(r) \/ NoResult(r)
    /\ Result(r, "failed")
    /\ Continue(r, "release")
    /\ UNCHANGED <<kind, tries, gone, money, died>>

\* A whole answer, with its usage; the native FIM answer may lack it.
Answer(r) ==
    /\ stage[r] = "call"
    /\ IF kind[r] = "chat" THEN RecordResult(r) ELSE NoResult(r)
    /\ \/ Result(r, "answer") /\ Continue(r, "settle")
       \/ kind[r] = "fim" /\ Result(r, "unmetered") /\ Continue(r, "release")
    /\ UNCHANGED <<kind, tries, gone, money, died>>

\* The stream is there; that of the native FIM endpoint records no result.
Connect(r) ==
    /\ stage[r] = "call"
    /\ \/ Continue(r, "stream")
       \/ kind[r] = "fim" /\ Continue(r, "native")
    /\ UNCHANGED <<attempt, kind, result, gone, money, died>>

StreamResult(r) == IF stage[r] = "stream" THEN RecordResult(r) ELSE NoResult(r)

\* Mutation: a stream that is not charged is not released either.
StreamEndsUnreleased(r) ==
    /\ stage[r] \in {"stream", "native"}
    /\ StreamResult(r)
    /\ \/ Result(r, "answer") /\ Continue(r, "settle")
       \/ stage[r] = "stream" /\ Result(r, "unmetered") /\ Continue(r, "end")
    /\ UNCHANGED <<kind, tries, gone, money, died>>

\* SSEWriter reads to the end: with a usage, or with one that is estimated from
\* the request; a stream of reasoning alone that has no usage is not charged.
StreamEnds(r) ==
    /\ stage[r] \in {"stream", "native"}
    /\ StreamResult(r)
    /\ \/ Result(r, "answer") /\ Continue(r, "settle")
       \/ stage[r] = "stream" /\ Result(r, "unmetered") /\ Continue(r, "release")
    /\ UNCHANGED <<kind, tries, gone, money, died>>

\* Mutation: a chat that breaks off is not charged, whatever usage is known.
StreamBreaksFree(r) ==
    /\ stage[r] \in {"stream", "native"}
    /\ StreamResult(r)
    /\ Result(r, "broken") /\ Continue(r, "release")
    /\ UNCHANGED <<kind, tries, gone, money, died>>

\* It breaks off: the client has gone, or the upstream fails.  With a usage a
\* chat is charged, and a FIM request is neither charged nor released.
StreamBreaks(r) ==
    /\ stage[r] \in {"stream", "native"}
    /\ StreamResult(r)
    /\ \/ /\ Result(r, "broken")
          /\ Continue(r, IF kind[r] = "chat" THEN "settle" ELSE "end")
       \/ Result(r, "failed") /\ Continue(r, "release")
    /\ UNCHANGED <<kind, tries, gone, money, died>>

-----------------------------------------------------------------------------

GivenBack(r) == [hold EXCEPT ![r] = IF @ = "FROZEN" THEN "RELEASED" ELSE @]

\* ReleaseFrozen: nothing to do for a hold that is not open; a query may fail,
\* and does when the context is cancelled.
ReleaseFrozen(r) ==
    \/ r \notin gone /\ hold' = GivenBack(r) /\ UNCHANGED unlucky
    \/ unlucky' = unlucky \union {r} /\ UNCHANGED hold

Release(r) ==
    /\ stage[r] = "release"
    /\ ReleaseFrozen(r)
    /\ Continue(r, "end")
    /\ UNCHANGED <<attempt, kind, result, gone, bill, charges, commissions, died>>

\* The cost is taken from the account: from the hold while it is open, or
\* without one (SettleBalanceUnits, DeductUnitsForRequest).
Charge(r, cost) ==
    /\ r \notin gone \/ (hold[r] = Nothing /\ cost = 0)
    /\ hold[r] \in {"FROZEN", Nothing}
    /\ hold' = [hold EXCEPT ![r] = IF @ = "FROZEN" THEN "SETTLED" ELSE @]
    /\ charges' = [charges EXCEPT ![r] = @ + cost]
    /\ bill' = [bill EXCEPT ![r] = IF cost > 0 THEN "settled" ELSE "no_charge"]
    /\ UNCHANGED unlucky

\* The charge fails: the context is cancelled, a query fails, the funds do not
\* suffice, or the hourly task has released the hold under a long stream.
ChargeFails(r, cost) ==
    /\ hold[r] # Nothing \/ cost > 0
    /\ bill' = [bill EXCEPT ![r] = "deduct_failed"]
    /\ unlucky' = unlucky \union {r}
    /\ UNCHANGED <<hold, charges>>

\* The model or its price is not found: no charge and no status, and the hold
\* is given back, if that query gets through.
Unpriced(r) ==
    /\ \/ r \notin gone /\ hold' = GivenBack(r)
       \/ UNCHANGED hold
    /\ unlucky' = unlucky \union {r}
    /\ UNCHANGED <<bill, charges>>

\* SettleUsage.  A commission is computed of every cost, collected or not.
Settle(r) ==
    /\ stage[r] = "settle"
    /\ \/ \E cost \in {0, 1} :
             /\ Charge(r, cost) \/ ChargeFails(r, cost)
             /\ Continue(r, IF cost > 0 THEN "commission" ELSE "end")
       \/ Unpriced(r) /\ Continue(r, "end")
    /\ UNCHANGED <<attempt, kind, result, gone, commissions, died>>

\* Mutation: a stream that broke off is tried again on another channel.
CommissionThenRetry(r) ==
    /\ stage[r] = "commission"
    /\ commissions' = [commissions EXCEPT ![r] = @ + 1]
    /\ IF result[r] = "broken" /\ tries[r] + 1 < MaxRetries
       THEN Continue(r, "select") /\ tries' = [tries EXCEPT ![r] = @ + 1]
       ELSE Continue(r, "end") /\ UNCHANGED tries
    /\ UNCHANGED <<chan, routed, load, lost, uncalled, kind, result, hold, bill,
                   charges, unlucky, gone, died>>

\* CalculateCommissionsAsyncByModelName: Commission begins.
Commission(r) ==
    /\ stage[r] = "commission"
    /\ commissions' = [commissions EXCEPT ![r] = @ + 1]
    /\ Continue(r, "end")
    /\ UNCHANGED <<attempt, kind, result, hold, bill, charges, unlucky, gone, died>>

-----------------------------------------------------------------------------

\* releaseFrozenRecords: a hold older than five minutes, also that of a stream
\* that goes on for longer.
CronRelease(r) ==
    /\ hold[r] = "FROZEN"
    /\ hold' = [hold EXCEPT ![r] = "RELEASED"]
    /\ UNCHANGED <<stage, attempt, kind, result, bill, charges, commissions,
                   unlucky, gone, died>>

\* The client goes away.  The handler goes on with a cancelled context.
Disconnect(r) ==
    /\ stage[r] # "end" /\ r \notin gone
    /\ gone' = gone \union {r}
    /\ UNCHANGED <<stage, attempt, kind, result, money, died>>

\* The pod dies, and the handler with it.
PodDies(r) ==
    /\ stage[r] \notin {"start", "end"}
    /\ died' = died \union {r}
    /\ lost' = IF stage[r] \in InFlight /\ routed[r]
               THEN lost \union {r} ELSE lost
    /\ Continue(r, "end")
    /\ UNCHANGED <<tries, chan, routed, load, uncalled, kind, result, gone, money>>

CompletionsNext ==
    \E r \in Requests :
        \/ Freeze(r) \/ SelectRouted(r) \/ SelectCoding(r) \/ SelectNone(r)
        \/ ChatFails(r) \/ FIMFails(r) \/ Answer(r) \/ Connect(r)
        \/ StreamEnds(r) \/ StreamBreaks(r)
        \/ Release(r) \/ Settle(r) \/ Commission(r)
        \/ CronRelease(r) \/ Disconnect(r) \/ PodDies(r)

CompletionsSpec == CompletionsInit /\ [][CompletionsNext]_completionsVars

-----------------------------------------------------------------------------

\* A request is charged once, and a commission computed of it once, whatever
\* attempts it took and whoever closes its hold meanwhile: a cost is taken for
\* an answer, never for a failure, and never from a hold that was given back.
OneCharge ==
    \A r \in Requests :
        /\ charges[r] <= 1 /\ commissions[r] <= 1
        /\ charges[r] = 1 => /\ hold[r] \in {Nothing, "SETTLED"}
                             /\ result[r] \in {"answer", "broken"}
        /\ commissions[r] = 1 => bill[r] \in {"settled", "deduct_failed"}

\* A request whose usage is known, from the upstream or estimated, is billed
\* when it is over, also one whose stream broke off, unless the billing failed,
\* found no price, or the pod died.  FIM does not charge streams that break off.
MeteredIsBilled ==
    \A r \in Requests \ (died \union unlucky) :
        /\ stage[r] = "end"
        /\ result[r] = "answer" \/ (result[r] = "broken" /\ kind[r] = "chat")
        => bill[r] \in {"settled", "no_charge"}

\* A request that is over has closed its hold, on every way out of the handler;
\* what is left to the hourly task are those whose billing failed or whose pod
\* died, and FIM streams that broke off after a usage.
HoldsEnd ==
    \A r \in Requests \ (died \union unlucky) :
        stage[r] = "end" /\ hold[r] = "FROZEN"
        => kind[r] = "fim" /\ result[r] = "broken"

\* Over all attempts, what the router has counted on a channel is uncounted,
\* once and on that channel.  What remains are requests that died or were FIM
\* calls; what is missing are results of channels the router did not choose.
LoadBalanced ==
    \A c \in Channels :
        load[c] + Cardinality({r \in Requests : uncalled[r] = c})
        = Cardinality({r \in Requests :
              /\ chan[r] = c
              /\ r \in lost \/ (routed[r] /\ stage[r] \in InFlight)})

=============================================================================
