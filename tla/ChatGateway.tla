---------------------------- MODULE ChatGateway -----------------------------
(***************************************************************************)
(* The chat requests of one user on their way through the gateway           *)
(* (ChatHandler.Completions): the limits of QuotaLimiter, the counter of    *)
(* the user's running requests, the choice of a channel, the counters of    *)
(* requests in flight that the least_load strategy reads, and the task of   *)
(* the scheduler that erases them.  What the requests do to the balance is  *)
(* in BalanceLedger, what the breakers do with the outcomes is in           *)
(* CircuitBreaker: here a breaker may exclude any channel at any time.      *)
(*                                                                         *)
(* Every Redis command and every query is an action.  A client that goes    *)
(* away cancels the context of its request, and every command sent with     *)
(* that context fails from then on; the router's are sent without it.       *)
(***************************************************************************)
EXTENDS Integers, FiniteSets

CONSTANTS
    Requests,        \* goroutines that handle a request of the user
    Channels,        \* the channels of the model that is asked for
    MaxConcurrent,   \* user_quota_configs.max_concurrent
    DailyLimit,      \* user_quota_configs.daily_limit
    Estimate,        \* estimated cost of a request, credits
    Cost,            \* costs a request may turn out to have
    SlotTTL,         \* 10 minutes: life of the counter after an increment
    DayTTL,          \* 5 minutes: life of the cached consumption
    Faults,          \* whether pods die and clients go away
    MaxLoad          \* bound: a channel counted as often is not selected

None == -1
Forever == -1

ASSUME GatewayAssumption ==
    /\ IsFiniteSet(Requests)
    /\ MaxConcurrent \in Nat \ {0}
    /\ DailyLimit \in Nat \ {0}
    /\ Estimate \in Nat \ {0}
    /\ Cost \subseteq Nat
    /\ SlotTTL \in Nat \ {0} /\ DayTTL \in Nat \ {0}
    /\ Faults \in BOOLEAN

VARIABLES
    at,              \* what a request does next
    chosen,          \* the channel a request was given
    gone,            \* requests whose client went away
    slots,           \* concurrent:<user>, 0 when the key does not exist
    slotsTTL,        \* its time to live, Forever when it has none
    spent,           \* credits consumed today, Enough when at the limit
    day,             \* daily_consumption:<user>:<date>, None when missing
    dayTTL,          \* its time to live
    loaded,          \* what a request read from the records
    load,            \* channel:inflight, 0 for a field that does not exist
    held,            \* history: requests whose slot was counted
    under,           \* history: the counter expired under a running request
    stranded,        \* history: an increment was not followed by EXPIRE
    leaked,          \* history: channels a request left without uncounting
    wiped            \* history: channels in use when the counters were erased

vars == <<at, chosen, gone, slots, slotsTTL, spent, day, dayTTL, loaded, load,
          held, under, stranded, leaked, wiped>>

slotVars == <<slots, slotsTTL, held, under, stranded>>
dayVars  == <<spent, day, dayTTL, loaded>>
loadVars == <<chosen, load, leaked, wiped>>


Places == {"idle", "day", "sum", "keep", "slots", "incr", "expire", "select",
           "count", "call", "settle", "decr", "drop"}

\* The requests that hold a counted unit of a channel.
InFlight(c) == {r \in Requests : at[r] = "call" /\ chosen[r] = c}

TypeOK ==
    /\ at \in [Requests -> Places]
    /\ chosen \in [Requests -> Channels \union {None}]
    /\ gone \subseteq Requests /\ held \subseteq Requests
    /\ slots \in Int /\ slotsTTL \in {Forever} \union 0 .. SlotTTL
    /\ spent \in 0 .. DailyLimit /\ loaded \in [Requests -> 0 .. DailyLimit]
    /\ day \in {None} \union 0 .. DailyLimit
    /\ dayTTL \in 0 .. DayTTL
    /\ load \in [Channels -> Int]
    /\ under \in BOOLEAN /\ stranded \in BOOLEAN
    /\ leaked \subseteq Channels /\ wiped \subseteq Channels
    /\ \A r \in Requests :
        at[r] \in {"count", "call"} => chosen[r] \in Channels

Init ==
    /\ at = [r \in Requests |-> "idle"]
    /\ chosen = [r \in Requests |-> None]
    /\ gone = {} /\ held = {}
    /\ slots = 0 /\ slotsTTL = 0
    /\ spent = 0 /\ day = None /\ dayTTL = 0
    /\ loaded = [r \in Requests |-> 0]
    /\ load = [c \in Channels |-> 0]
    /\ under = FALSE /\ stranded = FALSE /\ leaked = {} /\ wiped = {}

-----------------------------------------------------------------------------
Goto(r, place) == at' = [at EXCEPT ![r] = place]

\* The handler returns before it has counted the request.
Refuse(r) == Goto(r, "idle") /\ gone' = gone \ {r}

Begin(r) ==
    /\ at[r] = "idle"
    /\ Goto(r, "day")
    /\ UNCHANGED <<gone, slotVars, dayVars, loadVars>>

\* CheckQuota: go on when the consumption and the estimate fit the limit.
WithinLimit(r, consumed) ==
    IF consumed + Estimate > DailyLimit
    THEN Refuse(r)
    ELSE Goto(r, "slots") /\ UNCHANGED gone

\* GetDailyConsumption: the cached figure; an error is a miss.
ReadDay(r) ==
    /\ at[r] = "day"
    /\ IF day # None /\ r \notin gone
       THEN WithinLimit(r, day)
       ELSE Goto(r, "sum") /\ UNCHANGED gone
    /\ UNCHANGED <<slotVars, dayVars, loadVars>>

\* A miss: the sum of the day's records.
SumDay(r) ==
    /\ at[r] = "sum"
    /\ IF r \in gone
       THEN Refuse(r) /\ UNCHANGED loaded
       ELSE /\ Goto(r, "keep") /\ UNCHANGED gone
            /\ loaded' = [loaded EXCEPT ![r] = spent]
    /\ UNCHANGED <<slotVars, spent, day, dayTTL, loadVars>>

\* The sum is cached, whatever was consumed since it was read.
KeepDay(r) ==
    /\ at[r] = "keep"
    /\ IF r \in gone
       THEN UNCHANGED <<day, dayTTL>>
       ELSE day' = loaded[r] /\ dayTTL' = DayTTL
    /\ WithinLimit(r, loaded[r])
    /\ loaded' = [loaded EXCEPT ![r] = 0]
    /\ UNCHANGED <<slotVars, spent, loadVars>>

\* Mutation: DecrConcurrency is deferred before the check.
CheckSlotsDeferred(r) ==
    /\ at[r] = "slots"
    /\ \/ /\ r \in gone \/ slots < MaxConcurrent
          /\ Goto(r, "incr")
       \/ Goto(r, "decr")
    /\ UNCHANGED <<gone, slotVars, dayVars, loadVars>>

\* CheckQuota reads the counter of running requests; an error reads as 0.  The
\* other limits, and the freeze that follows, may refuse the request too.
CheckSlots(r) ==
    /\ at[r] = "slots"
    /\ \/ /\ r \in gone \/ slots < MaxConcurrent
          /\ Goto(r, "incr") /\ UNCHANGED gone
       \/ Refuse(r)
    /\ UNCHANGED <<slotVars, dayVars, loadVars>>

\* IncrConcurrency: INCR, which makes the key without a time to live...
Incr(r) ==
    /\ at[r] = "incr"
    /\ Goto(r, "expire")
    /\ IF r \in gone
       THEN UNCHANGED slotVars
       ELSE /\ slots' = slots + 1
            /\ slotsTTL' = IF slotsTTL = 0 THEN Forever ELSE slotsTTL
            /\ held' = held \union {r}
            /\ UNCHANGED <<under, stranded>>
    /\ UNCHANGED <<gone, dayVars, loadVars>>

\* Mutation: IncrConcurrency without its EXPIRE.
NoExpire(r) ==
    /\ at[r] = "expire" /\ r \notin gone
    /\ Goto(r, "select")
    /\ UNCHANGED <<slotVars, gone, dayVars, loadVars>>

\* ... and EXPIRE, which gives it one.
Expire(r) ==
    /\ at[r] = "expire" /\ r \notin gone
    /\ Goto(r, "select")
    /\ slotsTTL' = IF slotsTTL = 0 THEN 0 ELSE SlotTTL
    /\ stranded' = FALSE
    /\ UNCHANGED <<slots, held, under, gone, dayVars, loadVars>>

\* The client went away in between: EXPIRE is not sent.
ExpireLost(r) ==
    /\ at[r] = "expire" /\ r \in gone
    /\ Goto(r, "select")
    /\ stranded' = (stranded \/ r \in held)
    /\ UNCHANGED <<slots, slotsTTL, held, under, gone, dayVars, loadVars>>

\* SelectChannel: a channel that the breakers do not exclude, or none.
Select(r) ==
    /\ at[r] = "select"
    /\ \/ /\ r \notin gone
          /\ \E c \in Channels :
                /\ load[c] < MaxLoad
                /\ chosen' = [chosen EXCEPT ![r] = c]
          /\ Goto(r, "count")
       \/ Goto(r, "decr") /\ UNCHANGED chosen
    /\ UNCHANGED <<gone, slotVars, dayVars, load, leaked, wiped>>

\* IncrementLoad, and the look-up of the provider: a model without a provider
\* ends the request there.
Count(r) ==
    /\ at[r] = "count"
    /\ load' = [load EXCEPT ![chosen[r]] = @ + 1]
    /\ \/ Goto(r, "call") /\ UNCHANGED <<chosen, leaked>>
       \/ /\ Goto(r, "decr")
          /\ leaked' = leaked \union {chosen[r]}
          /\ chosen' = [chosen EXCEPT ![r] = None]
    /\ UNCHANGED <<gone, slotVars, dayVars, wiped>>

\* Mutation: a call that fails is not recorded.
UncountSuccess(r) ==
    /\ at[r] = "call"
    /\ \/ load' = [load EXCEPT ![chosen[r]] = @ - 1] /\ Goto(r, "settle")
       \/ UNCHANGED load /\ Goto(r, "decr")
    /\ chosen' = [chosen EXCEPT ![r] = None]
    /\ UNCHANGED <<gone, slotVars, dayVars, leaked, wiped>>

\* The call ends, well or badly: RecordResult takes the unit back.
Uncount(r) ==
    /\ at[r] = "call"
    /\ load' = [load EXCEPT ![chosen[r]] = @ - 1]
    /\ chosen' = [chosen EXCEPT ![r] = None]
    /\ Goto(r, "settle") \/ Goto(r, "decr")
    /\ UNCHANGED <<gone, slotVars, dayVars, leaked, wiped>>

AtMost(n, m) == IF n > m THEN m ELSE n

\* SettleBalance writes the CONSUME record.
Settle(r) ==
    /\ at[r] = "settle"
    /\ Goto(r, "decr")
    /\ IF r \in gone THEN UNCHANGED spent
       ELSE \E n \in Cost : spent' = AtMost(spent + n, DailyLimit)
    /\ UNCHANGED <<gone, day, dayTTL, loaded, slotVars, loadVars>>

\* DecrConcurrency, deferred with the context of the request: GET, and nothing
\* more when it fails or reads nothing to take back.
Decr(r) ==
    /\ at[r] = "decr"
    /\ IF r \notin gone /\ slots > 0
       THEN Goto(r, "drop") /\ UNCHANGED <<gone, held>>
       ELSE Refuse(r) /\ held' = held \ {r}
    /\ UNCHANGED <<slots, slotsTTL, under, stranded, dayVars, loadVars>>

\* DECR, which makes the key without a time to live if it expired meanwhile.
Drop(r) ==
    /\ at[r] = "drop"
    /\ Refuse(r)
    /\ held' = held \ {r}
    /\ IF r \in gone
       THEN UNCHANGED <<slots, slotsTTL>>
       ELSE /\ slots' = slots - 1
            /\ slotsTTL' = IF slotsTTL = 0 THEN Forever ELSE slotsTTL
    /\ UNCHANGED <<under, stranded, dayVars, loadVars>>

-----------------------------------------------------------------------------
\* The client goes away.
Disconnect(r) ==
    /\ Faults
    /\ at[r] # "idle" /\ r \notin gone
    /\ gone' = gone \union {r}
    /\ UNCHANGED <<at, slotVars, dayVars, loadVars>>

\* The pod dies; what it counted stays counted.
Crash(r) ==
    /\ Faults
    /\ at[r] # "idle"
    /\ Refuse(r)
    /\ held' = held \ {r}
    /\ stranded' = (stranded \/ (at[r] = "expire" /\ r \in held))
    /\ leaked' = IF at[r] = "call" THEN leaked \union {chosen[r]} ELSE leaked
    /\ chosen' = [chosen EXCEPT ![r] = None]
    /\ loaded' = [loaded EXCEPT ![r] = 0]
    /\ UNCHANGED <<slots, slotsTTL, under, spent, day, dayTTL, load, wiped>>

\* The task inflight_reset deletes the counters of all channels.
ResetInflight ==
    /\ load' = [c \in Channels |-> 0]
    /\ leaked' = {}
    /\ wiped' = {c \in Channels : InFlight(c) # {}}
    /\ UNCHANGED <<at, chosen, gone, slotVars, dayVars>>

\* Mutation: the cached figure has no time to live.
AgeDayNever == UNCHANGED <<day, dayTTL>>

AgeDay ==
    /\ dayTTL' = IF dayTTL > 0 THEN dayTTL - 1 ELSE 0
    /\ day' = IF dayTTL > 1 THEN day ELSE None

\* Time passes and keys expire.
Tick ==
    /\ IF slotsTTL = 1
       THEN /\ slotsTTL' = 0 /\ slots' = 0
            /\ under' = (held # {}) /\ stranded' = FALSE
       ELSE /\ slotsTTL' = IF slotsTTL > 1 THEN slotsTTL - 1 ELSE slotsTTL
            /\ UNCHANGED <<slots, under, stranded>>
    /\ AgeDay
    /\ UNCHANGED <<at, chosen, gone, held, spent, loaded, load, leaked, wiped>>

\* What a handler does without waiting for the provider.
Proceed(r) ==
    \/ ReadDay(r) \/ SumDay(r) \/ KeepDay(r) \/ CheckSlots(r)
    \/ Incr(r) \/ Expire(r) \/ ExpireLost(r) \/ Select(r) \/ Count(r)
    \/ Settle(r) \/ Decr(r) \/ Drop(r)

Next ==
    \/ \E r \in Requests : Begin(r) \/ Proceed(r) \/ Uncount(r)
                           \/ Disconnect(r) \/ Crash(r)
    \/ ResetInflight
    \/ Tick

\* A goroutine that does not wait for the provider goes on, and time passes.
Spec ==
    /\ Init /\ [][Next]_vars
    /\ \A r \in Requests : WF_vars(Proceed(r))
    /\ WF_vars(Tick)

-----------------------------------------------------------------------------
\* The counter is at least the number of requests that were counted and still
\* run, unless it expired under one of them: no request is taken off twice,
\* and none that was refused is taken off.
SlotsCover == ~under => Cardinality(held) <= slots

\* Before the next erasure a channel's load is at most the requests in flight
\* on it, unless one left without being uncounted.
LoadCeiling ==
    \A c \in Channels \ leaked : load[c] <= Cardinality(InFlight(c))

\* And at least that many, unless it was erased under one of them.
LoadFloor ==
    \A c \in Channels \ wiped : load[c] >= Cardinality(InFlight(c))

\* What least_load compares is what is in flight, in both directions.
LoadTracksCalls == LoadCeiling /\ LoadFloor

\* A user whose slots were lost (the pod died, the client went away, two
\* requests raced) is let in again when the key expires, provided the last
\* increment was followed by its EXPIRE.
LockoutHeals == []<>(slots < MaxConcurrent \/ stranded)

\* Once the day's consumption is at the limit, requests are let in for as long
\* as an older figure is cached or about to be cached, and then no more.
LimitBites ==
    <>(spent = DailyLimit) =>
        <>[][\A r \in Requests :
                ~(at[r] \in {"day", "keep"} /\ at'[r] = "slots")]_vars
=============================================================================
