# TokenHub: specifications of the billing core

TLA+ modules, TLC runs and TLAPS proofs for the Go backend in `src/`: an API
gateway that sells access to AI models, with prepaid balances, payments,
refunds, referral commissions and withdrawals around it.

Paths below are relative to `src/`.

## 1. Inventory

The backend is one Go program, deployed as several identical pods behind a load
balancer. Pods share MySQL (through GORM) and Redis, nothing else. Goroutines of
one pod and those of different pods therefore meet in the same two places: rows
and keys. MySQL gives transactions (`SELECT ... FOR UPDATE` where the code asks
for it), Redis gives single commands and scripts; the locks taken in Redis have
a TTL and nothing ties them to a transaction.

| Component | State | Operations | Hard behaviour |
|---|---|---|---|
| balance ledger (`internal/service/balance`) | `user_balances` (each amount in credits and in billing units), `freeze_records` | freeze, settle, release, deduct, recharge, adjust, lazy expiry | two ledgers in one row; holds open across requests; lock with TTL |
| main API (`internal/handler/v1`, `internal/service/billing`) | the request's goroutine, its hold, its billing status | freeze, select a channel, call, fail over, stream, settle or release, commission | many ways out; the hold, the charge and the channel's load each have to be closed on every one |
| chat API (`internal/handler/chat`) | the request's goroutine | quota check, freeze, call, settle or release, fallback deduction | the request dies, errors are dropped, the client leaves and cancels the context |
| quota limiter (`internal/service/balance`, `QuotaLimiter`) | counter of running requests, cached consumption, both with a TTL | check, increment, decrement | check then increment, INCR then EXPIRE, expiry under a running request |
| channel router and circuit breaker (`internal/service/channel`) | breaker keys, requests in flight per channel | select, record a result, trip, probe, close, reset | state, date and counts in several keys, written command by command by several pods |
| scheduler (`internal/cron`) | last scan, per-task lock | release expired freezes, settle commissions, reset counters | read, then act in a later transaction; erasing counters in use |
| commissions (`internal/service/referral`) | attribution, commission records, cached decision | resolve the rule, cap, record, invalidate | lifetime cap read before the record; a slow load stores what was invalidated |
| referral bonuses (`internal/service/referral/attribution_bonus.go`) | attribution flags, bonus records | unlock, invitee and inviter bonus | monthly cap read before it is used, overlapping callbacks |
| withdrawals (`internal/service/withdrawal`) | withdrawal requests, pending key in Redis, commission status | create, cancel, approve, reject, mark paid, settle | status read outside the transaction that changes it |
| payments (`internal/service/payment`) | payments, callbacks | create, callback, credit, route to an account | duplicated callbacks, crash between status and credit |
| refunds (`internal/service/payment/refund_service.go`) | refund requests, `refunded_amount` | submit, approve, reject, execute | asynchronous execution, external gateway, stale totals |
| task queue (`internal/taskqueue`) | stream, pending list, de-duplication key, progress channel | publish, consume, report, stream to the client | at-least-once, publish before subscribe, crash before ACK |

The remaining components are listed in `PROJECT.json` with the reason why they
are not modelled. Most (catalogue scrapers, provider adapters, reports, CRUD
services, the other HTTP handlers, start-up, web client) hold no protocol
between steps. The others are in section 5.

How the modelled ones interact: a request of either API freezes, settles and
releases on the ledger, asks the limiter, asks the router, whose breakers get
the result, and at its end starts a commission computation in the background.
A payment callback credits the ledger and grants the bonuses. The hourly task
closes holds the requests left open. Withdrawals and refunds take from the
ledger. Delegated work goes through the task queue.

What makes the modelled part correct:

- no operation but a refund takes the ledger below zero, open holds stay
  reserved, a charge does not spend what another request has reserved, units are neither created nor lost,
  every hold is closed in the end, a lock holder is alone;
- money that enters or leaves does so once: one credit per payment, one bonus
  per invitee, one refund or one payout per withdrawal;
- a metered request is billed once and its hold closed, on every way out;
- a cap is passed by the races of the code alone, and by a bounded amount;
- what a counter counts is what runs; a user whose counter was lost is let in
  again;
- a failing channel is left for the timeout, and found again;
- a request accepted by the queue is answered.

## 2. Modules

| Module | What it is | Extends / instantiates |
|---|---|---|
| `SumTheorems` | facts about sums over finite sets | - |
| `UnitLedger` | arithmetic of one row: conversions, hydration, charge | - |
| `BalanceLedger` | one account with its requests, cron task and other writers | `UnitLedger` |
| `BalanceLedgerProofs` | theorems about the account | `BalanceLedger`, `SumTheorems` |
| `Withdrawal` | the withdrawals of one user | - |
| `WithdrawalProofs` | theorems about them | `Withdrawal`, `SumTheorems` |
| `Payment` | orders and gateway notifications | - |
| `PaymentProofs` | theorems about orders, and about orders with their refunds | `Refund`, `SumTheorems` |
| `Refund` | refund requests, composed with the orders they share rows with | `Payment` |
| `TaskDelivery` | abstract specification of the task queue | - |
| `TaskQueue` | stream, workers, progress channel | instantiates `TaskDelivery` |
| `TaskQueueProofs` | theorems about the queue, refinement included | `TaskQueue` |
| `CircuitBreaker` | the breaker of one channel, command by command | - |
| `ChatGateway` | limits, slots and channel loads of one user's requests | - |
| `ChatGatewayProofs` | theorems about them | `ChatGateway` |
| `Commission` | commissions of one inviter, rules and cached decisions | - |
| `InviterBonus` | bonuses of one inviter for its invitees | - |
| `ReferralProofs` | theorems about commissions and bonuses | `Commission`, `InviterBonus`, `SumTheorems` |
| `Completions` | requests of the main API from hold to end | - |
| `ChannelProofs` | theorems about breakers and requests of the main API | `CircuitBreaker`, `Completions` |
| `MCBalanceLedger`, `MCWithdrawal`, `MCRefund`, `MCCommission`, `MCInviterBonus`, `MCCompletions` | instances for TLC | the module of their name |

A definition whose comment begins with `Mutation:` is not part of any
specification. It is the definition below it with a plausible bug, and each
checked property names one in `PROJECT.json` that breaks it.

### What is one action

- A database transaction that locks its row first (`clause.Locking`), and a
  single `UPDATE`, is one action: MySQL lets nothing in between.
- A read outside a transaction, a Redis command, a call to a gateway and the
  code after a commit are actions of their own. Whatever another goroutine or
  pod can do in between, the model can do.
- `payment_service.go:482` asks for its lock with
  `Set("gorm:query_option", "FOR UPDATE")`, which the GORM of `go.mod` does not
  read. That transaction therefore is two actions: `CreditRead` and `CreditSave`
  in `Payment`, `PaymentReads` and `PaymentSaves` in `BalanceLedger`.
- A context that is cancelled, a pod that dies and a database error are steps
  of the model (`Abandon`, `TxFails`, `PaymentFails`, `ProcessUnwritten`,
  `CreateDies`, `CallDies`, `CreditFails`, `DeliveryDies`, `RefundTxFails`,
  `ReviewDies`, `WorkerFails`, `CommandFails`, `Crash`, `PodDies`, `Disconnect`,
  `GiveUp`, `Die`). An error the code drops continues with the value the code goes on
  with: a sum that fails is 0 in `Commission`, a counter that cannot be read is
  0 in `ChatGateway`, a breaker that cannot be read is closed.
- Time is a step that may happen when it can (`LockExpires`, `FreezeAges`,
  `QuotaExpires`, `DayPasses`, `Ages`, `KeyExpires`); no duration is compared
  with another, except where the code relies on one: `KeyExpires` (below), and
  the modules with a `Tick`, whose TTLs and deadlines are counted.

### BalanceLedger

| State | Code |
|---|---|
| `units`, `credits` | the `...Units` and the plain columns of `user_balances`; a ledger is a function from the five columns |
| `status`, `held` | `freeze_records`: `Status`, `FrozenUnits` |
| `lock`, `lease` | `user:<id>:balance_lock`; `lease` is what became of the lock a request took (the holder cannot see that its TTL is over) |
| `pc` | where the goroutine of `Completions` / `handleCompletion` stands |
| `aged`, `batch` | freezes older than five minutes; what `releaseFrozenRecords` has read |
| `unlocked`, `bonusGranted`, `bonusRecords` | the invitee's attribution and its `INVITEE_BONUS` records |
| `quotaExpired`, `purges` | `FreeQuotaExpiredAt` and the goroutines `GetBalance` starts |
| `reads` | the row as the transaction of a paid order has read it, not yet saved |
| `overwritten`, `refunds` | history: a payment has saved over what others wrote; refunds taken from the balance |

A request goes `start` → `freeze` → `unlockServe` → `serving`, then to
`settleLock` → `settle` or `releaseLock` → `release`, then `attr` → `grant` →
`unlockDone` → `done`. One whose estimate is zero goes to `serving` at once and
ends with `Deduct`. `SaveUnits` is what a unit operation writes (both
ledgers), `SaveCredits` what a credit operation writes (one of them). Which of
the two an operation uses is the point of the module: freeze, deduct, recharge
and adjust work on units; settle, release, the cron task and the bonuses work on
credits and leave the unit columns alone.

The services that write the row from outside are in the module as their effect
on it: `CreditBalance` (inviter bonus, returned withdrawal, settled commission),
`WithdrawBalance` (a guarded `UPDATE`), `RefundBalance` (an unguarded one, the
only writer that takes the balance below zero) and the payment, which saves a
whole row in both ledgers. What those services do around it is in `Withdrawal`,
`Payment` and `Refund`, where in turn the account is one number.

### Withdrawal

`balance` is the credit column, `status`, `amount` and `refunds` the request
rows and their journal, `pendingKey` the key
`withdrawal:pending:user:<id>` (its value is the request for which it was set,
which the code does not store and does not compare), `today` the requests of the
last 24 hours. `creating` is the goroutine of `CreateWithdrawal`; `calls` are
the goroutines of the other operations, each with the request it has read. A
request is pending, approved, completed, rejected or cancelled; `ReadRequest`
checks the status, `WriteRequest` writes without checking, `ClearPending` deletes
the key.

### Payment and Refund

`delivery` are the goroutines of `HandleCallback`, one for each notification:
`update` (the order was read), `credit`, `save` (the balance row was read),
`idle`. `review` are the calls of administrators with the goroutine an approval
starts: `approve` or `reject` (the request was read), `process`, `load`,
`gateway` (the order was read), `tx`, `fail`. `submitting` are the requests that
have passed the checks of `SubmitUserRequest`. `paid` and `returned` belong to
the gateway: what the user paid, what was given back. The two modules share
`payStatus` and `balance`, so `Refund` is the composition.

### TaskQueue and TaskDelivery

`stream`, `cursor`, `pending` are the stream `tasks:worker` with its group,
`claimed` the keys `task:processed:<id>`, `worker` the consumers in
`processMessage`, `client` the calls of `PublishAndWait` /
`PublishAndStream`, `inbox` their Pub/Sub subscriptions. `outcome` is a history
variable: what became of the execution, known to nobody in the code when the
worker is lost. `Append_` may happen more than once for a task (a retried
`XADD`). `KeyExpires` needs the window to be over and no worker to stand
between the two checks on the task: the key lives one hour, the window is five
minutes, and there is no wait between the checks, so this is what the
durations in `types.go` say.

`TaskDelivery` is what a handler may rely on: a task goes
none → queued → running → completed, failed or lost, once, and an answer is the
final state of it. The mapping (`TaskState`, `Told`) reads the first from
`outcome` and the stream, the second from the calls.

### CircuitBreaker

`state`, `openAge` and `counts` are the three keys of a channel
(`breaker:state`, `breaker:open_at`, `breaker:counts`); `stateAge` and
`countsTTL` their times to live, of which only an open state has one. `at` is
the command a goroutine sends next: `ReadState`, `ReadOpenAt`, `HalfOpen` are
`State`; `RecordSuccess`, `Close`, `Forget`, `Clear` and `RecordFailure`,
`ReadRate`, `Trip`, `Stamp` the two reports, whose first command is a pipeline
and therefore one action. The router (`channel_router.go`) asks `IsOpen` when
it selects and reports when the call ended, so this breaker is on the way of
every request. `quiet` is a history variable: when the last trip was dated,
nobody stood between the decision to overwrite it and the command that does.

### ChatGateway

| State | Code |
|---|---|
| `slots`, `slotsTTL` | `concurrent:<user>` of `IncrConcurrency` / `DecrConcurrency` |
| `spent`, `day`, `dayTTL`, `loaded` | the day's `CONSUME` records, their cached sum, the sum a request has read |
| `load`, `chosen` | the hash `channel:inflight`, the channel of a request |
| `gone` | requests whose context is cancelled: their Redis commands and queries fail, the router's do not |
| `held`, `under`, `stranded`, `leaked`, `wiped` | history, for the exceptions of the properties |

A request goes `day` (→ `sum` → `keep` on a miss) → `slots` → `incr` →
`expire` → `select` → `count` → `call` → `settle` → `decr` → `drop`. A request
that is refused before `incr` gives nothing back; `Decr` is deferred after it.

### Commission and InviterBonus

`Commission`: `at`, `left`, `got`, `seen`, `part` are a goroutine of
`CalculateCommissionsAsync`: where it stands, the time to its deadline, the
decision of `RuleResolver.Resolve`, the sum it has read, the commission it will
record. `ruled` and `overridden` are the tables, `cached` the key
`comm_rule:<inviter>:<model>`, `purging` a rule handler between its commit and
`InvalidateByRule`. A decision is a record of share and cap, since these are
what the properties tell apart.

`InviterBonus`: `paid`, `valid`, `granted`, `month` are the completed payments
of an invitee and the columns of its attribution; `stage`, `who` the callbacks in
`TryGrantInviterBonus`. The threshold, the cap of the month and the balance are
read before the transaction; `Grant` is the transaction, whose guarded
`UPDATE` (`RowsAffected`) decides.

### Completions

`kind` is the endpoint, `stage` the place of the goroutine, `hold` the freeze record, `tries`, `chan`, `routed` the
attempt of the failover loop, `result` what came of the upstream, `bill` the
billing status, `gone` the requests whose context is cancelled. A request goes
`start` → `select` → `call` (→ `stream` or `native`) → `settle` (→
`commission`) or `release` → `end`, from `call` back to `select` when a chat's
attempt fails. The two APIs differ where the code does: FIM has one attempt,
starts with a channel nobody counted, and records results in `handleStreamChat`
alone. The row behind `hold` is `BalanceLedger`; here a query on it succeeds
or fails, and `CronRelease` may close the hold under the request.

## 3. Runs

| Run | Module | Distinct states | Properties |
|---|---|---|---|
| `ledger_safety` | `MCBalanceLedger` | 2 691 202 | `NoOverdraft`, `LeaseExcludes`, `HoldsReserved`, `BonusPaidOnce`, `SpendKeepsHolds`, `UnitsConserved` |
| `ledger_payments` | `MCBalanceLedger` | 531 716 | `HoldsReserved`, `HoldsClosed` |
| `withdrawal_safety` | `MCWithdrawal` | 95 819 | `BalanceCovered`, `NothingLost`, `RefundsOverlap` |
| `orders_safety` | `MCRefund` | 350 242 | `OnlyPaidCredited`, `NothingInvented`, `DebitsCovered`, `RecreditNeedsRefund` |
| `orders_serial` | `MCRefund` | 1 562 | `RefundsCounted`, `RefundFlow`, `ApprovedEnds`, `PaidIsCompleted` |
| `orders_credited_once` | `MCRefund` | violation | `CreditedOnce` |
| `taskqueue_delivery` | `TaskQueue` | 171 941 | `OneRunner`, `DeliversTasks`, `Answered` |
| `breaker_safety` | `CircuitBreaker` | 147 350 | `TripHolds`, `NoProbeOfClosed`, `NeverStuckOpen` |
| `gateway_safety` | `ChatGateway` | 441 066 | `SlotsCover`, `LoadTracksCalls`, `LockoutHeals`, `LimitBites` |
| `commission_safety` | `MCCommission` | 1 541 379 | `CapOvershoot`, `StaleBounded`, `OnlyRacesPass` |
| `inviter_bonus` | `MCInviterBonus` | 811 022 | `BonusOncePerInvitee`, `MonthlyOvershoot`, `PaidIsRewarded` |
| `completions_safety` | `MCCompletions` | 1 796 091 | `CompletionsTypeOK`, `OneCharge`, `MeteredIsBilled`, `HoldsEnd`, `LoadBalanced` |

The type invariants are proved, and the runs do not repeat them, but for
`CompletionsTypeOK`, which also says that no attempt is made after the last.

### What they show

- **`ledger_safety`**. Two requests, in every order with each other and with
  the cron task, lapsing locks, expiring quota, recharges, adjustments,
  withdrawals, refunds and other writers: only a refund takes a column below
  zero, an unexpired lock is exclusive, every open
  hold is reserved in the unit ledger, the invitee bonus is paid once, a charge
  that checks for funds leaves nothing reserved uncovered, and no unit operation
  but an adjustment or the expiry of the free quota makes or destroys units. `HoldsReserved` is an inequality: because settle and
  release do not touch the unit columns, the frozen units of a closed hold stay
  frozen.
- **`ledger_payments`**. The same account while payments save rows they read
  before a freeze, a charge or a release: the old row is as little overdrawn as
  the new one, holds stay reserved unless a save has undone a freeze, and every
  hold is closed in the end, even if its request died. The payments have a run
  of their own because a remembered row multiplies the states.
- **`withdrawal_safety`**. The balance is not overdrawn although it is read
  before the lock, and the user never loses money, in any order of
  cancellations, reviews, failures and retries. An amount can be given back
  more than once, since the status is read outside the transaction:
  `RefundsOverlap` bounds this by the calls that ran at the same time.
- **`orders_safety`**. Only a paid order is credited; overlapping
  notifications may lose credits but never create them; the user is never
  debited for a refund the gateway has not made, as long as it reports a failure
  as an error; deliveries that do not overlap credit an order again only when a
  part of it was refunded in between.
- **`orders_serial`**. Without overlapping reviews the requests keep the
  workflow of the model's comment, completed refunds are counted in
  `refunded_amount`, approved refunds end and paid orders are completed.
- **`taskqueue_delivery`**. The queue implements `TaskDelivery`; a call that
  listens while its task runs is answered.
- **`breaker_safety`**. A trip keeps the channel out for the whole timeout,
  whatever late calls report, unless somebody had decided to overwrite it before
  it was dated; `NoProbeOfClosed` is what the script of `State` is for; and no
  order of the two `SET`s, the two `DEL`s, crashes and expiries leaves the
  breaker open for good, once commands stop failing.
- **`gateway_safety`**. The counter of running requests never falls below what
  runs, unless it expired under a request, so that the limit is not passed by
  decrements too many. A lost slot locks the user out until the key expires
  (`LockoutHeals`), for good only when the `EXPIRE` was not sent (`stranded`). A
  channel's load is what is in flight on it; the exceptions are requests that
  leave between `IncrementLoad` and `RecordResult`, and the erasure by the
  scheduler. The daily limit is enforced late, because its figure is cached, and
  then for good (`LimitBites`).
- **`commission_safety`**. The lifetime cap is passed by at most one share for
  each other goroutine, and only by what the others recorded between sum and
  record. A decision that no longer holds is served for less than the deadline of
  a goroutine and the life of the key, whether its invalidation failed, was
  overtaken by a slow load or, for overrides, is not sent at all.
- **`inviter_bonus`**. One bonus for each invitee however many callbacks pass the
  checks together; the month's cap is passed by less than the callbacks at
  once; nobody who has paid enough is forgotten, although every callback sums
  for itself.
- **`completions_safety`**. Whatever attempts fail and wherever the client
  leaves: at most one charge and one commission computation, of an answer and
  never of a failure; a metered request is billed; the hold is closed; what was
  counted on a channel is uncounted on that channel. Each property names its
  exceptions: a failed billing, a dead pod, and the FIM streams of the list
  below.

### Disagreements between comments and code

One run has a single property that comes from a comment, and ends in a
counterexample of the code as it is: `CreditedOnce`. Two notifications read the
order before either completes it, and it is credited twice; `PROJECT.json`
quotes the line.

Other things the models show, kept with the hazards and in the exceptions of the
properties:

- Settling writes the credit columns; the unit columns keep the old amount, and
  the next unit operation derives the credits from them.
- A payment saves the row it read without a lock: a charge in between is undone
  (`overwritten`).
- Two calls that read one withdrawal as pending both return its amount, or one
  returns what the other pays out. The end of any call deletes the pending key,
  also when a newer request has set it.
- An order that was refunded in part is not in a state the callback skips: a
  repeated success completes and credits it again (`RecreditNeedsRefund` says
  that this is the only way without an overlap).
- A task reported before its call subscribes leaves the call waiting for its
  timeout.
- A request whose client leaves between `INCR` and `EXPIRE` makes a counter
  without a time to live.
- A FIM stream that breaks off after a usage is neither charged nor released; its
  hold waits for the hourly task. Native FIM calls leave the channel's load
  counted, and a FIM result on a channel the router did not choose is uncounted
  without having been counted.
- A cost that could not be collected still starts a commission computation.

### Bounds

- **Account**: two requests are enough for one to meet another's hold, lock or
  bonus, and two units to a credit for half a credit to be frozen and rounded
  away (10 000 in the code: the theorems hold for every rate). One credit of
  gift, a recharge of one and a half, an adjustment of minus one, a grant of
  one, estimates of one and two credits, costs of none and two: charges below,
  at and above the estimate and the funds occur. `MaxUnits` bounds what
  deposits may add, `MaxPurges` the expiry goroutines in flight, `MaxRefunds`
  the refunds (one is enough for a negative balance). The thresholds are set so
  that a charge crosses them. Requests are symmetric. In the runs with payments
  one payment at a time is in flight, any number after another, beside two
  requests and the cron task; recharges, adjustments, grants and expiry are off
  there (empty sets), as is the bonus (a threshold out of reach).
- **Withdrawals**: two requests of two or three credits on a balance of four
  (both fit, or only one), a spending of two, two calls at a time; two are what
  a race of a read with a write needs. Requests and calls are symmetric.
- **Orders**: one order of three RMB with refunds of one and two: one partial,
  both together the whole. `orders_safety` has one delivery at a time,
  but any number after another; `orders_credited_once` has two. `MaxRecharges` bounds how often a
  repeated success may be credited (two in `orders_safety`, so that a partial
  refund lets it happen again). `CreditPerRMB` is two.
- **Queue**: two tasks (one without a handler), two workers, two messages: two
  copies of one task, or one of each. `MaxMessages` bounds the executions of
  `XADD`; nothing bounds failures, expiries or departures.
- **Breaker**: two goroutines, so that one may stand at any command of one
  report while the other does a whole cycle; trips at two failures in a row or a
  rate of one half of two requests. The timeout is one second and the keys live
  two longer (`Slack`, ten in the code; what matters is that it is positive, and
  the theorems hold for every value). `MaxRequests` bounds the counts at four,
  twice what trips.
- **Gateway**: two requests against a limit of one, one channel, an estimate and
  a cost that fill the day's limit; times to live of one. `MaxLoad` bounds what
  lost decrements add up to. One channel, because loads of different channels
  share nothing but the erasure.
- **Commissions**: two goroutines, an override with the smaller cap, a
  configuration whose share does not divide its cap (so that a commission is
  clipped), a deadline longer than the life of a key, which makes the staleness
  bound exceed either. `MaxEarned` lets the sum reach the cap.
- **Bonuses**: three invitees for two calls: the month is full, passed by one,
  and refuses a third. Two payments are the threshold, so that two callbacks of
  one invitee meet.
- **Completions**: two requests, which meet in the loads alone, two channels, the
  code's three attempts. Nothing else is bounded.

`CHECK_DEADLOCK FALSE` stands where a request, a withdrawal, an order or a task
comes to an end and nothing is left to do. The other runs (breaker, gateway,
commissions, bonuses) check for deadlock.

### Fairness

- `BalanceLedger!Fairness`: time passes (`FreezeAges`), the hourly task runs
  (`CronScan`), and a record is not refused by the database forever
  (`CronRelease`, strong, since every failure takes it out of the batch and the
  next scan puts it back). No request is assumed to do anything: `HoldsClosed` is
  about those that died.
- `Payment!PayFairness`: goroutines run; the gateway repeats a success until it
  is acknowledged; pods do not die, and other outcomes do not arrive, at every
  single repetition. `PaidIsCompleted` is checked without crashes.
- `Refund!FairSpec`: the goroutine of an approved refund runs, and gateways
  answer. The goroutine has `context.Background()`, so nothing in the refund
  service bounds the call: that the client returns is an assumption. Crashes
  are off, and with them the failure of single statements: nothing in the code
  takes an orphaned refund up again, which the hazards record.
- `TaskQueue!FairSpec`: workers and listening calls run; a handler ends, at its
  ten-minute limit at the latest. Publishing, failing and leaving are not fair.
- `CircuitBreaker!Spec`: time passes, nothing else; a goroutine need not go on.
  `NeverStuckOpen` assumes that commands stop failing one day: with a Redis that
  fails for ever nothing can be said about what is stored there.
- `ChatGateway!Spec`: a handler that does not wait for the provider goes on, and
  time passes. That a call to the provider returns is not assumed.
- `Commission`, `InviterBonus` and `Completions` state safety only: their
  goroutines may stop anywhere, and `PaidIsRewarded`, `HoldsEnd` and
  `MeteredIsBilled` speak of those that have come to their end.

## 4. Proofs

All theorems hold for every value of the constants that the module's named
assumption allows: amounts, thresholds, timeouts and bounds are natural numbers,
conversion rate and failure rate are positive, adjustments are integers, `Nobody`
is not a request. The sets of requests, orders, deliveries, calls, tasks,
workers, goroutines, channels and invitees are arbitrary (finite where a sum or
a number is taken of them; `CapNearlyKept`, which subtracts one from the number
of goroutines, needs one).

Four theorems have a hypothesis of their own, which is a way the system is run:
`DebitsAreReturned` assumes that gateways report a failure as an error
(`~GatewayFailures`: `executeRefundAsync` reads nothing but the error);
`SerialRefundsAreCounted` and `SerialReviewsFollowTheWorkflow` assume one review
at a time, the latter also that no statement fails; `RecreditNeedsRefund`, which
`OnlyRefundsReopen` proves, speaks of one delivery at a time. The runs
`orders_safety` and `orders_serial` are instances of these, so the hypotheses
can be met.

| Theorem | States | Inductive invariant |
|---|---|---|
| `BalanceLedgerProofs!TypeCorrect` | `TypeOK` | `AccountInv` |
| `BalanceLedgerProofs!NeverOverdrawn` | `NoOverdraft` | `AccountInv` |
| `BalanceLedgerProofs!HoldsAreKept`, `NoUnitsFromNothing` | `SpendKeepsHolds`, `UnitsConserved` | `AccountInv` |
| `BalanceLedgerProofs!LeaseExclusion` | `LeaseExcludes` | itself, with types |
| `BalanceLedgerProofs!BonusOnce` | `BonusPaidOnce` | itself, with types |
| `BalanceLedgerProofs!HoldsAreReserved` | `HoldsReserved` | itself, with `AccountInv` |
| `WithdrawalProofs!WithdrawalTypeCorrect`, `WithdrawalsCovered` | `TypeOK`, `BalanceCovered` | `CoveredInv` |
| `WithdrawalProofs!NoMoneyLost` | `NothingLost` | itself, with `CoveredInv` |
| `WithdrawalProofs!RefundsNeedOverlap` | `RefundsOverlap` | `OverlapInv`, with `CoveredInv` |
| `PaymentProofs!PayTypeCorrect`, `CreditedWasPaid` | `PayTypeOK`, `OnlyPaidCredited` | `PayInv` |
| `PaymentProofs!RefundTypeCorrect`, `RefundedOrdersWerePaid` | `TypeOK`, `OnlyPaidCredited` of the composition | `OrderInv` |
| `PaymentProofs!OnlyRefundsReopen` | `RecreditNeedsRefund` | `OnceInv`, with `OrderInv` |
| `PaymentProofs!SerialReviewsFollowTheWorkflow` | `RefundFlow`, for one review without failing statements | `InStep`, with `OrderInv` |
| `PaymentProofs!CreditsAreRecorded` | `NothingInvented` | `JournalInv`, with `OrderInv` |
| `PaymentProofs!DebitsAreReturned` | `DebitsCovered` | `DebitsInv`, with `OrderInv` |
| `PaymentProofs!SerialRefundsAreCounted` | `RefundsCounted` | `CountedInv`, with `OrderInv` |
| `TaskQueueProofs!QueueTypeCorrect`, `ExecutedByOne` | `TypeOK`, `OneRunner` | `QueueInv` |
| `TaskQueueProofs!ImplementsDelivery` | `DeliversTasks` | `QueueInv` |
| `TaskQueueProofs!NoReportLost` | `ReportsKept` | `TypeOK` and `OutcomeMatches`, of `QueueInv` |
| `ChannelProofs!TypeCorrect`, `ClosedNotProbed` | `TypeOK`, `NoProbeOfClosed` | `TypeOK` |
| `ChannelProofs!TripKept` | `TripHolds` | `QuietTrip`, with types |
| `ChannelProofs!CompletionsTypeCorrect` | `CompletionsTypeOK` | `RequestsInv` |
| `ChannelProofs!ChargedOnce` | `OneCharge` | `Charged`, with `RequestsInv` |
| `ChannelProofs!UsageIsBilled`, `HoldsAreClosed` | `MeteredIsBilled`, `HoldsEnd` | `Closed`, with `RequestsInv` |
| `ChannelProofs!LoadIsBalanced` | `LoadBalanced` | `LoadInv`, with `RequestsInv` |
| `ChatGatewayProofs!TypeCorrect`, `SlotsCovered` | `TypeOK`, `SlotsCover` | itself with `HeldInv` |
| `ChatGatewayProofs!LoadBounded` | `LoadTracksCalls` | itself, with types |
| `ChatGatewayProofs!LimitIsFinal` | `LimitStays` | types |
| `ChatGatewayProofs!SlotsEnd` | `SlotsExpire` | itself, with types |
| `ReferralProofs!TypeCorrect`, `StalenessBounded` | `TypeOK`, `StaleBounded` | `StaleInv` |
| `ReferralProofs!OnlyRacesPassTheCap` | `OnlyRacesPass` | `FitsRoom`, with types |
| `ReferralProofs!CapNearlyKept` | `CapOvershoot` | `OvershootInv`, with types |
| `ReferralProofs!BonusTypeCorrect`, `OneBonusPerInvitee` | `BonusTypeOK`, `BonusOncePerInvitee` | itself, with types |
| `ReferralProofs!MonthlyCapNearlyKept` | `MonthlyOvershoot` | `MonthInv` |
| `ReferralProofs!PaymentsAreRewarded` | `PaidIsRewarded` | itself, with types |

**`AccountInv`** is `RowNat /\ FlagsOK /\ RestOK /\ ClosesARecord`.
`NoOverdraft` is not inductive alone: a payment brings an old row back, so the
range is stated of every row in `reads` as well (`GoodCredits`: only a refund
has taken the balance below zero). `DeductUnits` compares the cost with
balance + free − frozen and then splits it over free and balance: that neither
goes below zero needs the frozen column to be at least zero, in the unit ledger
and, since hydration fills zero units from credits, in the credit ledger as
well. So the range of the row is proved together with the types (`RowNat`). That
a closed record had an amount, on which the type of `held` rests, needs
`ClosesARecord`: whoever is about to settle or release works on a record that
exists. `HoldsAreKept` and `NoUnitsFromNothing` rest on `SavedIsHydrated`: what a
unit operation saves is its own hydration, because a row without units has no
credits either (`NoUnitsNoCredits`), so the wealth of the row can be compared
before and after. The rest of the arithmetic is in lemmas of its own (`CreditsOfUnits`, `PaidBounds`,
`SpendNat`: a covered charge keeps every column natural and the wealth the
same).

`HoldsReserved` is inductive beside it. A freeze adds one amount to both sides
(`FreezeAddsHold`), no other step opens a hold or lowers the frozen units of the
unit ledger (`HoldsNoMore`), hydration included (`HydratedFrozen`), and the save
of a payment, which may lower them, sets `overwritten` when it saves over what
others wrote in between.

**`CoveredInv`** adds to the types that the other calls work on requests whose
creation is over, so that a `WriteRequest` cannot meet a request without a row.

`NothingLost` is inductive beside it: what a step takes from the balance is
spent, or becomes the amount of a request that is underway, and a request leaves
`Underway` in the transaction that gives its amount back. A refund without such a
request adds to the balance alone, and the inequality allows it.

**`OverlapInv`** counts, of each request, its refunds, the payment or the call
that may still make it, and the calls that have read it as pending and not
written (`Deciding`): together at most the number of calls. While the request is
pending nothing is refunded and every call is at most in `Deciding`; once
one of them has written, no other can join, because `ReadRequest` looks at the
status. An approval passes its place to `Payable`, and a payment is made by
`markPaid`, which needs it.

**`PayInv`** adds `DeliveryOfPaid`: whoever is about to complete an order, or to
credit it, works on a paid one. Status and credit are two transactions, so the
fact has to travel with the goroutine.

**`OrderInv`** adds `ReviewsARequest` to `PayInv` and the types: a request under
review has been created, so that no review writes to one that is only being
submitted, whose creation would then bring it back to pending.

**`OnceInv`** is about one delivery at a time. While nothing of an order is
refunded, the order is final from the moment its delivery is about to credit
it, and no delivery holds it once it is credited. A direct refund keeps it final; the
transaction of a request may not, and records a refunded amount.

**`InStep`** says what the status of a request is while a review of it stands
somewhere: reading and writing it are separate steps, and between them only the
same review could change it.

**`JournalInv`** says of the rows that deliveries have read what
`NothingInvented` says of the balance, because a delivery saves the row it read
with the credit added. The journal only grows, so an old row is covered by it.

**`DebitsInv`** counts what a review has been given by the gateway and has not
debited yet (`AllDue`), since the answer of the gateway and the transaction are
two steps. A transaction moves an amount from due to debited; one that fails, or
whose pod dies, drops it.

**`CountedInv`** says that what the review has read of its order is still what
the order says: `executeRefundAsync` writes the sum it computed from its read.
With two reviews it is false, and so is `RefundsCounted`.

**`QueueInv`** is `TypeOK`, `OneReader` (a message is with one worker),
`ExecutedSealed`, `OneExecutor`, `OutcomeMatches` and `Truthful`. The notion it
turns on is `Sealed(t)`: no worker can pass the two checks for task `t` any
more, because its key is set, or because it is too old and nobody stands between
age check and key. Everything that has run, or will, is sealed; this is what
survives the expiry of the key, and the reason why the window has to be shorter
than the key's life. `Truthful` says that a final status in an inbox or an
answer is the outcome. `ImplementsDelivery` then maps every step of the queue
to a step of `TaskDelivery` or to none: `Append_` to `Queue` (its
first copy), `Start` to `Run`, the end of a handler or its loss to `End`,
a final `Hear` to `Answer`. `ReportsKept` says what a call that waits can
expect of a step: it waits on, its report is in its inbox, it is answered, it
leaves, or its worker is lost. So between the worker's report and the answer
nothing is lost, and `Answered` has only fairness left to add.

**`QuietTrip`** says why a trip lasts: the state key outlives the date
(`stateAge < openAge + Slack`), the date is too young for anybody to decide to
half-open, and nobody is left who decided before (`Undoing = {}`). The last
part is what `TripHolds` lacks.

**`RequestsInv`** adds to the types what is known of a request from where it
stands (`Placed`): one that still tries has attempts left and no result, one that
settles has an answer or a broken stream, one that releases has neither.
**`Charged`** puts every charge behind the attempts and every commission behind
the charge, so that neither is met again; **`Closed`** carries what the way to
the end has established (a bill, a closed hold, or one of the named exceptions)
over the commission to the end. The cron task may close a hold at any point
before, which `Charged` has to survive: it closes frozen ones, and a charge
leaves none.

**`LoadInv`** is the balance of `LoadBalanced` with `Tracked`: what the router has
counted of a request is counted until its result is recorded or it is lost, and
only a first attempt is made on a channel the router did not count. Without the
last part a request could report two results nobody counted, on different
channels, and `uncalled` remembers one.

**`HeldInv`** ties the requests whose slot was counted to the place where they
stand, so that a decrement is known to be of a counted request. `SlotsExpire`
follows every `INCR` to its `EXPIRE`: the only counters above zero that never
end are those whose `EXPIRE` was lost. `LimitStays` says that the cached figure of
the day, once it is at the limit, is not replaced by an older one, although the
requests that store it read it earlier.

**`StaleInv`** says of every goroutine that carries a decision read before the
tables changed (`Carried`) that the time since the change and the time it has left
are at most its deadline: so the entry it may still store lives no longer than
the bound. **`FitsRoom`** relates what a goroutine will record to the sum it read.

**`MonthInv`** counts the callbacks that passed the check of the month together
with the bonuses of the month. `PaidIsRewarded` is inductive as it stands: a
callback ends without a bonus only for one of the reasons the property names,
and every payment starts one that reads the sum after it.

**`OvershootInv`** adds that a computed commission is at most `MaxShare`. A sum
that is read counts what is recorded, so the last to read one leaves room for
what it will record, and every other goroutine adds one share at most.

**Sums.** Money in several rows is added up with `SumFunctionOnSet`, a fold of
the community modules. `SumTheorems` proves what the invariants need of it: that
the recursion behind the fold defines a function, that any element may be taken
first, and from that how a sum changes when one value changes, when an element
joins or leaves, and what bounds it. The induction behind these is stated of a
set of numbers, or of a family of subsets, instead of a predicate, so that no
theorem with an operator as parameter has to be instantiated.

### Model-checked only

- Liveness: `HoldsClosed`, `ApprovedEnds`, `PaidIsCompleted`, `Answered`,
  `NeverStuckOpen`, `LockoutHeals`, `LimitBites` (fairness is outside what the
  provers treat). The safety three of them rest on is proved: `ReportsKept` for
  `Answered`, `SlotsExpire` for `LockoutHeals`, `LimitStays` for `LimitBites`.
- `CreditedOnce`, which is false: its run ends in a counterexample.

Every invariant and every action property of the other runs is proved.

## 5. Not modelled

- `balance_records` beyond the records counted above (listings, reports and
  the daily and monthly consumption read them), the RMB mirror columns and the
  rounding of amounts for display.
- The account as one number in `Withdrawal`, `Payment` and `Refund`: that a
  payment saves over a withdrawal's debit is shown by `BalanceLedger`, not by
  `NothingLost`, whose other services only spend and lock the row.
- `SettleBalanceUnits`, which `SettleUsage` calls (`billing_service.go:190`,
  `:296`), is defined by no file of the repository. `Completions!Charge` and
  `ChargeFails` are what its caller expects of it, and are marked external.
- What nothing calls: `AutoSettleAndCredit` (its tests only), `MarkCommissionRefunded`,
  `InvalidateByUser`, `InvalidateAll`, `settleOne`, `ExpireAttributions`,
  `handleChat` of the main API; the health checker and the backup monitor, which
  nothing starts. The settlement of the scheduler sets commissions to settled
  and credits nobody (a hazard notes it).
- The counters `abuse:conc` and `abuse:rpm` and the token budget: the commands and
  the races of `ChatGateway`'s slots. The sliding window of the rate limiter is
  one script, and the idempotency middleware one `SETNX` no handler relies on.
- `jsoncache` and `usercache`: the protocol and the race of `Commission`'s cached
  decision.
- Orders in foreign currencies, account routing, the event log, and the events
  published after a credit.
- Signatures and payloads of tasks; what a handler does is its reports.
- Several users: rows of different users share nothing in these services; the
  loads and breakers they do share are driven by any goroutine.
- Orchestration: steps of one request one after another, over local variables.
- Everything else of the inventory's last paragraph: HTTP handlers, catalogue,
  adapters and CRUD are most of the repository's lines, and have no state
  between two calls that a model could say more about than a test.

## 6. Plan

What is left, the most important first.

1. **`Account`**: the row of `BalanceLedger` with `Withdrawal`, `Payment` and
   `Refund` as its writers, in place of the effects that stand for them: what
   the user has paid in, spent and taken out, against what the row says, until a
   payment overwrites it.
2. **Abstract specifications**: a channel that is closed, open or probing for
   the breaker, a slot that is free or taken for the gateway, as refinements,
   proved step by step as `ImplementsDelivery` is: `QuietTrip` and `HeldInv` are
   what their mappings need.
3. **Safety behind the other liveness properties**: that a frozen record stays
   within reach of the hourly task (`HoldsClosed`), that a paid order keeps a
   notification that may complete it (`PaidIsCompleted`), and that every open
   breaker has a way out (`NeverStuckOpen`).
4. **Images and video**: the other users of the billing service, with the
   holds of `Completions` and prices in units.
