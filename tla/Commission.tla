----------------------------- MODULE Commission -----------------------------
(***************************************************************************)
(* The commission an inviter earns on what one invitee consumes             *)
(* (CommissionCalculator), and the share it is computed with                *)
(* (RuleResolver): a rule for the inviter and the model, else an override   *)
(* of the inviter, else the configuration, kept in Redis for ten minutes.   *)
(*                                                                         *)
(* Every order starts a goroutine of its own with a deadline.  Its queries  *)
(* are separate statements: the sum of what was earned before is read twice *)
(* and the record is inserted later.  Two administrators work beside it:    *)
(* one of the rules, whose handlers delete the cached decision after their  *)
(* transaction, and one of the overrides, whose handlers do not.  Reads     *)
(* whose answer no property depends on are left out.                        *)
(***************************************************************************)
EXTENDS Integers, FiniteSets, FiniteSetsExt

CONSTANTS
    Jobs,            \* goroutines that compute the commission of an order
    Config,          \* what the configuration says: share of an order, cap
    Override,        \* what the override of the inviter says
    RuleShare,       \* share of an order under the rule, which has no cap
    TTL,             \* 10 minutes: life of a cached decision
    Timeout,         \* 3 minutes: deadline of a goroutine
    Faults,          \* whether queries and commands fail
    MaxEarned        \* bound: no order is started above it, nor after a
                     \* sum that failed

Settings == {Config, Override, [share |-> RuleShare, cap |-> Config.cap]}

ASSUME CommissionAssumption ==
    /\ IsFiniteSet(Jobs) /\ Jobs # {}
    /\ Config \in [share : Nat \ {0}, cap : Nat \ {0}]
    /\ Override \in [share : Nat \ {0}, cap : Nat \ {0}]
    /\ RuleShare \in Nat \ {0}
    /\ TTL \in Nat \ {0} /\ Timeout \in Nat \ {0}
    /\ Faults \in BOOLEAN

\* The rate of 0 without which no commission is computed, and the value of a key
\* that does not exist.
None == [share |-> 0, cap |-> 0]

VARIABLES
    at,              \* what a goroutine does next
    left,            \* time to its deadline
    got,             \* the decision it computes with
    seen,            \* what it read as earned before
    part,            \* commCredits, the commission it is about to record
    attr,            \* the attribution of the invitee
    ruled,           \* whether a rule is active
    overridden,      \* whether an override is active
    purging,         \* a rule was written, its cached decision not yet deleted
    cached,          \* comm_rule:<inviter>:<model>
    cachedTTL,       \* its time to live, 0 when the key does not exist
    earned,          \* sum of the commissions recorded
    since,           \* history: time since the decision last changed, or a
                     \* failed query was taken for an answer
    blind            \* history: some sum failed and was taken for 0

vars == <<at, left, got, seen, part, attr, ruled,
          overridden, purging, cached, cachedTTL, earned, since, blind>>

locals    == <<left, got, seen, part>>
jobVars   == <<at, locals>>
ruleVars  == <<ruled, overridden, purging>>
cacheVars == <<cached, cachedTTL>>

Places == {"idle", "attr", "expire", "get", "rule", "other", "base", "keep",
           "cap", "clip", "record"}

\* No order has unlocked it; commissions are due; expires_at has passed;
\* is_valid is false.
Stages == {"locked", "open", "lapsed", "invalid"}

LongAgo == TTL + Timeout + 1

TypeOK ==
    /\ at \in [Jobs -> Places]
    /\ left \in [Jobs -> 0 .. Timeout]
    /\ got \in [Jobs -> Settings \union {None}]
    /\ seen \in [Jobs -> Nat] /\ part \in [Jobs -> Nat]
    /\ attr \in Stages
    /\ ruled \in BOOLEAN /\ overridden \in BOOLEAN /\ purging \in BOOLEAN
    /\ cached \in Settings \union {None}
    /\ cachedTTL \in 0 .. TTL
    /\ earned \in Nat
    /\ since \in 0 .. LongAgo
    /\ blind \in BOOLEAN

Init ==
    /\ at = [j \in Jobs |-> "idle"]
    /\ left = [j \in Jobs |-> 0]
    /\ got = [j \in Jobs |-> None]
    /\ seen = [j \in Jobs |-> 0] /\ part = [j \in Jobs |-> 0]
    /\ attr = "locked"
    /\ ruled = FALSE /\ overridden = FALSE /\ purging = FALSE
    /\ cached = None /\ cachedTTL = 0
    /\ earned = 0
    /\ since = LongAgo
    /\ blind = FALSE

-----------------------------------------------------------------------------
(* What the tables say.                                                     *)

\* A rule inherits the cap of the configuration, not that of the override.
Decide(r, o) ==
    IF r THEN [share |-> RuleShare, cap |-> Config.cap]
    ELSE IF o THEN Override ELSE Config

Decision == Decide(ruled, overridden)

-----------------------------------------------------------------------------
(* A goroutine.                                                             *)

Go(j, p) == at' = [at EXCEPT ![j] = p]

\* Its variables go with it.
End(j) ==
    /\ Go(j, "idle")
    /\ left' = [left EXCEPT ![j] = 0]
    /\ got' = [got EXCEPT ![j] = None]
    /\ seen' = [seen EXCEPT ![j] = 0]
    /\ part' = [part EXCEPT ![j] = 0]

\* Mutant: the commands get a context without the deadline.
AliveForever(j, p) == at[j] = p

\* A goroutine acts before its deadline: later, every query fails.
Alive(j, p) == at[j] = p /\ left[j] > 0

Begin(j) ==
    /\ at[j] = "idle" /\ earned <= MaxEarned /\ ~blind
    /\ Go(j, "attr")
    /\ left' = [left EXCEPT ![j] = Timeout]
    /\ UNCHANGED <<got, seen, part, attr, ruleVars, cacheVars, earned, since,
                   blind>>

\* A model of unknown name has no rule and no cached decision.
ReadAttribution(j) ==
    /\ Alive(j, "attr")
    /\ \/ attr \in {"invalid", "locked"} /\ End(j)
       \/ attr = "lapsed" /\ Go(j, "expire") /\ UNCHANGED locals
       \/ /\ attr = "open"
          /\ \E p \in {"get", "base"} : Go(j, p)
          /\ UNCHANGED locals
    /\ UNCHANGED <<attr, ruleVars, cacheVars, earned, since, blind>>

Expire(j) ==
    /\ Alive(j, "expire")
    /\ attr' = "invalid"
    /\ End(j)
    /\ UNCHANGED <<ruleVars, cacheVars, earned, since, blind>>

\* Resolve: an error of Redis counts as a miss.
Get(j) ==
    /\ Alive(j, "get")
    /\ \/ /\ cachedTTL > 0
          /\ got' = [got EXCEPT ![j] = cached]
          /\ Go(j, "cap")
       \/ /\ cachedTTL = 0 \/ Faults
          /\ Go(j, "rule")
          /\ UNCHANGED got
    /\ UNCHANGED <<left, seen, part, attr, ruleVars, cacheVars, earned,
                   since, blind>>

\* A query of resolveFromDB fails: the code goes on as if it had found nothing.
Misread == Faults /\ since' = 0

\* resolveFromDB: the configuration, without which the rate is 0, then the
\* rule, and only then the override.
LoadRule(j) ==
    /\ Alive(j, "rule")
    /\ \/ /\ ruled /\ UNCHANGED since
          /\ got' = [got EXCEPT ![j] = Decide(TRUE, overridden)]
          /\ Go(j, "keep")
       \/ /\ (~ruled /\ UNCHANGED since) \/ Misread
          /\ Go(j, "other") /\ UNCHANGED got
       \/ /\ Misread
          /\ got' = [got EXCEPT ![j] = None]
          /\ Go(j, "keep")
    /\ UNCHANGED <<left, seen, part, attr, ruleVars, cacheVars, earned, blind>>

LoadOther(j) ==
    /\ \/ Alive(j, "other") /\ Go(j, "keep")
       \/ Alive(j, "base") /\ Go(j, "cap")
    /\ \/ got' = [got EXCEPT ![j] = Decide(FALSE, overridden)] /\ UNCHANGED since
       \/ got' = [got EXCEPT ![j] = Decide(FALSE, FALSE)] /\ Misread
    /\ UNCHANGED <<left, seen, part, attr, ruleVars, cacheVars, earned, blind>>

Keep(j) ==
    /\ Alive(j, "keep")
    /\ \/ cached' = got[j] /\ cachedTTL' = TTL
       \/ Faults /\ UNCHANGED cacheVars
    /\ Go(j, "cap")
    /\ UNCHANGED <<left, got, seen, part, attr, ruleVars, earned, since,
                   blind>>

\* The sum of the earlier records, n.  Its error is not read: n stays 0.
ReadEarned(n) ==
    \/ n = earned /\ UNCHANGED blind
    \/ Faults /\ n = 0 /\ blind' = TRUE

\* A rate of 0 ends it as well: None has no room.
CheckCap(j) ==
    /\ Alive(j, "cap")
    /\ \E n \in {0, earned} :
        /\ ReadEarned(n)
        /\ \/ n >= got[j].cap /\ End(j)
           \/ n < got[j].cap /\ Go(j, "clip") /\ UNCHANGED locals
    /\ UNCHANGED <<attr, ruleVars, cacheVars, earned, since>>

\* Mutants: the share is not clipped, or to one credit too many.
RoomUnclipped(j, n) == got[j].share

RoomOneMore(j, n) == IF n + got[j].share > got[j].cap THEN got[j].cap - n + 1
                     ELSE got[j].share

\* What an order earns when n was earned before.
Room(j, n) == IF n + got[j].share > got[j].cap THEN got[j].cap - n
              ELSE got[j].share

Clip(j) ==
    /\ Alive(j, "clip")
    /\ \E n \in {0, earned} :
        /\ ReadEarned(n)
        /\ \/ Room(j, n) <= 0 /\ End(j)
           \/ /\ Room(j, n) > 0
              /\ seen' = [seen EXCEPT ![j] = n]
              /\ part' = [part EXCEPT ![j] = Room(j, n)]
              /\ Go(j, "record")
              /\ UNCHANGED <<left, got>>
    /\ UNCHANGED <<attr, ruleVars, cacheVars, earned, since>>

Record(j) ==
    /\ Alive(j, "record")
    /\ earned' = earned + part[j]
    /\ End(j)
    /\ UNCHANGED <<attr, ruleVars, cacheVars, since, blind>>

\* The deadline, an error of a query that is read, or the end of the pod.
GiveUp(j) ==
    /\ at[j] # "idle"
    /\ left[j] = 0 \/ Faults
    /\ End(j)
    /\ UNCHANGED <<attr, ruleVars, cacheVars, earned, since, blind>>

Proceed(j) ==
    \/ ReadAttribution(j) \/ Expire(j) \/ Get(j) \/ LoadRule(j)
    \/ LoadOther(j) \/ Keep(j) \/ CheckCap(j) \/ Clip(j) \/ Record(j) \/ GiveUp(j)

-----------------------------------------------------------------------------
(* The administrators, and time.                                            *)

WriteRule ==
    /\ ~purging
    /\ ruled' = ~ruled
    /\ purging' = TRUE
    /\ since' = 0
    /\ UNCHANGED <<jobVars, attr, overridden, cacheVars, earned, blind>>

\* InvalidateByRule: an error of Redis is dropped.
Purge ==
    /\ purging
    /\ purging' = FALSE
    /\ \/ cached' = None /\ cachedTTL' = 0
       \/ Faults /\ UNCHANGED cacheVars
    /\ UNCHANGED <<jobVars, attr, ruled, overridden, earned, since, blind>>

WriteOverride ==
    /\ overridden' = ~overridden
    /\ since' = IF ruled THEN since ELSE 0
    /\ UNCHANGED <<jobVars, attr, ruled, purging, cacheVars, earned, blind>>

\* The orders of the invitee unlock its attribution, and its time passes.
Unlock ==
    /\ attr = "locked"
    /\ attr' = "open"
    /\ UNCHANGED <<jobVars, ruleVars, cacheVars, earned, since, blind>>

Lapse ==
    /\ attr \in {"locked", "open"}
    /\ attr' = "lapsed"
    /\ UNCHANGED <<jobVars, ruleVars, cacheVars, earned, since, blind>>

AgeCache ==
    /\ cachedTTL' = IF cachedTTL = 0 THEN 0 ELSE cachedTTL - 1
    /\ cached' = IF cachedTTL <= 1 THEN None ELSE cached

Tick ==
    /\ AgeCache
    /\ left' = [j \in Jobs |-> IF left[j] = 0 THEN 0 ELSE left[j] - 1]
    /\ since' = IF since = LongAgo THEN since ELSE since + 1
    /\ UNCHANGED <<at, got, seen, part, attr, ruleVars, earned, blind>>

Next ==
    \/ \E j \in Jobs : Begin(j) \/ Proceed(j)
    \/ WriteRule \/ Purge \/ WriteOverride \/ Unlock \/ Lapse \/ Tick

Spec == Init /\ [][Next]_vars

-----------------------------------------------------------------------------
(* What the properties say.                                                 *)

\* Commissions computed but not yet recorded.
Coming == {j \in Jobs : at[j] = "record"}

MaxCap == Max({s.cap : s \in Settings})
MaxShare == Max({s.share : s \in Settings})

\* Each goroutine that read the sum before the others recorded adds one share
\* above the cap, and no more of them exist than run at once: the lifetime cap
\* (commission_calculator.go:152 and 172) is passed by at most one share for
\* every other goroutine, as long as no sum failed.
CapOvershoot ==
    ~blind => earned + SumFunctionOnSet(part, Coming)
                  <= MaxCap + (Cardinality(Jobs) - 1) * MaxShare

\* A cached decision that is not the one of the tables goes back to a goroutine
\* that loaded it before they changed, or took a failed query for an empty one,
\* and stored it within its deadline (rule_resolver.go:105 and 114): it lives no
\* longer than that deadline and the life of a key, whether its deletion was
\* missed, failed or never sent.
StaleBounded ==
    cachedTTL > 0 /\ cached # Decision => since + cachedTTL < Timeout + TTL

\* A goroutine passes the cap by what others recorded between its own sum and
\* its own record (commission_calculator.go:175 and 216), and by nothing else.
OnlyRacesPass ==
    [][\A j \in Jobs : Record(j) => earned' - got[j].cap <= earned - seen[j]]_vars

=============================================================================
