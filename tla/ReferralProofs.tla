--------------------------- MODULE ReferralProofs ---------------------------
(***************************************************************************)
(* Proofs about the two ways an inviter earns: commissions (Commission, for *)
(* any number of goroutines, any shares and caps, and any life of keys and  *)
(* goroutines), and the bonus for an invitee who has paid (InviterBonus,    *)
(* for any invitees, callbacks, thresholds and caps).                       *)
(***************************************************************************)
EXTENDS Commission, InviterBonus, SumTheorems

-----------------------------------------------------------------------------
(* Commissions.                                                             *)

\* A decision is one of the settings.
LEMMA DecideType ==
    ASSUME NEW r \in BOOLEAN, NEW o \in BOOLEAN
    PROVE  Decide(r, o) \in Settings
  BY DEF Decide, Settings

LEMMA SettingType ==
    ASSUME NEW s \in Settings
    PROVE  s.share \in Nat /\ s.cap \in Nat
  BY CommissionAssumption DEF Settings

\* The end of a goroutine leaves its variables well typed.
LEMMA EndType ==
    ASSUME TypeOK, NEW j \in Jobs, End(j)
    PROVE  /\ at' \in [Jobs -> Places]
           /\ left' \in [Jobs -> 0 .. Timeout]
           /\ got' \in [Jobs -> Settings \union {None}]
           /\ seen' \in [Jobs -> Nat] /\ part' \in [Jobs -> Nat]
  <1>1. 0 \in 0 .. Timeout
    BY CommissionAssumption
  <1> QED
    BY <1>1 DEF TypeOK, End, Go, Places

\* The variables keep their types: the room below a cap is a natural number
\* whenever a goroutine goes on to record it.
THEOREM TypeCorrect == Spec => []TypeOK
  <1> USE CommissionAssumption
  <1>1. ASSUME Init PROVE TypeOK
    <2>1. 0 \in 0 .. Timeout /\ 0 \in 0 .. TTL /\ LongAgo \in 0 .. LongAgo
      BY DEF LongAgo
    <2>2. at \in [Jobs -> Places] /\ attr \in Stages
      BY <1>1 DEF Init, Places, Stages
    <2> QED
      BY <1>1, <2>1, <2>2 DEF Init, TypeOK
  <1>2. TypeOK /\ [Next]_vars => TypeOK'
    <2> SUFFICES ASSUME TypeOK, [Next]_vars
                 PROVE  TypeOK'
      OBVIOUS
    <2>1. ASSUME NEW j \in Jobs, Begin(j)
          PROVE  TypeOK'
      <3>1. Timeout \in 0 .. Timeout
        OBVIOUS
      <3> QED
        BY <2>1, <3>1 DEF TypeOK, Begin, Go, Places, ruleVars, cacheVars
    <2>2. ASSUME NEW j \in Jobs, ReadAttribution(j)
          PROVE  TypeOK'
      <3>1. CASE End(j)
        BY <2>2, <3>1, EndType DEF TypeOK, ReadAttribution, ruleVars, cacheVars
      <3>2. CASE ~End(j)
        BY <2>2, <3>2
        DEF TypeOK, ReadAttribution, Go, Places, locals, ruleVars, cacheVars
      <3> QED
        BY <3>1, <3>2
    <2>3. ASSUME NEW j \in Jobs, Expire(j) \/ GiveUp(j)
          PROVE  TypeOK'
      <3>1. End(j) /\ attr' \in Stages
        BY <2>3 DEF Expire, GiveUp, Stages, TypeOK
      <3> QED
        BY <2>3, <3>1, EndType DEF TypeOK, Expire, GiveUp, ruleVars, cacheVars
    <2>4. ASSUME NEW j \in Jobs, Get(j)
          PROVE  TypeOK'
      BY <2>4 DEF TypeOK, Get, Go, Places, ruleVars, cacheVars
    <2>5. ASSUME NEW j \in Jobs, LoadRule(j) \/ LoadOther(j)
          PROVE  TypeOK'
      <3>1. /\ Decide(TRUE, overridden) \in Settings
            /\ Decide(FALSE, overridden) \in Settings
            /\ Decide(FALSE, FALSE) \in Settings
        BY DecideType DEF TypeOK
      <3>2. got' \in [Jobs -> Settings \union {None}]
        BY <2>5, <3>1 DEF TypeOK, LoadRule, LoadOther
      <3>3. since' \in 0 .. LongAgo
        <4>1. 0 \in 0 .. LongAgo
          BY DEF LongAgo
        <4>2. since' \in {0, since}
          BY <2>5 DEF LoadRule, LoadOther, Misread
        <4> QED
          BY <4>1, <4>2 DEF TypeOK
      <3>4. at' \in [Jobs -> Places]
        BY <2>5 DEF TypeOK, LoadRule, LoadOther, Go, Places
      <3>5. UNCHANGED <<left, seen, part, attr, ruled, overridden, purging,
                        cached, cachedTTL, earned, blind>>
        BY <2>5 DEF LoadRule, LoadOther, ruleVars, cacheVars
      <3> QED
        BY <3>2, <3>3, <3>4, <3>5 DEF TypeOK
    <2>6. ASSUME NEW j \in Jobs, Keep(j)
          PROVE  TypeOK'
      <3>1. TTL \in 0 .. TTL
        OBVIOUS
      <3>2. cached' \in Settings \union {None} /\ cachedTTL' \in 0 .. TTL
        BY <2>6, <3>1 DEF TypeOK, Keep, cacheVars
      <3> QED
        BY <2>6, <3>2 DEF TypeOK, Keep, Go, Places, ruleVars
    <2>7. ASSUME NEW j \in Jobs, CheckCap(j)
          PROVE  TypeOK'
      <3>1. blind' \in BOOLEAN
        BY <2>7 DEF TypeOK, CheckCap, ReadEarned
      <3>2. CASE End(j)
        BY <2>7, <3>1, <3>2, EndType DEF TypeOK, CheckCap, ruleVars, cacheVars
      <3>3. CASE ~End(j)
        BY <2>7, <3>1, <3>3
        DEF TypeOK, CheckCap, Go, Places, locals, ruleVars, cacheVars
      <3> QED
        BY <3>2, <3>3
    <2>8. ASSUME NEW j \in Jobs, Clip(j)
          PROVE  TypeOK'
      <3>1. PICK n \in {0, earned} :
                /\ ReadEarned(n)
                /\ \/ End(j)
                   \/ /\ Room(j, n) > 0
                      /\ seen' = [seen EXCEPT ![j] = n]
                      /\ part' = [part EXCEPT ![j] = Room(j, n)]
                      /\ Go(j, "record")
                      /\ UNCHANGED <<left, got>>
        BY <2>8 DEF Clip
      <3>2. blind' \in BOOLEAN
        BY <3>1 DEF TypeOK, ReadEarned
      <3>3. CASE End(j)
        BY <2>8, <3>2, <3>3, EndType DEF TypeOK, Clip, ruleVars, cacheVars
      <3>4. CASE ~End(j)
        <4>1. n \in Nat /\ got[j].share \in Int /\ got[j].cap \in Int
          <5>1. got[j] \in Settings \union {None}
            BY DEF TypeOK
          <5> QED
            BY <5>1, SettingType DEF None, TypeOK
        <4>2. Room(j, n) \in Nat
          BY <3>1, <3>4, <4>1 DEF Room
        <4>3. seen' \in [Jobs -> Nat] /\ part' \in [Jobs -> Nat]
          BY <3>1, <3>4, <4>1, <4>2 DEF TypeOK
        <4>4. at' \in [Jobs -> Places]
          BY <3>1, <3>4 DEF TypeOK, Go, Places
        <4> QED
          BY <2>8, <3>1, <3>2, <3>4, <4>3, <4>4
          DEF TypeOK, Clip, ruleVars, cacheVars
      <3> QED
        BY <3>3, <3>4
    <2>9. ASSUME NEW j \in Jobs, Record(j)
          PROVE  TypeOK'
      <3>1. End(j) /\ earned' \in Nat
        BY <2>9 DEF TypeOK, Record
      <3> QED
        BY <2>9, <3>1, EndType DEF TypeOK, Record, ruleVars, cacheVars
    <2>10. CASE WriteRule \/ WriteOverride
      <3>1. 0 \in 0 .. LongAgo
        BY DEF LongAgo
      <3>2. /\ ruled' \in BOOLEAN /\ overridden' \in BOOLEAN
            /\ purging' \in BOOLEAN
        BY <2>10 DEF TypeOK, WriteRule, WriteOverride
      <3> QED
        BY <2>10, <3>1, <3>2
        DEF TypeOK, WriteRule, WriteOverride, jobVars, locals, cacheVars
    <2>11. CASE Purge
      <3>1. 0 \in 0 .. TTL
        OBVIOUS
      <3>2. cached' \in Settings \union {None} /\ cachedTTL' \in 0 .. TTL
        BY <2>11, <3>1 DEF TypeOK, Purge, cacheVars
      <3> QED
        BY <2>11, <3>2 DEF TypeOK, Purge, jobVars, locals
    <2>12. CASE Unlock \/ Lapse
      BY <2>12
      DEF TypeOK, Unlock, Lapse, Stages, jobVars, locals, ruleVars, cacheVars
    <2>13. CASE Tick
      <3>1. left' \in [Jobs -> 0 .. Timeout]
        BY <2>13 DEF TypeOK, Tick
      <3>2. since' \in 0 .. LongAgo
        BY <2>13 DEF TypeOK, Tick, LongAgo
      <3>3. cached' \in Settings \union {None} /\ cachedTTL' \in 0 .. TTL
        BY <2>13 DEF TypeOK, Tick, AgeCache
      <3> QED
        BY <2>13, <3>1, <3>2, <3>3 DEF TypeOK, Tick, ruleVars
    <2>14. CASE UNCHANGED vars
      BY <2>14 DEF TypeOK, vars
    <2> QED
      BY <2>1, <2>2, <2>3, <2>4, <2>5, <2>6, <2>7, <2>8, <2>9, <2>10, <2>11,
         <2>12, <2>13, <2>14 DEF Next, Proceed
  <1> QED
    BY <1>1, <1>2, PTL DEF Spec

-----------------------------------------------------------------------------

\* A goroutine that read the tables before they changed stores what it read
\* before its deadline: the time since the change and the time it has left are
\* no more than the deadline it started with.
Carried(j) ==
    left[j] > 0 =>
        /\ at[j] = "other" /\ ruled => since + left[j] <= Timeout
        /\ at[j] = "keep" /\ got[j] # Decision => since + left[j] <= Timeout

\* Strengthens StaleBounded with what the goroutines carry.
StaleInv ==
    /\ StaleBounded
    /\ \A j \in Jobs : Carried(j)

\* A step of one goroutine that stores and rules nothing leaves what the
\* others carry alone; a query of it that fails leaves them more time.
LEMMA CarriedByOne ==
    ASSUME TypeOK, StaleInv, NEW j \in Jobs,
           NEW p \in Places, NEW l \in 0 .. Timeout,
           NEW d \in Settings \union {None},
           at' = [at EXCEPT ![j] = p], left' = [left EXCEPT ![j] = l],
           got' = [got EXCEPT ![j] = d],
           UNCHANGED <<ruled, overridden>>, since' \in {0, since},
           Carried(j)'
    PROVE  \A k \in Jobs : Carried(k)'
  <1>1. SUFFICES ASSUME NEW k \in Jobs, k # j
                 PROVE  Carried(k)'
    OBVIOUS
  <1>2. at'[k] = at[k] /\ left'[k] = left[k] /\ got'[k] = got[k]
    BY <1>1 DEF TypeOK
  <1> QED
    BY <1>1, <1>2 DEF TypeOK, StaleInv, Carried, Decision

\* A cached decision that is not that of the tables was loaded before they
\* changed, or by a query that failed, by a goroutine that had not reached its deadline, and lives no
\* longer than the deadline and the life of a key.
THEOREM StalenessBounded == Spec => []StaleBounded
  <1> USE CommissionAssumption
  <1>0. Timeout \in Nat /\ TTL \in Nat
    OBVIOUS
  <1>1. ASSUME Init PROVE StaleInv
    BY <1>1 DEF Init, StaleInv, StaleBounded, Carried
  <1>2. ASSUME TypeOK, StaleInv, [Next]_vars
        PROVE  StaleInv'
    <2> USE <1>2
    <2>1. ASSUME NEW j \in Jobs, End(j), UNCHANGED <<ruleVars, cacheVars, since>>
          PROVE  StaleInv'
      <3>1. 0 \in 0 .. Timeout /\ "idle" \in Places
        BY DEF Places
      <3>2. Carried(j)'
        BY <2>1 DEF TypeOK, End, Go, Carried
      <3>3. \A k \in Jobs : Carried(k)'
        BY <2>1, <3>1, <3>2, CarriedByOne DEF End, Go, ruleVars
      <3> QED
        BY <2>1, <3>3 DEF StaleInv, StaleBounded, Decision, ruleVars, cacheVars
    <2>2. ASSUME NEW j \in Jobs, NEW p \in Places \ {"other", "keep"},
                 Go(j, p), UNCHANGED <<ruleVars, cacheVars, since>>,
                 NEW l \in 0 .. Timeout, left' = [left EXCEPT ![j] = l],
                 NEW d \in Settings \union {None}, got' = [got EXCEPT ![j] = d]
          PROVE  StaleInv'
      <3>1. Carried(j)'
        BY <2>2 DEF TypeOK, Go, Carried
      <3>2. \A k \in Jobs : Carried(k)'
        BY <2>2, <3>1, CarriedByOne DEF Go, ruleVars
      <3> QED
        BY <2>2, <3>2 DEF StaleInv, StaleBounded, Decision, ruleVars, cacheVars
    <2>3. ASSUME NEW j \in Jobs, UNCHANGED <<left, got>>
          PROVE  /\ left[j] \in 0 .. Timeout
                 /\ left' = [left EXCEPT ![j] = left[j]]
                 /\ got[j] \in Settings \union {None}
                 /\ got' = [got EXCEPT ![j] = got[j]]
      BY <2>3 DEF TypeOK
    <2>4. ASSUME NEW j \in Jobs, Begin(j)
          PROVE  StaleInv'
      <3>1. Timeout \in 0 .. Timeout /\ "attr" \in Places \ {"other", "keep"}
        BY DEF Places
      <3>2. got[j] \in Settings \union {None} /\ got' = [got EXCEPT ![j] = got[j]]
        BY <2>4 DEF TypeOK, Begin
      <3> QED
        BY <2>4, <3>1, <3>2, <2>2 DEF Begin
    <2>5. ASSUME NEW j \in Jobs, ReadAttribution(j)
          PROVE  StaleInv'
      <3>1. CASE End(j)
        BY <2>5, <3>1, <2>1 DEF ReadAttribution
      <3>2. CASE ~End(j)
        <4>1. PICK p \in {"expire", "get", "base"} : Go(j, p)
          BY <2>5, <3>2 DEF ReadAttribution
        <4>2. p \in Places \ {"other", "keep"}
          BY DEF Places
        <4>3. UNCHANGED <<left, got>>
          BY <2>5, <3>2 DEF ReadAttribution, locals
        <4> QED
          BY <2>5, <4>1, <4>2, <4>3, <2>2, <2>3 DEF ReadAttribution
      <3> QED
        BY <3>1, <3>2
    <2>6. ASSUME NEW j \in Jobs, Expire(j) \/ Record(j) \/ GiveUp(j)
          PROVE  StaleInv'
      BY <2>6, <2>1 DEF Expire, Record, GiveUp
    <2>7. ASSUME NEW j \in Jobs, Get(j)
          PROVE  StaleInv'
      <3>1. "cap" \in Places \ {"other", "keep"} /\ "rule" \in Places \ {"other", "keep"}
        BY DEF Places
      <3>2. left[j] \in 0 .. Timeout /\ left' = [left EXCEPT ![j] = left[j]]
        BY <2>7 DEF Get, TypeOK
      <3>3. CASE Go(j, "cap") /\ got' = [got EXCEPT ![j] = cached]
        BY <2>7, <3>1, <3>2, <3>3, <2>2 DEF Get, TypeOK
      <3>4. CASE Go(j, "rule") /\ UNCHANGED got
        BY <2>7, <3>1, <3>4, <2>2, <2>3 DEF Get
      <3> QED
        BY <2>7, <3>3, <3>4 DEF Get
    <2>17. ASSUME UNCHANGED <<ruleVars, cacheVars>>, since' \in {0, since},
                  \A k \in Jobs : Carried(k)'
           PROVE  StaleInv'
      <3>1. since \in Int /\ cachedTTL \in Int /\ cachedTTL <= TTL
        BY DEF TypeOK
      <3>2. Decision' = Decision /\ UNCHANGED <<cached, cachedTTL>>
        BY <2>17 DEF Decision, ruleVars, cacheVars
      <3>3. StaleBounded'
        <4>1. CASE since' = since
          BY <3>2, <4>1 DEF StaleInv, StaleBounded
        <4>2. CASE since' = 0
          <5>1. cachedTTL < Timeout + TTL
            BY <1>0, <3>1
          <5> QED
            BY <3>1, <3>2, <4>2, <5>1 DEF StaleBounded
        <4> QED
          BY <2>17, <4>1, <4>2
      <3> QED
        BY <2>17, <3>3 DEF StaleInv
    <2>8. ASSUME NEW j \in Jobs, LoadRule(j)
          PROVE  StaleInv'
      <3>1. left[j] \in 0 .. Timeout /\ left' = [left EXCEPT ![j] = left[j]]
        BY <2>8 DEF LoadRule, TypeOK
      <3>2. "keep" \in Places /\ "other" \in Places
        BY DEF Places
      <3>3. CASE ruled /\ Go(j, "keep") /\ UNCHANGED since
                 /\ got' = [got EXCEPT ![j] = Decide(TRUE, overridden)]
        <4>1. /\ got' = [got EXCEPT ![j] = Decide(TRUE, overridden)]
              /\ Go(j, "keep") /\ Decide(TRUE, overridden) = Decision
          BY <3>3 DEF TypeOK, Decision, Decide
        <4>2. Decide(TRUE, overridden) \in Settings \union {None}
          BY DecideType DEF TypeOK
        <4>3. Carried(j)'
          BY <2>8, <3>3, <4>1 DEF TypeOK, LoadRule, Go, Carried, Decision, ruleVars
        <4>4. \A k \in Jobs : Carried(k)'
          BY <2>8, <3>1, <3>2, <3>3, <4>1, <4>2, <4>3, CarriedByOne
          DEF LoadRule, Go, ruleVars
        <4> QED
          BY <2>8, <3>3, <4>4
          DEF LoadRule, StaleInv, StaleBounded, Decision, ruleVars, cacheVars
      <3>4. CASE /\ ((~ruled /\ UNCHANGED since) \/ Misread)
                 /\ Go(j, "other") /\ UNCHANGED got
        <4>1. UNCHANGED <<left, got>> /\ Go(j, "other") /\ since' \in {0, since}
          BY <2>8, <3>4 DEF LoadRule, Misread
        <4>2. Carried(j)'
          BY <2>8, <3>4, <4>1
          DEF TypeOK, LoadRule, Misread, Go, Carried, ruleVars
        <4>3. \A k \in Jobs : Carried(k)'
          BY <2>8, <2>3, <3>2, <4>1, <4>2, CarriedByOne
          DEF LoadRule, Go, ruleVars
        <4> QED
          BY <2>8, <4>1, <4>3, <2>17 DEF LoadRule
      <3>5. CASE Misread /\ got' = [got EXCEPT ![j] = None] /\ Go(j, "keep")
        <4>1. since' \in {0, since} /\ None \in Settings \union {None}
          BY <3>5 DEF Misread
        <4>2. Carried(j)'
          BY <2>8, <3>5 DEF TypeOK, LoadRule, Misread, Go, Carried, ruleVars
        <4>3. \A k \in Jobs : Carried(k)'
          BY <2>8, <3>1, <3>2, <3>5, <4>1, <4>2, CarriedByOne
          DEF LoadRule, Go, ruleVars
        <4> QED
          BY <2>8, <4>1, <4>3, <2>17 DEF LoadRule
      <3> QED
        BY <2>8, <3>3, <3>4, <3>5 DEF LoadRule
    <2>9. ASSUME NEW j \in Jobs, LoadOther(j)
          PROVE  StaleInv'
      <3>1. left[j] \in 0 .. Timeout /\ left' = [left EXCEPT ![j] = left[j]]
        BY <2>9 DEF LoadOther, TypeOK
      <3>2. PICK d \in Settings \union {None} :
                /\ got' = [got EXCEPT ![j] = d]
                /\ \/ d = Decide(FALSE, overridden) /\ UNCHANGED since
                   \/ Misread
        <4>1. /\ Decide(FALSE, overridden) \in Settings \union {None}
              /\ Decide(FALSE, FALSE) \in Settings \union {None}
          BY DecideType DEF TypeOK
        <4> QED
          BY <2>9, <4>1 DEF LoadOther
      <3>5. since' \in {0, since}
        BY <3>2 DEF Misread
      <3>3. CASE Alive(j, "other") /\ Go(j, "keep")
        <4>1. "keep" \in Places
          BY DEF Places
        <4>2. Carried(j)
          BY DEF StaleInv
        <4>3. ~ruled => Decide(FALSE, overridden) = Decision
          BY DEF Decide, Decision
        <4>4. Carried(j)'
          <5>1. /\ at'[j] = "keep" /\ left'[j] = left[j] /\ left[j] \in 0 .. Timeout
                /\ got'[j] = d /\ Decision' = Decision
            BY <2>9, <3>2, <3>3 DEF TypeOK, LoadOther, Go, Decision, ruleVars
          <5>2. CASE since' = 0
            BY <5>1, <5>2 DEF Carried
          <5>3. CASE d = Decide(FALSE, overridden) /\ UNCHANGED since
            BY <3>3, <4>2, <4>3, <5>1, <5>3 DEF Alive, Carried
          <5> QED
            BY <3>2, <5>2, <5>3 DEF Misread
        <4>5. \A k \in Jobs : Carried(k)'
          BY <2>9, <3>1, <3>2, <3>3, <3>5, <4>1, <4>4, CarriedByOne
          DEF LoadOther, Go, ruleVars
        <4> QED
          BY <2>9, <3>5, <4>5, <2>17 DEF LoadOther
      <3>4. CASE Alive(j, "base") /\ Go(j, "cap")
        <4>1. "cap" \in Places
          BY DEF Places
        <4>2. Carried(j)'
          BY <2>9, <3>4 DEF TypeOK, Go, Carried
        <4>3. \A k \in Jobs : Carried(k)'
          BY <2>9, <3>1, <3>2, <3>4, <3>5, <4>1, <4>2, CarriedByOne
          DEF LoadOther, Go, ruleVars
        <4> QED
          BY <2>9, <3>5, <4>3, <2>17 DEF LoadOther
      <3> QED
        BY <2>9, <3>3, <3>4 DEF LoadOther
    <2>10. ASSUME NEW j \in Jobs, Keep(j)
           PROVE  StaleInv'
      <3>1. left[j] \in 0 .. Timeout /\ left' = [left EXCEPT ![j] = left[j]]
            /\ got[j] \in Settings \union {None} /\ got' = [got EXCEPT ![j] = got[j]]
        BY <2>10 DEF Keep, TypeOK
      <3>2. "cap" \in Places
        BY DEF Places
      <3>3. Carried(j)'
        BY <2>10 DEF TypeOK, Keep, Go, Carried
      <3>4. \A k \in Jobs : Carried(k)'
        BY <2>10, <3>1, <3>2, <3>3, CarriedByOne DEF Keep, Go, ruleVars
      <3>5. CASE cached' = got[j] /\ cachedTTL' = TTL
        <4>1. got[j] # Decision => since + left[j] <= Timeout
          BY <2>10 DEF StaleInv, Carried, Keep, Alive
        <4>2. StaleBounded'
          BY <2>10, <3>5, <4>1
          DEF TypeOK, Keep, Alive, StaleBounded, Decision, ruleVars, LongAgo
        <4> QED
          BY <3>4, <3>5, <4>2 DEF StaleInv
      <3>6. CASE UNCHANGED cacheVars
        BY <2>10, <3>4, <3>6
        DEF Keep, StaleInv, StaleBounded, Decision, ruleVars, cacheVars
      <3> QED
        BY <2>10, <3>5, <3>6 DEF Keep
    <2>11. ASSUME NEW j \in Jobs, CheckCap(j) \/ Clip(j)
           PROVE  StaleInv'
      <3>1. CASE End(j)
        BY <2>11, <3>1, <2>1 DEF CheckCap, Clip
      <3>2. CASE ~End(j)
        <4>1. PICK p \in {"clip", "record"} : Go(j, p)
          BY <2>11, <3>2 DEF CheckCap, Clip
        <4>2. p \in Places \ {"other", "keep"}
          BY DEF Places
        <4>3. UNCHANGED <<left, got>>
          BY <2>11, <3>2 DEF CheckCap, Clip, locals
        <4> QED
          BY <2>11, <4>1, <4>2, <4>3, <2>2, <2>3 DEF CheckCap, Clip
      <3> QED
        BY <3>1, <3>2
    <2>12. CASE WriteRule \/ WriteOverride
      <3>1. CASE since' = 0
        <4>1. \A j \in Jobs : Carried(j)'
          BY <2>12, <3>1
          DEF TypeOK, WriteRule, WriteOverride, Carried, jobVars, locals
        <4>2. StaleBounded'
          BY <2>12, <3>1
          DEF TypeOK, WriteRule, WriteOverride, StaleBounded, cacheVars
        <4> QED
          BY <2>12, <4>1, <4>2 DEF WriteRule, WriteOverride, StaleInv, cacheVars
      <3>2. CASE since' # 0
        <4>1. ruled /\ UNCHANGED <<ruled, since, jobVars, cacheVars>>
          BY <2>12, <3>2 DEF WriteRule, WriteOverride
        <4>2. Decision' = Decision
          BY <4>1 DEF Decision, Decide
        <4> QED
          BY <4>1, <4>2
          DEF StaleInv, StaleBounded, Carried, jobVars, locals, cacheVars
      <3> QED
        BY <3>1, <3>2
    <2>13. CASE Purge
      <3>1. \A j \in Jobs : Carried(j)'
        BY <2>13 DEF Purge, StaleInv, Carried, Decision, jobVars, locals
      <3> QED
        BY <2>13, <3>1 DEF Purge, StaleInv, StaleBounded, Decision, cacheVars
    <2>14. CASE Unlock \/ Lapse
      BY <2>14 DEF Unlock, Lapse, StaleInv, StaleBounded, Carried, Decision,
                   jobVars, locals, ruleVars, cacheVars
    <2>15. CASE Tick
      <3>1. Decision' = Decision
        BY <2>15 DEF Tick, ruleVars, Decision
      <3>2. since' <= since + 1 /\ since' \in Int /\ since \in Int
        BY <2>15 DEF Tick, TypeOK, LongAgo
      <3>3. \A j \in Jobs : Carried(j)'
        <4>1. SUFFICES ASSUME NEW j \in Jobs, left'[j] > 0
                       PROVE  Carried(j)'
          BY DEF Carried
        <4>2. left[j] \in Nat /\ left[j] > 0 /\ left'[j] = left[j] - 1
          BY <2>15, <4>1 DEF Tick, TypeOK
        <4>3. Carried(j)
          BY DEF StaleInv
        <4> QED
          BY <2>15, <3>1, <3>2, <4>2, <4>3 DEF Tick, Carried, ruleVars
      <3>4. cachedTTL' > 0 => /\ cached' = cached /\ cachedTTL > 0
                              /\ cachedTTL' = cachedTTL - 1
        BY <2>15 DEF Tick, AgeCache, TypeOK
      <3>5. StaleBounded'
        <4>1. SUFFICES ASSUME cachedTTL' > 0, cached' # Decision'
                       PROVE  since' + cachedTTL' < Timeout + TTL
          BY DEF StaleBounded
        <4>2. cachedTTL \in Int /\ since + cachedTTL < Timeout + TTL
          BY <3>1, <3>4, <4>1 DEF TypeOK, StaleInv, StaleBounded
        <4>3. CASE since' = since + 1
          BY <3>2, <3>4, <4>1, <4>2, <4>3
        <4>4. CASE since' = since
          BY <1>0, <3>2, <3>4, <4>1, <4>2, <4>4
        <4> QED
          BY <2>15, <4>3, <4>4 DEF Tick
      <3> QED
        BY <3>3, <3>4, <3>5 DEF StaleInv
    <2>16. CASE UNCHANGED vars
      BY <2>16 DEF vars, StaleInv, StaleBounded, Carried, Decision
    <2> QED
      BY <1>2, <2>4, <2>5, <2>6, <2>7, <2>8, <2>9, <2>10, <2>11, <2>12, <2>13,
         <2>14, <2>15, <2>16 DEF Next, Proceed
  <1>3. StaleInv => StaleBounded
    BY DEF StaleInv
  <1> QED
    BY <1>1, <1>2, <1>3, TypeCorrect, PTL DEF Spec

-----------------------------------------------------------------------------

\* What a goroutine is about to record fits below its cap as it knew it.
FitsRoom ==
    \A j \in Jobs : at[j] = "record" => part[j] <= got[j].cap - seen[j]

\* A goroutine passes its cap by what others recorded after its sum, and by
\* nothing else.
THEOREM OnlyRacesPassTheCap == Spec => OnlyRacesPass
  <1> USE CommissionAssumption
  <1>1. Init => FitsRoom
    BY DEF Init, FitsRoom
  <1>2. TypeOK /\ FitsRoom /\ [Next]_vars => FitsRoom'
    <2> SUFFICES ASSUME TypeOK, FitsRoom, [Next]_vars
                 PROVE  FitsRoom'
      OBVIOUS
    <2>1. ASSUME NEW j \in Jobs, End(j)
          PROVE  FitsRoom'
      BY <2>1 DEF TypeOK, FitsRoom, End, Go
    <2>2. ASSUME NEW j \in Jobs, NEW p \in Places \ {"record"}, Go(j, p),
                 UNCHANGED <<seen, part>>,
                 NEW d, got' = [got EXCEPT ![j] = d]
          PROVE  FitsRoom'
      BY <2>2 DEF TypeOK, FitsRoom, Go
    <2>3. ASSUME NEW j \in Jobs, Begin(j) \/ ReadAttribution(j) \/ Get(j)
                                 \/ LoadRule(j) \/ LoadOther(j) \/ Keep(j)
                                 \/ CheckCap(j)
          PROVE  FitsRoom'
      <3>1. CASE End(j)
        BY <3>1, <2>1
      <3>2. CASE ~End(j)
        <4>1. PICK p \in Places \ {"record"} : Go(j, p)
          BY <2>3, <3>2
          DEF Begin, ReadAttribution, Get, LoadRule, LoadOther, Keep, CheckCap,
              Places
        <4>2. UNCHANGED <<seen, part>>
          BY <2>3, <3>2
          DEF Begin, ReadAttribution, Get, LoadRule, LoadOther, Keep, CheckCap,
              locals
        <4>3. \E d : got' = [got EXCEPT ![j] = d]
          <5>1. got = [got EXCEPT ![j] = got[j]]
            BY DEF TypeOK
          <5> QED
            BY <2>3, <3>2, <5>1
            DEF Begin, ReadAttribution, Get, LoadRule, LoadOther, Keep,
                CheckCap, locals
        <4> QED
          BY <4>1, <4>2, <4>3, <2>2
      <3> QED
        BY <3>1, <3>2
    <2>4. ASSUME NEW j \in Jobs, Expire(j) \/ Record(j) \/ GiveUp(j)
          PROVE  FitsRoom'
      BY <2>4, <2>1 DEF Expire, Record, GiveUp
    <2>5. ASSUME NEW j \in Jobs, Clip(j)
          PROVE  FitsRoom'
      <3>1. PICK n \in {0, earned} :
                \/ End(j)
                \/ /\ seen' = [seen EXCEPT ![j] = n]
                   /\ part' = [part EXCEPT ![j] = Room(j, n)]
                   /\ Go(j, "record")
                   /\ UNCHANGED got
        BY <2>5 DEF Clip
      <3>2. CASE End(j)
        BY <3>2, <2>1
      <3>3. CASE ~End(j)
        <4>1. n \in Nat /\ got[j].share \in Int /\ got[j].cap \in Int
          <5>1. got[j] \in Settings \union {None}
            BY DEF TypeOK
          <5> QED
            BY <5>1, SettingType DEF None, TypeOK
        <4>2. Room(j, n) <= got[j].cap - n
          BY <4>1 DEF Room
        <4> QED
          BY <3>1, <3>3, <4>1, <4>2 DEF TypeOK, FitsRoom, Go
      <3> QED
        BY <3>2, <3>3
    <2>6. CASE WriteRule \/ Purge \/ WriteOverride \/ Unlock \/ Lapse \/ Tick
      BY <2>6 DEF WriteRule, Purge, WriteOverride, Unlock, Lapse, Tick,
                  FitsRoom, jobVars, locals
    <2>7. CASE UNCHANGED vars
      BY <2>7 DEF vars, FitsRoom
    <2> QED
      BY <2>3, <2>4, <2>5, <2>6, <2>7 DEF Next, Proceed
  <1>3. TypeOK /\ FitsRoom =>
            [\A j \in Jobs : Record(j) =>
                earned' - got[j].cap <= earned - seen[j]]_vars
    <2> SUFFICES ASSUME TypeOK, FitsRoom, NEW j \in Jobs, Record(j)
                 PROVE  earned' - got[j].cap <= earned - seen[j]
      OBVIOUS
    <2>1. got[j].cap \in Int
      <3>1. got[j] \in Settings \union {None}
        BY DEF TypeOK
      <3> QED
        BY <3>1, SettingType DEF None
    <2>2. earned' = earned + part[j] /\ part[j] <= got[j].cap - seen[j]
      BY DEF Record, Alive, FitsRoom
    <2> QED
      BY <2>1, <2>2 DEF TypeOK
  <1> QED
    BY <1>1, <1>2, <1>3, TypeCorrect, PTL DEF Spec, OnlyRacesPass

-----------------------------------------------------------------------------

\* A non-empty finite set of three numbers has a largest.
LEMMA LargestOfThree ==
    ASSUME NEW a \in Nat, NEW b \in Nat, NEW c \in Nat
    PROVE  /\ Max({a, b, c}) \in {a, b, c}
           /\ \A x \in {a, b, c} : x <= Max({a, b, c})
  <1>1. \E x \in {a, b, c} : \A y \in {a, b, c} : x >= y
    <2>1. CASE a >= b /\ a >= c
      BY <2>1
    <2>2. CASE b >= a /\ b >= c
      BY <2>2
    <2>3. CASE c >= a /\ c >= b
      BY <2>3
    <2> QED
      BY <2>1, <2>2, <2>3
  <1> DEFINE m == Max({a, b, c})
  <1>2. m \in {a, b, c} /\ \A y \in {a, b, c} : m >= y
    BY <1>1 DEF Max
  <1> HIDE DEF m
  <1> QED
    BY <1>2 DEF m

\* No setting has a cap or a share above the largest.
LEMMA LargestSetting ==
    /\ MaxCap \in Nat /\ MaxShare \in Nat
    /\ \A s \in Settings \union {None} : s.cap <= MaxCap /\ s.share <= MaxShare
  <1> USE CommissionAssumption
  <1>1. /\ Config.cap \in Nat /\ Config.share \in Nat
        /\ Override.cap \in Nat /\ Override.share \in Nat /\ RuleShare \in Nat
    OBVIOUS
  <1>2. /\ {s.cap : s \in Settings} = {Config.cap, Override.cap, Config.cap}
        /\ {s.share : s \in Settings} = {Config.share, Override.share, RuleShare}
    BY DEF Settings
  <1>3. /\ MaxCap \in Nat /\ MaxShare \in Nat
        /\ \A s \in Settings : s.cap <= MaxCap /\ s.share <= MaxShare
    <2>1. /\ MaxCap \in {Config.cap, Override.cap, Config.cap}
          /\ \A x \in {Config.cap, Override.cap, Config.cap} : x <= MaxCap
      <3>1. MaxCap = Max({Config.cap, Override.cap, Config.cap})
        BY <1>2 DEF MaxCap
      <3> QED
        BY <1>1, <3>1, LargestOfThree
    <2>2. /\ MaxShare \in {Config.share, Override.share, RuleShare}
          /\ \A x \in {Config.share, Override.share, RuleShare} : x <= MaxShare
      <3>1. MaxShare = Max({Config.share, Override.share, RuleShare})
        BY <1>2 DEF MaxShare
      <3> QED
        BY <1>1, <3>1, LargestOfThree
    <2> QED
      BY <1>1, <2>1, <2>2 DEF Settings
  <1> QED
    BY <1>3 DEF None

\* Strengthens CapOvershoot with what a computed commission is at most.
OvershootInv ==
    /\ CapOvershoot
    /\ \A j \in Coming : part[j] <= MaxShare

\* Without a sum taken for 0, the commissions of an invitee pass the cap by no
\* more than a share for every goroutine but one.
THEOREM CapNearlyKept == Spec => []CapOvershoot
  <1> USE CommissionAssumption
  <1> DEFINE Limit == MaxCap + (Cardinality(Jobs) - 1) * MaxShare
             Owed == SumFunctionOnSet(part, Coming)
             Total == earned + Owed
  <1>0. /\ MaxCap \in Nat /\ MaxShare \in Nat /\ Cardinality(Jobs) \in Nat \ {0}
        /\ Limit \in Nat /\ MaxCap <= Limit
    <2>1. Cardinality(Jobs) \in Nat /\ Cardinality(Jobs) # 0
      BY FS_CardinalityType, FS_EmptySet
    <2>2. MaxCap \in Nat /\ MaxShare \in Nat /\ Cardinality(Jobs) - 1 \in Nat
      BY <2>1, LargestSetting
    <2>3. (Cardinality(Jobs) - 1) * MaxShare \in Nat
      BY <2>2
    <2> QED
      BY <2>1, <2>2, <2>3
  <1>1. Init => OvershootInv
    <2> SUFFICES ASSUME Init PROVE OvershootInv
      OBVIOUS
    <2>1. Coming = {} /\ earned = 0
      BY DEF Init, Coming
    <2>2. Total = 0
      BY <2>1, SumEmpty
    <2> QED
      BY <1>0, <2>1, <2>2 DEF OvershootInv, CapOvershoot
  <1>2. TypeOK /\ OvershootInv /\ [Next]_vars => OvershootInv'
    <2> SUFFICES ASSUME TypeOK, OvershootInv, [Next]_vars
                 PROVE  OvershootInv'
      OBVIOUS
    <2>0. /\ Coming \in SUBSET Jobs /\ IsFiniteSet(Coming)
          /\ \A j \in Jobs : part[j] \in Nat /\ part[j] \in Int
          /\ earned \in Nat /\ Owed \in Nat
      <3>1. Coming \in SUBSET Jobs
        BY DEF Coming
      <3>2. IsFiniteSet(Coming)
        BY <3>1, FS_Subset
      <3>3. \A j \in Jobs : part[j] \in Nat /\ part[j] \in Int
        BY DEF TypeOK
      <3>4. Owed \in Nat
        BY <3>1, <3>2, <3>3, SumNat
      <3> QED
        BY <3>1, <3>2, <3>3, <3>4 DEF TypeOK
    <2>1. ASSUME Coming' = Coming, part' = part, earned' = earned, ~blind' => ~blind
          PROVE  OvershootInv'
      BY <2>1 DEF OvershootInv, CapOvershoot
    <2>2. ASSUME NEW j \in Jobs, End(j), ~blind' => ~blind,
                 \/ earned' = earned
                 \/ j \in Coming /\ earned' = earned + part[j]
          PROVE  OvershootInv'
      <3>1. Coming' = Coming \ {j} /\ \A k \in Jobs \ {j} : part'[k] = part[k]
        BY <2>2 DEF TypeOK, Coming, End, Go
      <3>2. IsFiniteSet(Coming \ {j}) /\ Coming \ {j} \in SUBSET Coming
        BY <2>0, FS_Subset
      <3> DEFINE Rest == SumFunctionOnSet(part, Coming \ {j})
      <3>3. Owed' = Rest
        <4>1. \A k \in Coming \ {j} : part[k] \in Int /\ part'[k] = part[k]
          BY <2>0, <3>1
        <4>2. SumFunctionOnSet(part', Coming \ {j}) = Rest
          BY <3>2, <4>1, SumSame
        <4> QED
          BY <3>1, <4>2
      <3>4. Rest <= Owed /\ Rest \in Nat
        BY <2>0, <3>2, SumSubset, SumNat
      <3>5. j \in Coming => Owed = part[j] + Rest
        BY <2>0, SumRemove
      <3>6. Total' <= Total
        <4> HIDE DEF Rest, Owed
        <4>1. CASE earned' = earned
          BY <2>0, <3>3, <3>4, <4>1
        <4>2. CASE j \in Coming /\ earned' = earned + part[j]
          BY <2>0, <3>3, <3>4, <3>5, <4>2
        <4> QED
          BY <2>2, <4>1, <4>2
      <3>7. Total \in Nat /\ Total' \in Nat
        <4> HIDE DEF Rest, Owed
        <4>1. part[j] \in Nat
          BY <2>0
        <4>2. earned' \in Nat
          BY <2>0, <2>2, <4>1
        <4>3. Owed' \in Nat
          BY <3>3, <3>4
        <4>4. \A a, b \in Nat : a + b \in Nat
          OBVIOUS
        <4> QED
          BY <2>0, <4>2, <4>3, <4>4, Zenon
      <3>8. ~blind' => Total' <= Limit
        <4>1. ~blind' => Total <= Limit
          BY <2>2 DEF OvershootInv, CapOvershoot
        <4> HIDE DEF Total, Limit
        <4> QED
          BY <1>0, <3>6, <3>7, <4>1
      <3>9. \A k \in Coming' : part'[k] <= MaxShare
        BY <2>0, <3>1 DEF OvershootInv
      <3> QED
        BY <3>8, <3>9 DEF OvershootInv, CapOvershoot
    <2>3. ASSUME NEW j \in Jobs, NEW p \in Places \ {"record"}, Go(j, p),
                 at[j] # "record", part' = part, earned' = earned,
                 ~blind' => ~blind
          PROVE  OvershootInv'
      <3>1. Coming' = Coming
        BY <2>3 DEF TypeOK, Coming, Go
      <3> QED
        BY <2>1, <2>3, <3>1
    <2>4. ASSUME NEW j \in Jobs, Begin(j)
          PROVE  OvershootInv'
      BY <2>3, <2>4 DEF Begin, Places
    <2>5. ASSUME NEW j \in Jobs, ReadAttribution(j)
          PROVE  OvershootInv'
      <3>1. CASE End(j)
        BY <2>2, <2>5, <3>1 DEF ReadAttribution
      <3>2. CASE ~End(j)
        <4>1. PICK p \in {"expire", "get", "base"} : Go(j, p)
          BY <2>5, <3>2 DEF ReadAttribution
        <4> QED
          BY <2>3, <2>5, <3>2, <4>1 DEF ReadAttribution, Alive, Places, locals
      <3> QED
        BY <3>1, <3>2
    <2>6. ASSUME NEW j \in Jobs, Expire(j) \/ GiveUp(j)
          PROVE  OvershootInv'
      BY <2>2, <2>6 DEF Expire, GiveUp
    <2>7. ASSUME NEW j \in Jobs,
                 Get(j) \/ LoadRule(j) \/ LoadOther(j) \/ Keep(j)
          PROVE  OvershootInv'
      <3>1. PICK p \in {"cap", "rule", "keep", "other"} : Go(j, p)
        BY <2>7 DEF Get, LoadRule, LoadOther, Keep
      <3>2. at[j] # "record" /\ UNCHANGED <<part, earned, blind>>
        BY <2>7 DEF Get, LoadRule, LoadOther, Keep, Alive
      <3> QED
        BY <2>3, <3>1, <3>2 DEF Places
    <2>8. ASSUME NEW j \in Jobs, CheckCap(j)
          PROVE  OvershootInv'
      <3>1. (~blind' => ~blind) /\ earned' = earned /\ at[j] # "record"
        BY <2>8 DEF CheckCap, ReadEarned, Alive
      <3>2. CASE End(j)
        BY <2>2, <3>1, <3>2
      <3>3. CASE ~End(j)
        <4>1. Go(j, "clip") /\ part' = part
          BY <2>8, <3>3 DEF CheckCap, locals
        <4> QED
          BY <2>3, <3>1, <4>1 DEF Places
      <3> QED
        BY <3>2, <3>3
    <2>9. ASSUME NEW j \in Jobs, Clip(j)
          PROVE  OvershootInv'
      <3>1. PICK n \in {0, earned} :
                /\ ReadEarned(n)
                /\ \/ End(j)
                   \/ /\ Room(j, n) > 0
                      /\ seen' = [seen EXCEPT ![j] = n]
                      /\ part' = [part EXCEPT ![j] = Room(j, n)]
                      /\ Go(j, "record")
                      /\ UNCHANGED <<left, got>>
        BY <2>9 DEF Clip
      <3>2. /\ ~blind' => ~blind /\ n = earned
            /\ earned' = earned /\ at[j] # "record"
        BY <2>9, <3>1 DEF Clip, ReadEarned, Alive
      <3>3. CASE End(j)
        BY <2>2, <3>2, <3>3
      <3>4. CASE ~End(j)
        <4>1. /\ got[j].share \in Nat /\ got[j].cap \in Nat /\ n \in Nat
              /\ got[j].cap <= MaxCap /\ got[j].share <= MaxShare
          <5>1. got[j] \in Settings \union {None}
            BY DEF TypeOK
          <5> QED
            BY <2>0, <5>1, SettingType, LargestSetting DEF None
        <4>2. /\ Room(j, n) \in Nat /\ n + Room(j, n) <= MaxCap
              /\ Room(j, n) <= MaxShare
          BY <1>0, <3>1, <3>4, <4>1 DEF Room
        <4>3. /\ part'[j] = Room(j, n) /\ Coming' = Coming \union {j}
              /\ j \notin Coming /\ \A k \in Jobs \ {j} : part'[k] = part[k]
          BY <3>1, <3>2, <3>4 DEF TypeOK, Coming, Go
        <4>4. \A k \in Coming' : part'[k] \in Nat /\ part'[k] \in Int
                                    /\ part'[k] <= MaxShare
          BY <2>0, <4>2, <4>3 DEF OvershootInv
        <4>5. Owed' = part'[j] + SumFunctionOnSet(part', Coming)
          BY <2>0, <4>3, <4>4, SumAdd
        <4>6. SumFunctionOnSet(part', Coming) <= Cardinality(Coming) * MaxShare
          BY <1>0, <2>0, <4>3, <4>4, SumBound
        <4>7. Cardinality(Coming) \in Nat /\ Cardinality(Coming) <= Cardinality(Jobs) - 1
          <5>1. Coming \in SUBSET (Jobs \ {j}) /\ IsFiniteSet(Jobs \ {j})
            BY <2>0, <4>3, FS_Subset
          <5>2. Cardinality(Jobs \ {j}) = Cardinality(Jobs) - 1
            BY FS_RemoveElement
          <5> QED
            BY <5>1, <5>2, FS_Subset, FS_CardinalityType
        <4>8. Cardinality(Coming) * MaxShare <= (Cardinality(Jobs) - 1) * MaxShare
          <5> DEFINE a == Cardinality(Coming)
                     d == Cardinality(Jobs) - 1 - a
          <5>1. a \in Nat /\ d \in Nat /\ Cardinality(Jobs) - 1 = a + d
            BY <1>0, <4>7
          <5> HIDE DEF a, d
          <5>2. (a + d) * MaxShare = a * MaxShare + d * MaxShare /\ d * MaxShare >= 0
                /\ a * MaxShare \in Nat
            BY <1>0, <5>1
          <5>3. a * MaxShare <= (a + d) * MaxShare
            BY <1>0, <5>1, <5>2
          <5> QED
            BY <5>1, <5>3 DEF a
        <4>9. ~blind' => Total' <= Limit
          <5> DEFINE rest == SumFunctionOnSet(part', Coming)
                     all == (Cardinality(Jobs) - 1) * MaxShare
                     most == Cardinality(Coming) * MaxShare
          <5>1. rest \in Nat
            BY <2>0, <4>3, <4>4, SumNat
          <5>2. all \in Int /\ most \in Int
            BY <1>0, <4>7
          <5>3. Owed' = Room(j, n) + rest /\ rest <= most /\ most <= all
            BY <4>3, <4>5, <4>6, <4>8
          <5>4. ~blind' => n + Owed' <= MaxCap + all
            <6> HIDE DEF rest, all, most, Owed
            <6> QED
              BY <1>0, <4>1, <4>2, <5>1, <5>2, <5>3
          <5> QED
            BY <3>2, <5>4
        <4> QED
          BY <4>4, <4>9 DEF OvershootInv, CapOvershoot
      <3> QED
        BY <3>3, <3>4
    <2>10. ASSUME NEW j \in Jobs, Record(j)
           PROVE  OvershootInv'
      <3>1. j \in Coming
        BY <2>10 DEF Record, Alive, Coming
      <3> QED
        BY <2>2, <2>10, <3>1 DEF Record
    <2>11. CASE WriteRule \/ Purge \/ WriteOverride \/ Unlock \/ Lapse \/ Tick
                \/ UNCHANGED vars
      <3>1. UNCHANGED <<at, part, earned, blind>>
        BY <2>11 DEF WriteRule, Purge, WriteOverride, Unlock, Lapse, Tick, vars,
                     jobVars, locals
      <3> QED
        BY <2>1, <3>1 DEF Coming
    <2> QED
      BY <2>4, <2>5, <2>6, <2>7, <2>8, <2>9, <2>10, <2>11 DEF Next, Proceed
  <1>3. OvershootInv => CapOvershoot
    BY DEF OvershootInv
  <1> QED
    BY <1>1, <1>2, <1>3, TypeCorrect, PTL DEF Spec

-----------------------------------------------------------------------------
(* Bonuses of inviters.                                                     *)

\* The steps of a callback inside its checks and at its end.
LEMMA GoType ==
    ASSUME BonusTypeOK, NEW c \in Calls, stage[c] # "idle",
           NEW p \in CallStages \ {"idle"}, Move(c, p) \/ Finish(c)
    PROVE  /\ stage' \in [Calls -> CallStages]
           /\ who' \in [Calls -> Invitees \union {Nobody}]
           /\ \A d \in Calls : stage'[d] = "idle" <=> who'[d] = Nobody
  <1>1. CASE Move(c, p)
    BY <1>1 DEF BonusTypeOK, Move
  <1>2. CASE Finish(c)
    BY <1>2 DEF BonusTypeOK, Finish, CallStages
  <1> QED
    BY <1>1, <1>2

\* A callback that checks, grants or dies does one of them.
LEMMA AdvanceMoves ==
    ASSUME NEW c \in Calls, Advance(c) \/ Die(c)
    PROVE  /\ stage[c] # "idle"
           /\ \E p \in CallStages \ {"idle"} : Move(c, p) \/ Finish(c)
  BY DEF Advance, FindAttribution, SumPaid, CountMonth, ReadAccount, Grant,
         Die, CallStages

\* The variables keep their types: bonuses of this month are bonuses.
THEOREM BonusTypeCorrect == BonusSpec => []BonusTypeOK
  <1> USE InviterBonusAssumption
  <1>1. ASSUME BonusInit PROVE BonusTypeOK
    <2>1. 0 \in 0 .. MaxPaid /\ "idle" \in CallStages
      BY DEF CallStages
    <2> QED
      BY <1>1, <2>1 DEF BonusInit, BonusTypeOK
  <1>2. BonusTypeOK /\ [BonusNext]_bonusVars => BonusTypeOK'
    <2> SUFFICES ASSUME BonusTypeOK, [BonusNext]_bonusVars
                 PROVE  BonusTypeOK'
      OBVIOUS
    <2>1. ASSUME NEW c \in Calls, Advance(c) \/ Die(c)
          PROVE  BonusTypeOK'
      <3>1. stage[c] # "idle" /\ who[c] \in Invitees
        BY <2>1, AdvanceMoves DEF BonusTypeOK
      <3>2. PICK p \in CallStages \ {"idle"} : Move(c, p) \/ Finish(c)
        BY <2>1, AdvanceMoves
      <3>3. /\ stage' \in [Calls -> CallStages]
            /\ who' \in [Calls -> Invitees \union {Nobody}]
            /\ \A d \in Calls : stage'[d] = "idle" <=> who'[d] = Nobody
        BY <3>1, <3>2, GoType
      <3>4. miscounted' \in BOOLEAN
        BY <2>1 DEF BonusTypeOK, Advance, FindAttribution, SumPaid, CountMonth,
                    ReadAccount, Grant, Die
      <3>5. excused' \subseteq Invitees
        BY <2>1, <3>1 DEF BonusTypeOK, Advance, FindAttribution, SumPaid,
                          CountMonth, ReadAccount, Grant, Die
      <3>6. /\ granted' \subseteq Invitees /\ month' \subseteq granted'
            /\ credit' \in Nat
        BY <2>1, <3>1 DEF BonusTypeOK, Advance, FindAttribution, SumPaid,
                          CountMonth, ReadAccount, Grant, Die, attrVars
      <3>7. paid' = paid /\ valid' = valid
        BY <2>1 DEF Advance, FindAttribution, SumPaid, CountMonth,
                    ReadAccount, Grant, Die, attrVars
      <3> QED
        BY <3>3, <3>4, <3>5, <3>6, <3>7 DEF BonusTypeOK
    <2>2. ASSUME NEW c \in Calls, NEW i \in Invitees, Pay(c, i)
          PROVE  BonusTypeOK'
      <3>1. paid' \in [Invitees -> 0 .. MaxPaid]
        BY <2>2 DEF BonusTypeOK, Pay
      <3>2. /\ stage' \in [Calls -> CallStages]
            /\ who' \in [Calls -> Invitees \union {Nobody}]
            /\ \A d \in Calls : stage'[d] = "idle" <=> who'[d] = Nobody
        BY <2>2, NobodyIsNoInvitee DEF BonusTypeOK, Pay, CallStages
      <3> QED
        BY <2>2, <3>1, <3>2 DEF BonusTypeOK, Pay, attrVars
    <2>3. ASSUME NEW i \in Invitees, Refunded(i) \/ Invalidate(i)
          PROVE  BonusTypeOK'
      <3>1. paid' \in [Invitees -> 0 .. MaxPaid]
        BY <2>3 DEF BonusTypeOK, Refunded, Invalidate
      <3> QED
        BY <2>3, <3>1 DEF BonusTypeOK, Refunded, Invalidate, attrVars
    <2>4. CASE NewMonth
      BY <2>4 DEF BonusTypeOK, NewMonth
    <2>5. CASE UNCHANGED bonusVars
      BY <2>5 DEF BonusTypeOK, bonusVars
    <2> QED
      BY <2>1, <2>2, <2>3, <2>4, <2>5 DEF BonusNext
  <1> QED
    BY <1>1, <1>2, PTL DEF BonusSpec

-----------------------------------------------------------------------------

\* The inviter has one bonus for every invitee whose flag is set.
THEOREM OneBonusPerInvitee == BonusSpec => []BonusOncePerInvitee
  <1> USE InviterBonusAssumption
  <1>1. BonusInit => BonusOncePerInvitee
    BY FS_EmptySet DEF BonusInit, BonusOncePerInvitee
  <1>2. BonusTypeOK /\ BonusOncePerInvitee /\ [BonusNext]_bonusVars => BonusOncePerInvitee'
    <2> SUFFICES ASSUME BonusTypeOK, BonusOncePerInvitee, [BonusNext]_bonusVars
                 PROVE  BonusOncePerInvitee'
      OBVIOUS
    <2>1. ASSUME NEW c \in Calls, Grant(c), who[c] \notin granted
          PROVE  BonusOncePerInvitee'
      <3>1. IsFiniteSet(granted)
        BY FS_Subset DEF BonusTypeOK
      <3>2. Cardinality(granted') = Cardinality(granted) + 1
        BY <2>1, <3>1, FS_AddElement DEF Grant
      <3>3. Cardinality(granted) \in Nat
        BY <3>1, FS_CardinalityType
      <3>4. credit' = credit + Bonus
        BY <2>1 DEF Grant
      <3>5. Bonus * (Cardinality(granted) + 1)
                = Bonus * Cardinality(granted) + Bonus
        BY <3>3
      <3> QED
        BY <3>2, <3>4, <3>5 DEF BonusOncePerInvitee
    <2>2. ASSUME UNCHANGED <<granted, credit>>
          PROVE  BonusOncePerInvitee'
      BY <2>2 DEF BonusOncePerInvitee
    <2>3. \/ \E c \in Calls : Grant(c) /\ who[c] \notin granted
          \/ UNCHANGED <<granted, credit>>
      BY DEF BonusNext, Advance, FindAttribution, SumPaid, CountMonth, ReadAccount,
             Grant, Die, Pay, Refunded, Invalidate, NewMonth, attrVars, bonusVars
    <2> QED
      BY <2>1, <2>2, <2>3
  <1> QED
    BY <1>1, <1>2, BonusTypeCorrect, PTL DEF BonusSpec

-----------------------------------------------------------------------------

\* The callbacks that have found room in the month and not yet used it.
Passed == {c \in Calls : stage[c] \in {"account", "grant"}}

\* Strengthens MonthlyOvershoot: what the month has and what may still be added
\* stay below the cap and the other callbacks.
MonthInv ==
    ~miscounted => Cardinality(month) + Cardinality(Passed)
                  <= MonthlyCap + Cardinality(Calls) - 1

LEMMA FiniteSets ==
    ASSUME BonusTypeOK
    PROVE  /\ IsFiniteSet(month) /\ IsFiniteSet(Passed)
           /\ Cardinality(month) \in Nat
           /\ Cardinality(Passed) \in 0 .. Cardinality(Calls)
           /\ Cardinality(Calls) \in Nat
  <1> USE InviterBonusAssumption
  <1>1. month \in SUBSET Invitees /\ Passed \in SUBSET Calls
    BY DEF BonusTypeOK, Passed
  <1>2. IsFiniteSet(month) /\ IsFiniteSet(Passed)
        /\ Cardinality(Passed) <= Cardinality(Calls)
    BY <1>1, FS_Subset
  <1> QED
    BY <1>2, FS_CardinalityType

\* The month's bonuses pass the cap by no more than the other callbacks.
THEOREM MonthlyCapNearlyKept == BonusSpec => []MonthlyOvershoot
  <1> USE InviterBonusAssumption
  <1>1. ASSUME BonusInit PROVE MonthInv
    <2>1. Passed = {} /\ month = {}
      BY <1>1 DEF BonusInit, Passed
    <2>2. Cardinality(Calls) \in Nat
      BY FS_CardinalityType
    <2> QED
      BY <2>1, <2>2, FS_EmptySet DEF MonthInv
  <1>2. BonusTypeOK /\ BonusTypeOK' /\ MonthInv /\ [BonusNext]_bonusVars => MonthInv'
    <2> SUFFICES ASSUME BonusTypeOK, BonusTypeOK', MonthInv, [BonusNext]_bonusVars
                 PROVE  MonthInv'
      OBVIOUS
    <2>1. /\ IsFiniteSet(month) /\ IsFiniteSet(Passed)
          /\ Cardinality(month) \in Nat
          /\ Cardinality(Passed) \in 0 .. Cardinality(Calls)
          /\ Cardinality(Calls) \in Nat
      BY FiniteSets
    <2>2. /\ Cardinality(Passed)' \in 0 .. Cardinality(Calls)
          /\ Cardinality(month') \in Nat
      <3>1. Passed' \in SUBSET Calls /\ month' \in SUBSET Invitees
        BY DEF BonusTypeOK, Passed
      <3>2. /\ IsFiniteSet(Passed') /\ Cardinality(Passed') <= Cardinality(Calls)
            /\ IsFiniteSet(month')
        BY <3>1, FS_Subset
      <3> QED
        BY <2>1, <3>2, FS_CardinalityType
    <2>3. ASSUME Passed' \subseteq Passed, month' = month, ~miscounted' => ~miscounted
          PROVE  MonthInv'
      <3>1. Cardinality(Passed') <= Cardinality(Passed)
        BY <2>1, <2>3, FS_Subset
      <3> QED
        BY <2>1, <2>2, <2>3, <3>1 DEF MonthInv
    <2>4. ASSUME NEW c \in Calls,
                 Pay(c, who'[c]) \/ FindAttribution(c) \/ SumPaid(c)
                 \/ ReadAccount(c) \/ Die(c)
          PROVE  MonthInv'
      <3>1. Passed' \subseteq Passed
        BY <2>4 DEF BonusTypeOK, Passed, Pay, FindAttribution, SumPaid,
                    ReadAccount, Die, Move, Finish
      <3> QED
        BY <2>3, <2>4, <3>1 DEF Pay, FindAttribution, SumPaid, ReadAccount,
                                Die, attrVars
    <2>5. ASSUME NEW c \in Calls, CountMonth(c)
          PROVE  MonthInv'
      <3>1. CASE Finish(c)
        <4>1. Passed' \subseteq Passed
          BY <2>5, <3>1 DEF BonusTypeOK, Passed, CountMonth, Finish
        <4>2. month' = month /\ (~miscounted' => ~miscounted)
          BY <2>5, <3>1 DEF CountMonth, attrVars
        <4> QED
          BY <2>3, <4>1, <4>2
      <3>2. CASE ~Finish(c) /\ ~miscounted'
        <4>1. Cardinality(month) < MonthlyCap /\ month' = month
          BY <2>5, <3>2 DEF CountMonth, attrVars
        <4> QED
          BY <2>1, <2>2, <4>1 DEF MonthInv
      <3>3. CASE miscounted'
        BY <3>3 DEF MonthInv
      <3> QED
        BY <3>1, <3>2, <3>3
    <2>6. ASSUME NEW c \in Calls, Grant(c)
          PROVE  MonthInv'
      <3>1. c \in Passed /\ Passed' = Passed \ {c}
        BY <2>6 DEF BonusTypeOK, Passed, Grant, Finish
      <3>2. Cardinality(Passed') = Cardinality(Passed) - 1
        BY <2>1, <3>1, FS_RemoveElement
      <3>3. Cardinality(month') <= Cardinality(month) + 1
        <4>1. month' = month \/ month' = month \union {who[c]}
          BY <2>6 DEF Grant
        <4>2. Cardinality(month \union {who[c]}) <= Cardinality(month) + 1
          <5>1. Cardinality(month \union {who[c]}) =
                    IF who[c] \in month THEN Cardinality(month)
                    ELSE Cardinality(month) + 1
            BY <2>1, FS_AddElement
          <5> QED
            BY <2>1, <5>1
        <4> QED
          BY <2>1, <4>1, <4>2
      <3> QED
        BY <2>1, <2>2, <2>6, <3>2, <3>3 DEF MonthInv, Grant
    <2>7. ASSUME NEW i \in Invitees, Refunded(i) \/ Invalidate(i)
          PROVE  MonthInv'
      <3>1. Passed' = Passed /\ month' = month /\ miscounted' = miscounted
        BY <2>7 DEF Refunded, Invalidate, Passed, attrVars
      <3> QED
        BY <2>3, <3>1
    <2>8. CASE NewMonth
      <3>1. Passed' = Passed /\ Cardinality(month') = 0 /\ miscounted' = miscounted
        BY <2>8, FS_EmptySet DEF NewMonth, Passed
      <3> QED
        BY <2>1, <2>2, <3>1 DEF MonthInv
    <2>9. CASE UNCHANGED bonusVars
      <3>1. Passed' = Passed /\ month' = month /\ miscounted' = miscounted
        BY <2>9 DEF bonusVars, Passed
      <3> QED
        BY <2>3, <3>1
    <2>10. ASSUME NEW c \in Calls, NEW i \in Invitees, Pay(c, i)
           PROVE  MonthInv'
      <3>1. i = who'[c]
        BY <2>10 DEF BonusTypeOK, Pay
      <3> QED
        BY <2>4, <2>10, <3>1
    <2> QED
      BY <2>4, <2>5, <2>6, <2>7, <2>8, <2>9, <2>10 DEF BonusNext, Advance
  <1>3. BonusTypeOK /\ MonthInv => MonthlyOvershoot
    <2> SUFFICES ASSUME BonusTypeOK, MonthInv, ~miscounted
                 PROVE  Cardinality(month)
                            <= MonthlyCap + Cardinality(Calls) - 1
      BY DEF MonthlyOvershoot
    <2> QED
      BY FiniteSets DEF MonthInv
  <1> QED
    BY <1>1, <1>2, <1>3, BonusTypeCorrect, PTL DEF BonusSpec

-----------------------------------------------------------------------------

\* An invitee who has paid enough is rewarded by the last of its callbacks.
THEOREM PaymentsAreRewarded == BonusSpec => []PaidIsRewarded
  <1> USE InviterBonusAssumption, NobodyIsNoInvitee
  <1>1. BonusInit => PaidIsRewarded
    BY DEF BonusInit, PaidIsRewarded
  <1>2. BonusTypeOK /\ PaidIsRewarded /\ [BonusNext]_bonusVars => PaidIsRewarded'
    <2> SUFFICES ASSUME BonusTypeOK, PaidIsRewarded, [BonusNext]_bonusVars,
                        NEW i \in (valid \ (granted \union excused))',
                        paid'[i] >= UnlockPaid
                 PROVE  \E c \in Calls : who'[c] = i
      BY DEF PaidIsRewarded
    <2>1. ASSUME NEW c \in Calls, Advance(c) \/ Die(c)
          PROVE  \E d \in Calls : who'[d] = i
      <3>1. i \in valid \ (granted \union excused) /\ paid'[i] = paid[i]
        BY <2>1 DEF Advance, FindAttribution, SumPaid, CountMonth,
                    ReadAccount, Grant, Die, attrVars
      <3>2. PICK d \in Calls : who[d] = i
        BY <3>1 DEF PaidIsRewarded
      <3>3. CASE d # c
        BY <2>1, <3>2, <3>3, AdvanceMoves DEF BonusTypeOK, Move, Finish
      <3>4. CASE d = c
        <4>1. ~Finish(c) => \E p \in CallStages : Move(c, p)
          BY <2>1, AdvanceMoves
        <4>2. CASE ~Finish(c)
          BY <3>2, <3>4, <4>1, <4>2 DEF Move
        <4>3. CASE Finish(c)
          <5>1. FindAttribution(c) => FALSE
            BY <3>1, <3>2, <3>4, <4>3
            DEF BonusTypeOK, FindAttribution, Move, Finish
          <5>2. SumPaid(c) => FALSE
            BY <3>1, <3>2, <3>4, <4>3 DEF BonusTypeOK, SumPaid, Move, Finish
          <5>3. CountMonth(c) => FALSE
            BY <3>1, <3>2, <3>4, <4>3 DEF BonusTypeOK, CountMonth, Move, Finish
          <5>4. ReadAccount(c) => FALSE
            BY <3>1, <3>2, <3>4, <4>3 DEF BonusTypeOK, ReadAccount, Move, Finish
          <5>5. Grant(c) => FALSE
            BY <3>1, <3>2, <3>4 DEF Grant
          <5>6. Die(c) => FALSE
            BY <3>1, <3>2, <3>4 DEF Die
          <5> QED
            BY <2>1, <5>1, <5>2, <5>3, <5>4, <5>5, <5>6 DEF Advance
        <4> QED
          BY <4>2, <4>3
      <3> QED
        BY <3>3, <3>4
    <2>2. ASSUME NEW c \in Calls, NEW k \in Invitees, Pay(c, k)
          PROVE  \E d \in Calls : who'[d] = i
      <3>1. CASE k = i
        BY <2>2, <3>1 DEF BonusTypeOK, Pay
      <3>2. CASE k # i
        <4>1. i \in valid \ (granted \union excused) /\ paid'[i] = paid[i]
          BY <2>2, <3>2 DEF BonusTypeOK, Pay, attrVars
        <4>2. PICK d \in Calls : who[d] = i
          BY <4>1 DEF PaidIsRewarded
        <4>3. d # c
          <5>1. stage[c] = "idle"
            BY <2>2 DEF Pay
          <5>2. who[c] = Nobody
            BY <5>1 DEF BonusTypeOK
          <5> QED
            BY <4>1, <4>2, <5>2 DEF BonusTypeOK
        <4>4. who'[d] = who[d]
          BY <2>2, <4>3 DEF BonusTypeOK, Pay
        <4> QED
          BY <4>2, <4>4
      <3> QED
        BY <3>1, <3>2
    <2>3. ASSUME NEW k \in Invitees, Refunded(k) \/ Invalidate(k)
          PROVE  \E d \in Calls : who'[d] = i
      <3>1. i \in valid \ (granted \union excused) /\ paid[i] >= UnlockPaid
        BY <2>3 DEF BonusTypeOK, Refunded, Invalidate, attrVars
      <3> QED
        BY <2>3, <3>1 DEF PaidIsRewarded, Refunded, Invalidate
    <2>4. CASE NewMonth \/ UNCHANGED bonusVars
      BY <2>4 DEF NewMonth, bonusVars, PaidIsRewarded
    <2> QED
      BY <2>1, <2>2, <2>3, <2>4 DEF BonusNext
  <1> QED
    BY <1>1, <1>2, BonusTypeCorrect, PTL DEF BonusSpec

=============================================================================
