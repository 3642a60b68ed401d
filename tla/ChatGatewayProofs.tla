-------------------------- MODULE ChatGatewayProofs -------------------------
(***************************************************************************)
(* Proofs about ChatGateway, for any number of requests and channels and    *)
(* any limits.                                                              *)
(***************************************************************************)
EXTENDS ChatGateway, FiniteSetTheorems, TLAPS

\* The places of a request that has been counted and has not been taken off.
Counted == {"expire", "select", "count", "call", "settle", "decr", "drop"}

\* Only counted requests are held, and all of them whose client is still there.
HeldInv ==
    \A r \in Requests :
        /\ r \in held => at[r] \in Counted
        /\ at[r] \in Counted /\ r \notin gone => r \in held

-----------------------------------------------------------------------------
LEMMA FiniteParts ==
    ASSUME NEW S \in SUBSET Requests
    PROVE  IsFiniteSet(S) /\ Cardinality(S) \in Nat
  BY GatewayAssumption, FS_Subset, FS_CardinalityType

THEOREM TypeCorrect == Spec => []TypeOK
  <1> USE GatewayAssumption
  <1>1. ASSUME Init PROVE TypeOK
    <2>1. 0 \in 0 .. SlotTTL /\ 0 \in 0 .. DailyLimit /\ 0 \in 0 .. DayTTL
      OBVIOUS
    <2>2. /\ at \in [Requests -> Places]
          /\ chosen \in [Requests -> Channels \union {None}]
          /\ loaded \in [Requests -> 0 .. DailyLimit]
          /\ load \in [Channels -> Int]
      BY <1>1, <2>1 DEF Init, Places
    <2>3. \A r \in Requests : at[r] \notin {"count", "call"}
      BY <1>1 DEF Init
    <2>4. under \in BOOLEAN /\ stranded \in BOOLEAN
      BY <1>1 DEF Init
    <2>5. /\ gone \subseteq Requests /\ held \subseteq Requests
          /\ leaked \subseteq Channels /\ wiped \subseteq Channels
      BY <1>1 DEF Init
    <2>6. /\ slots \in Int /\ slotsTTL \in {Forever} \union 0 .. SlotTTL
          /\ spent \in 0 .. DailyLimit /\ dayTTL \in 0 .. DayTTL
          /\ day \in {None} \union 0 .. DailyLimit
      BY <1>1, <2>1 DEF Init
    <2> QED
      BY <2>2, <2>3, <2>4, <2>5, <2>6 DEF TypeOK
  <1>2. TypeOK /\ [Next]_vars => TypeOK'
    <2> SUFFICES ASSUME TypeOK, [Next]_vars
                 PROVE  TypeOK'
      OBVIOUS
    <2> USE DEF TypeOK, Places, Goto, Refuse, slotVars, dayVars, loadVars
    <2>1. ASSUME NEW r \in Requests, Begin(r) PROVE TypeOK'
      BY <2>1 DEF Begin
    <2>2. ASSUME NEW r \in Requests, ReadDay(r) PROVE TypeOK'
      BY <2>2 DEF ReadDay, WithinLimit
    <2>3. ASSUME NEW r \in Requests, SumDay(r) PROVE TypeOK'
      BY <2>3 DEF SumDay
    <2>4. ASSUME NEW r \in Requests, KeepDay(r) PROVE TypeOK'
      BY <2>4 DEF KeepDay, WithinLimit
    <2>5. ASSUME NEW r \in Requests, CheckSlots(r) PROVE TypeOK'
      BY <2>5 DEF CheckSlots
    <2>6. ASSUME NEW r \in Requests, Incr(r) PROVE TypeOK'
      BY <2>6 DEF Incr
    <2>7. ASSUME NEW r \in Requests, Expire(r) \/ ExpireLost(r) PROVE TypeOK'
      <3>1. stranded' \in BOOLEAN
        BY <2>7 DEF Expire, ExpireLost
      <3>2. SlotTTL \in 0 .. SlotTTL /\ 0 \in 0 .. SlotTTL
        OBVIOUS
      <3>3. slotsTTL' \in {Forever} \union 0 .. SlotTTL
        BY <2>7, <3>2 DEF Expire, ExpireLost
      <3> QED
        BY <2>7, <3>1, <3>3 DEF Expire, ExpireLost
    <2>8. ASSUME NEW r \in Requests, Select(r) PROVE TypeOK'
      BY <2>8 DEF Select
    <2>9. ASSUME NEW r \in Requests, Count(r) PROVE TypeOK'
      BY <2>9 DEF Count
    <2>10. ASSUME NEW r \in Requests, Uncount(r) PROVE TypeOK'
      BY <2>10 DEF Uncount
    <2>11. ASSUME NEW r \in Requests, Settle(r) PROVE TypeOK'
      BY <2>11 DEF Settle, AtMost
    <2>12. ASSUME NEW r \in Requests, Decr(r) \/ Drop(r) PROVE TypeOK'
      BY <2>12 DEF Decr, Drop
    <2>13. ASSUME NEW r \in Requests, Disconnect(r) \/ Crash(r) PROVE TypeOK'
      BY <2>13 DEF Disconnect, Crash
    <2>14. CASE ResetInflight
      BY <2>14 DEF ResetInflight
    <2>15. CASE Tick
      <3>1. under' \in BOOLEAN /\ stranded' \in BOOLEAN
        BY <2>15 DEF Tick
      <3>2. slotsTTL' \in {Forever} \union 0 .. SlotTTL /\ slots' \in Int
        BY <2>15 DEF Tick, Forever
      <3>3. day' \in {None} \union 0 .. DailyLimit /\ dayTTL' \in 0 .. DayTTL
        BY <2>15 DEF Tick, AgeDay
      <3>4. UNCHANGED <<at, chosen, gone, held, spent, loaded, load, leaked, wiped>>
        BY <2>15 DEF Tick
      <3> QED
        BY <3>1, <3>2, <3>3, <3>4
    <2>16. CASE UNCHANGED vars
      BY <2>16 DEF vars
    <2> QED
      BY <2>1, <2>2, <2>3, <2>4, <2>5, <2>6, <2>7, <2>8, <2>9, <2>10, <2>11,
         <2>12, <2>13, <2>14, <2>15, <2>16 DEF Next, Proceed
  <1> QED
    BY <1>1, <1>2, PTL DEF Spec

\* Held requests stay at counted places; the client's leaving only takes a
\* request out of the second half.
LEMMA HeldStep == TypeOK /\ HeldInv /\ [Next]_vars => HeldInv'
  <1> SUFFICES ASSUME TypeOK, HeldInv, [Next]_vars
               PROVE  HeldInv'
    OBVIOUS
  <1> USE DEF HeldInv, TypeOK, Counted, Goto, Refuse, slotVars
  <1>1. ASSUME NEW r \in Requests,
               \/ Begin(r) \/ ReadDay(r) \/ SumDay(r) \/ KeepDay(r)
               \/ CheckSlots(r)
        PROVE  HeldInv'
    BY <1>1 DEF Begin, ReadDay, SumDay, KeepDay, CheckSlots, WithinLimit
  <1>2. ASSUME NEW r \in Requests, Incr(r) PROVE HeldInv'
    BY <1>2 DEF Incr
  <1>3. ASSUME NEW r \in Requests,
               Expire(r) \/ ExpireLost(r) \/ Select(r) \/ Count(r)
        PROVE  HeldInv'
    BY <1>3 DEF Expire, ExpireLost, Select, Count
  <1>4. ASSUME NEW r \in Requests, Uncount(r) \/ Settle(r) PROVE HeldInv'
    BY <1>4 DEF Uncount, Settle
  <1>5. ASSUME NEW r \in Requests, Decr(r) PROVE HeldInv'
    BY <1>5 DEF Decr
  <1>6. ASSUME NEW r \in Requests, Drop(r) \/ Crash(r) PROVE HeldInv'
    BY <1>6 DEF Drop, Crash
  <1>7. ASSUME NEW r \in Requests, Disconnect(r) PROVE HeldInv'
    BY <1>7 DEF Disconnect
  <1>8. CASE ResetInflight \/ Tick
    BY <1>8 DEF ResetInflight, Tick
  <1>9. CASE UNCHANGED vars
    BY <1>9 DEF vars
  <1> QED
    BY <1>1, <1>2, <1>3, <1>4, <1>5, <1>6, <1>7, <1>8, <1>9 DEF Next, Proceed

\* The counter covers the requests that run, unless it expired under one.  The
\* invariant is not inductive: a second decrement for one request would break
\* it, which HeldInv excludes.
THEOREM SlotsCovered == Spec => []SlotsCover
  <1>1. Init => HeldInv /\ SlotsCover
    <2> SUFFICES ASSUME Init PROVE HeldInv /\ SlotsCover
      OBVIOUS
    <2> QED
      BY FS_EmptySet DEF Init, HeldInv, SlotsCover, Counted
  <1>2. TypeOK /\ HeldInv /\ SlotsCover /\ [Next]_vars => SlotsCover'
    <2> SUFFICES ASSUME TypeOK, HeldInv, SlotsCover, [Next]_vars
                 PROVE  SlotsCover'
      OBVIOUS
    <2>a. slots \in Int /\ IsFiniteSet(held) /\ Cardinality(held) \in Nat
      BY FiniteParts DEF TypeOK
    \* A request leaves without a decrement.
    <2>b. ASSUME NEW r \in Requests, held' = held \ {r}, slots' = slots,
                 under' = under
          PROVE  SlotsCover'
      <3>1. Cardinality(held') <= Cardinality(held) /\ Cardinality(held') \in Nat
        BY <2>a, <2>b, FS_RemoveElement, FiniteParts DEF TypeOK
      <3> QED
        BY <2>a, <2>b, <3>1 DEF SlotsCover
    <2>1. ASSUME NEW r \in Requests,
                 \/ Begin(r) \/ ReadDay(r) \/ SumDay(r) \/ KeepDay(r)
                 \/ CheckSlots(r) \/ Expire(r) \/ ExpireLost(r) \/ Select(r)
                 \/ Count(r) \/ Uncount(r) \/ Settle(r) \/ Disconnect(r)
          PROVE  SlotsCover'
      <3>1. UNCHANGED <<held, slots, under>>
        BY <2>1 DEF Begin, ReadDay, SumDay, KeepDay, CheckSlots, Expire,
                    ExpireLost, Select, Count, Uncount, Settle, Disconnect, slotVars
      <3> QED
        BY <3>1 DEF SlotsCover
    <2>2. ASSUME NEW r \in Requests, Incr(r)
          PROVE  SlotsCover'
      <3>1. CASE r \in gone
        BY <2>2, <3>1 DEF Incr, slotVars, SlotsCover
      <3>2. CASE r \notin gone
        <4>1. held' = held \union {r} /\ slots' = slots + 1 /\ under' = under
          BY <2>2, <3>2 DEF Incr
        <4>2. r \notin held
          BY <2>2 DEF Incr, HeldInv, Counted
        <4>3. Cardinality(held') = Cardinality(held) + 1
          BY <4>1, <4>2, <2>a, FS_AddElement
        <4> QED
          BY <4>1, <4>3, <2>a DEF SlotsCover
      <3> QED
        BY <3>1, <3>2
    <2>3. ASSUME NEW r \in Requests, Decr(r)
          PROVE  SlotsCover'
      <3>1. CASE held' = held
        BY <2>3, <3>1 DEF Decr, SlotsCover
      <3>2. CASE held' = held \ {r}
        BY <2>3, <3>2, <2>b DEF Decr
      <3> QED
        BY <2>3, <3>1, <3>2 DEF Decr
    <2>4. ASSUME NEW r \in Requests, Drop(r)
          PROVE  SlotsCover'
      <3>1. CASE r \in gone
        BY <2>4, <3>1, <2>b DEF Drop
      <3>2. CASE r \notin gone
        <4>1. held' = held \ {r} /\ slots' = slots - 1 /\ under' = under
          BY <2>4, <3>2 DEF Drop
        <4>2. r \in held
          BY <2>4, <3>2 DEF Drop, HeldInv, Counted
        <4>3. Cardinality(held') = Cardinality(held) - 1
          BY <4>1, <4>2, <2>a, FS_RemoveElement
        <4> QED
          BY <4>1, <4>3, <2>a DEF SlotsCover
      <3> QED
        BY <3>1, <3>2
    <2>5. ASSUME NEW r \in Requests, Crash(r)
          PROVE  SlotsCover'
      BY <2>5, <2>b DEF Crash
    <2>6. CASE ResetInflight \/ UNCHANGED vars
      BY <2>6 DEF ResetInflight, vars, slotVars, SlotsCover
    <2>7. CASE Tick
      <3>1. CASE slotsTTL = 1
        <4>1. (~under' => held' = {}) /\ slots' = 0
          BY <2>7, <3>1 DEF Tick
        <4> QED
          BY <4>1, FS_EmptySet DEF SlotsCover
      <3>2. CASE slotsTTL # 1
        BY <2>7, <3>2 DEF Tick, SlotsCover
      <3> QED
        BY <3>1, <3>2
    <2> QED
      BY <2>1, <2>2, <2>3, <2>4, <2>5, <2>6, <2>7 DEF Next, Proceed
  <1> QED
    BY <1>1, <1>2, HeldStep, TypeCorrect, PTL DEF Spec

-----------------------------------------------------------------------------
\* The requests in flight on a channel change with calls alone.
LEMMA SameInFlight ==
    ASSUME TypeOK, NEW r \in Requests, NEW p \in Places, Goto(r, p),
           at[r] # "call", p # "call",
           \A q \in Requests \ {r} : chosen'[q] = chosen[q]
    PROVE  \A c \in Channels : InFlight(c)' = InFlight(c)
  BY DEF TypeOK, Goto, InFlight

LEMMA NowhereInFlight ==
    ASSUME TypeOK, UNCHANGED <<at, chosen>>
    PROVE  \A c \in Channels : InFlight(c)' = InFlight(c)
  BY DEF InFlight

LEMMA InFlightType ==
    ASSUME NEW c \in Channels
    PROVE  IsFiniteSet(InFlight(c)) /\ Cardinality(InFlight(c)) \in Nat
  BY FiniteParts DEF InFlight

\* A step that leaves the counters, their histories and the calls alone.
LEMMA SameLoad ==
    ASSUME LoadCeiling, LoadFloor, UNCHANGED <<load, leaked, wiped>>,
           \A c \in Channels : InFlight(c)' = InFlight(c)
    PROVE  LoadCeiling' /\ LoadFloor'
  BY DEF LoadCeiling, LoadFloor

\* The counter of a channel lies between the requests in flight less those that
\* an erasure forgot, and those plus the ones that left without uncounting.
THEOREM LoadBounded == Spec => []LoadTracksCalls
  <1>1. ASSUME Init PROVE LoadCeiling /\ LoadFloor
    <2>1. \A c \in Channels : InFlight(c) = {} /\ load[c] = 0
      BY <1>1 DEF Init, InFlight
    <2> QED
      BY <2>1, FS_EmptySet DEF LoadCeiling, LoadFloor
  <1>2. TypeOK /\ LoadCeiling /\ LoadFloor /\ [Next]_vars
            => LoadCeiling' /\ LoadFloor'
    <2> SUFFICES ASSUME TypeOK, LoadCeiling, LoadFloor, [Next]_vars
                 PROVE  LoadCeiling' /\ LoadFloor'
      OBVIOUS
    <2>1. ASSUME NEW r \in Requests,
                 \/ Begin(r) \/ ReadDay(r) \/ SumDay(r) \/ KeepDay(r)
                 \/ CheckSlots(r) \/ Incr(r) \/ Expire(r) \/ ExpireLost(r)
                 \/ Settle(r) \/ Decr(r) \/ Drop(r)
          PROVE  LoadCeiling' /\ LoadFloor'
      <3>1. /\ UNCHANGED <<chosen, load, leaked, wiped>>
            /\ at[r] # "call"
            /\ \E p \in Places \ {"call"} : Goto(r, p)
        BY <2>1 DEF Begin, ReadDay, SumDay, KeepDay, CheckSlots, Incr, Expire,
                    ExpireLost, Settle, Decr, Drop, WithinLimit, Refuse,
                    loadVars, Places
      <3> QED
        BY <3>1, SameInFlight, SameLoad
    <2>2. ASSUME NEW r \in Requests, Select(r)
          PROVE  LoadCeiling' /\ LoadFloor'
      <3>1. /\ UNCHANGED <<load, leaked, wiped>>
            /\ at[r] # "call"
            /\ \E p \in Places \ {"call"} : Goto(r, p)
            /\ \A q \in Requests \ {r} : chosen'[q] = chosen[q]
        BY <2>2 DEF Select, Places, TypeOK
      <3> QED
        BY <3>1, SameInFlight, SameLoad
    <2>3. ASSUME NEW r \in Requests, Count(r)
          PROVE  LoadCeiling' /\ LoadFloor'
      <3> DEFINE k == chosen[r]
      <3>0. k \in Channels /\ at[r] = "count"
        BY <2>3 DEF Count, TypeOK
      <3>1. /\ load'[k] = load[k] + 1 /\ load[k] \in Int
            /\ \A c \in Channels \ {k} : load'[c] = load[c]
            /\ wiped' = wiped
        BY <2>3, <3>0 DEF Count, TypeOK
      <3>2. CASE Goto(r, "call") /\ UNCHANGED <<chosen, leaked>>
        <4>1. /\ InFlight(k)' = InFlight(k) \union {r} /\ r \notin InFlight(k)
              /\ \A c \in Channels \ {k} : InFlight(c)' = InFlight(c)
          BY <3>0, <3>2 DEF InFlight, Goto, TypeOK
        <4>2. Cardinality(InFlight(k)') = Cardinality(InFlight(k)) + 1
          BY <3>0, <4>1, InFlightType, FS_AddElement
        <4>3. Cardinality(InFlight(k)) \in Nat
          BY <3>0, InFlightType
        <4>4. ASSUME NEW c \in Channels
              PROVE  /\ c \notin leaked' => load'[c] <= Cardinality(InFlight(c)')
                     /\ c \notin wiped' => load'[c] >= Cardinality(InFlight(c)')
          <5>1. CASE c = k
            BY <3>1, <3>2, <4>2, <4>3, <5>1 DEF LoadCeiling, LoadFloor
          <5>2. CASE c # k
            BY <3>1, <3>2, <4>1, <5>2 DEF LoadCeiling, LoadFloor
          <5> QED
            BY <5>1, <5>2
        <4> QED
          BY <4>4 DEF LoadCeiling, LoadFloor
      <3>3. CASE /\ Goto(r, "decr") /\ leaked' = leaked \union {k}
                 /\ chosen' = [chosen EXCEPT ![r] = None]
        <4>1. \A c \in Channels : InFlight(c)' = InFlight(c)
          BY <3>0, <3>3 DEF InFlight, Goto, TypeOK
        <4>2. Cardinality(InFlight(k)) \in Nat
          BY <3>0, InFlightType
        <4>3. ASSUME NEW c \in Channels
              PROVE  /\ c \notin leaked' => load'[c] <= Cardinality(InFlight(c)')
                     /\ c \notin wiped' => load'[c] >= Cardinality(InFlight(c)')
          <5>1. CASE c = k
            BY <3>1, <3>3, <4>1, <4>2, <5>1 DEF LoadFloor
          <5>2. CASE c # k
            BY <3>1, <3>3, <4>1, <5>2 DEF LoadCeiling, LoadFloor
          <5> QED
            BY <5>1, <5>2
        <4> QED
          BY <4>3 DEF LoadCeiling, LoadFloor
      <3> QED
        BY <2>3, <3>2, <3>3 DEF Count
    <2>4. ASSUME NEW r \in Requests, Uncount(r)
          PROVE  LoadCeiling' /\ LoadFloor'
      <3>0. PICK k \in Channels : k = chosen[r] /\ at[r] = "call"
        BY <2>4 DEF Uncount, TypeOK
      <3>1. /\ load'[k] = load[k] - 1 /\ load[k] \in Int
            /\ \A c \in Channels \ {k} : load'[c] = load[c]
            /\ UNCHANGED <<leaked, wiped>>
        BY <2>4, <3>0 DEF Uncount, TypeOK
      <3>2. /\ InFlight(k)' = InFlight(k) \ {r} /\ r \in InFlight(k)
            /\ \A c \in Channels \ {k} : InFlight(c)' = InFlight(c)
        <4>1. /\ at'[r] # "call"
              /\ \A q \in Requests \ {r} : at'[q] = at[q] /\ chosen'[q] = chosen[q]
          BY <2>4 DEF Uncount, Goto, TypeOK
        <4>2. r \in InFlight(k) /\ \A c \in Channels \ {k} : r \notin InFlight(c)
          BY <3>0 DEF InFlight
        <4>3. \A c \in Channels : InFlight(c)' = InFlight(c) \ {r}
          BY <4>1 DEF InFlight
        <4> QED
          BY <4>2, <4>3
      <3>3. Cardinality(InFlight(k)') = Cardinality(InFlight(k)) - 1
        <4>1. IsFiniteSet(InFlight(k))
          BY <3>0, InFlightType
        <4>2. Cardinality(InFlight(k) \ {r}) = Cardinality(InFlight(k)) - 1
          BY <3>2, <4>1, FS_RemoveElement
        <4> QED
          BY <3>2, <4>2
      <3>4. Cardinality(InFlight(k)) \in Nat
        BY <3>0, InFlightType
      <3>5. ASSUME NEW c \in Channels
            PROVE  /\ c \notin leaked' => load'[c] <= Cardinality(InFlight(c)')
                   /\ c \notin wiped' => load'[c] >= Cardinality(InFlight(c)')
        <4>1. CASE c = k
          <5>1. /\ k \notin leaked => load[k] <= Cardinality(InFlight(k))
                /\ k \notin wiped => load[k] >= Cardinality(InFlight(k))
            BY <3>0 DEF LoadCeiling, LoadFloor
          <5> QED
            BY <3>1, <3>3, <3>4, <4>1, <5>1
        <4>2. CASE c # k
          BY <3>1, <3>2, <4>2 DEF LoadCeiling, LoadFloor
        <4> QED
          BY <4>1, <4>2
      <3> QED
        BY <3>5 DEF LoadCeiling, LoadFloor
    <2>5. ASSUME NEW r \in Requests, Crash(r)
          PROVE  LoadCeiling' /\ LoadFloor'
      <3>1. UNCHANGED <<load, wiped>> /\ leaked \subseteq leaked'
        BY <2>5 DEF Crash
      <3>2. ASSUME NEW c \in Channels
            PROVE  /\ c \notin leaked' => InFlight(c)' = InFlight(c)
                   /\ InFlight(c)' \subseteq InFlight(c)
        BY <2>5, <3>2 DEF Crash, Refuse, Goto, InFlight, TypeOK
      <3>3. ASSUME NEW c \in Channels
            PROVE  /\ Cardinality(InFlight(c)') <= Cardinality(InFlight(c))
                   /\ Cardinality(InFlight(c)') \in Nat
                   /\ Cardinality(InFlight(c)) \in Nat
                   /\ load[c] \in Int
        <4>1. IsFiniteSet(InFlight(c)) /\ InFlight(c)' \subseteq InFlight(c)
          BY <3>2, <3>3, InFlightType
        <4> QED
          BY <4>1, <3>3, FS_Subset, FS_CardinalityType DEF TypeOK
      <3> QED
        BY <3>1, <3>2, <3>3 DEF LoadCeiling, LoadFloor
    <2>6. CASE ResetInflight
      <3>1. /\ \A c \in Channels : InFlight(c)' = InFlight(c) /\ load'[c] = 0
            /\ wiped' = {c \in Channels : InFlight(c) # {}}
        BY <2>6, NowhereInFlight DEF ResetInflight, TypeOK
      <3> QED
        BY <3>1, InFlightType, FS_EmptySet DEF LoadCeiling, LoadFloor
    <2>7. CASE Tick \/ UNCHANGED vars \/ \E r \in Requests : Disconnect(r)
      <3>1. UNCHANGED <<at, chosen, load, leaked, wiped>>
        BY <2>7 DEF Tick, vars, Disconnect, loadVars
      <3> QED
        BY <3>1, NowhereInFlight, SameLoad
    <2> QED
      BY <2>1, <2>2, <2>3, <2>4, <2>5, <2>6, <2>7 DEF Next, Proceed
  <1>3. LoadCeiling /\ LoadFloor => LoadTracksCalls
    BY DEF LoadTracksCalls
  <1> QED
    BY <1>1, <1>2, <1>3, TypeCorrect, PTL DEF Spec

-----------------------------------------------------------------------------
(* What LimitBites and LockoutHeals rest on.  That they come about in the   *)
(* end is fairness; that nothing takes them back is proved here.            *)

\* The day's consumption is at the limit, and no older figure is cached or
\* about to be.
LimitSeen ==
    /\ spent = DailyLimit
    /\ day \in {None, DailyLimit}
    /\ \A r \in Requests : at[r] = "keep" => loaded[r] = DailyLimit

\* The daily limit lets a request pass.
Admit(r) == at[r] \in {"day", "keep"} /\ at'[r] = "slots"

\* From then on it stays so, and no request passes the daily limit.
LimitStays ==
    [][LimitSeen => LimitSeen' /\ \A r \in Requests : ~Admit(r)]_vars

\* What a step does to the consumption and its cached figure.
LEMMA LimitStep ==
    ASSUME TypeOK, LimitSeen, [Next]_vars
    PROVE  LimitSeen' /\ \A r \in Requests : ~Admit(r)
  <1> USE DEF TypeOK, LimitSeen, Admit, Goto, Refuse, slotVars, dayVars,
              loadVars
  <1>1. DailyLimit \in Nat \ {0} /\ Estimate \in Nat \ {0} /\ Cost \subseteq Nat
        /\ DailyLimit + Estimate > DailyLimit
    BY GatewayAssumption
  <1>2. ASSUME NEW r \in Requests, Begin(r) \/ CheckSlots(r) \/ Incr(r)
                 \/ Expire(r) \/ ExpireLost(r) \/ Select(r)
        PROVE  LimitSeen' /\ \A q \in Requests : ~Admit(q)
    BY <1>2 DEF Begin, CheckSlots, Incr, Expire, ExpireLost, Select
  <1>3. ASSUME NEW r \in Requests, Count(r) \/ Uncount(r) \/ Decr(r)
                 \/ Drop(r) \/ Disconnect(r) \/ Crash(r)
        PROVE  LimitSeen' /\ \A q \in Requests : ~Admit(q)
    BY <1>3 DEF Count, Uncount, Decr, Drop, Disconnect, Crash
  <1>4. ASSUME NEW r \in Requests, ReadDay(r)
        PROVE  LimitSeen' /\ \A q \in Requests : ~Admit(q)
    BY <1>1, <1>4 DEF ReadDay, WithinLimit
  <1>5. ASSUME NEW r \in Requests, SumDay(r)
        PROVE  LimitSeen' /\ \A q \in Requests : ~Admit(q)
    BY <1>5 DEF SumDay
  <1>6. ASSUME NEW r \in Requests, KeepDay(r)
        PROVE  LimitSeen' /\ \A q \in Requests : ~Admit(q)
    BY <1>1, <1>6 DEF KeepDay, WithinLimit
  <1>7. ASSUME NEW r \in Requests, Settle(r)
        PROVE  LimitSeen' /\ \A q \in Requests : ~Admit(q)
    <2>1. \A n \in Cost : AtMost(DailyLimit + n, DailyLimit) = DailyLimit
      BY <1>1 DEF AtMost
    <2>2. spent' = DailyLimit
      BY <1>7, <2>1 DEF Settle
    <2> QED
      BY <1>7, <2>2 DEF Settle
  <1>8. CASE ResetInflight \/ UNCHANGED vars
    BY <1>8 DEF ResetInflight, vars
  <1>9. CASE Tick
    BY <1>9 DEF Tick, AgeDay
  <1> QED
    BY <1>2, <1>3, <1>4, <1>5, <1>6, <1>7, <1>8, <1>9 DEF Next, Proceed

\* A daily limit that is reached and seen is never passed again
\* (GetDailyConsumption, balance_service.go:782, and its caller at 921), for
\* any number of requests, limits and estimates.
THEOREM LimitIsFinal == Spec => LimitStays
  <1>1. TypeOK /\ [Next]_vars =>
          [LimitSeen => LimitSeen' /\ \A r \in Requests : ~Admit(r)]_vars
    BY LimitStep
  <1> QED
    BY <1>1, TypeCorrect, PTL DEF Spec, LimitStays

\* A counter of running requests that locks somebody out has a key that will
\* expire, or the EXPIRE of an increment is to come, unless it was lost.
SlotsExpire ==
    /\ slotsTTL = 0 => slots = 0
    /\ slots > 0 /\ slotsTTL = Forever
       => stranded \/ \E r \in held : at[r] = "expire"

\* Only an increment whose EXPIRE is lost makes a counter that never ends,
\* whatever requests race for the user's slots (IncrConcurrency and
\* DecrConcurrency, balance_service.go:960-979).
THEOREM SlotsEnd == Spec => []SlotsExpire
  <1> USE DEF Goto, Refuse, slotVars, dayVars, loadVars
  <1>1. Init => SlotsExpire
    BY DEF Init, SlotsExpire
  <1>2. TypeOK /\ SlotsExpire /\ [Next]_vars => SlotsExpire'
    <2> SUFFICES ASSUME TypeOK, SlotsExpire, [Next]_vars
                 PROVE  SlotsExpire'
      OBVIOUS
    <2>1. ASSUME NEW r \in Requests, at[r] # "expire",
                 UNCHANGED slotVars,
                 \A q \in Requests \ {r} : at'[q] = at[q]
          PROVE  SlotsExpire'
      BY <2>1 DEF SlotsExpire, TypeOK
    <2>2. ASSUME NEW r \in Requests,
                 \/ Begin(r) \/ ReadDay(r) \/ SumDay(r) \/ KeepDay(r)
                 \/ CheckSlots(r) \/ Select(r) \/ Count(r) \/ Uncount(r)
                 \/ Settle(r)
          PROVE  SlotsExpire'
      <3>1. /\ at[r] # "expire" /\ UNCHANGED slotVars
            /\ \A q \in Requests \ {r} : at'[q] = at[q]
        BY <2>2 DEF Begin, ReadDay, SumDay, KeepDay, WithinLimit, CheckSlots,
                    Select, Count, Uncount, Settle, TypeOK
      <3> QED
        BY <2>1, <3>1
    <2>3. ASSUME NEW r \in Requests, Incr(r)
          PROVE  SlotsExpire'
      <3>1. CASE r \in gone
        BY <2>1, <2>3, <3>1 DEF Incr, TypeOK
      <3>2. CASE r \notin gone
        <4>1. at'[r] = "expire" /\ r \in held' /\ slotsTTL' # 0
          BY <2>3, <3>2 DEF Incr, TypeOK, Forever
        <4> QED
          BY <4>1 DEF SlotsExpire
      <3> QED
        BY <3>1, <3>2
    <2>4. ASSUME NEW r \in Requests, Expire(r)
          PROVE  SlotsExpire'
      <3>1. /\ slotsTTL' \in 0 .. SlotTTL /\ slots' = slots
            /\ slotsTTL' = 0 => slotsTTL = 0
        BY <2>4, GatewayAssumption DEF Expire
      <3>2. slotsTTL' # Forever
        BY <3>1, GatewayAssumption DEF Forever
      <3> QED
        BY <3>1, <3>2 DEF SlotsExpire
    <2>5. ASSUME NEW r \in Requests, ExpireLost(r)
          PROVE  SlotsExpire'
      BY <2>5 DEF ExpireLost, SlotsExpire, TypeOK
    <2>6. ASSUME NEW r \in Requests, Decr(r)
          PROVE  SlotsExpire'
      BY <2>6 DEF Decr, SlotsExpire, TypeOK
    <2>7. ASSUME NEW r \in Requests, Drop(r)
          PROVE  SlotsExpire'
      <3>1. CASE r \in gone
        BY <2>7, <3>1 DEF Drop, SlotsExpire, TypeOK
      <3>2. CASE r \notin gone
        <4>1. /\ slots' = slots - 1 /\ slots \in Int /\ slotsTTL' # 0
              /\ slotsTTL' = IF slotsTTL = 0 THEN Forever ELSE slotsTTL
              /\ stranded' = stranded
          BY <2>7, <3>2 DEF Drop, TypeOK, Forever
        <4>2. \A q \in held : at[q] = "expire" =>
                 q \in held' /\ at'[q] = "expire"
          BY <2>7 DEF Drop, TypeOK
        <4> QED
          BY <4>1, <4>2 DEF SlotsExpire
      <3> QED
        BY <3>1, <3>2
    <2>8. ASSUME NEW r \in Requests, Crash(r)
          PROVE  SlotsExpire'
      BY <2>8 DEF Crash, SlotsExpire, TypeOK
    <2>9. CASE Tick
      BY <2>9, GatewayAssumption DEF Tick, SlotsExpire, TypeOK, Forever
    <2>10. CASE ResetInflight \/ UNCHANGED vars
                \/ \E r \in Requests : Disconnect(r)
      BY <2>10 DEF ResetInflight, vars, Disconnect, SlotsExpire
    <2> QED
      BY <2>2, <2>3, <2>4, <2>5, <2>6, <2>7, <2>8, <2>9, <2>10
      DEF Next, Proceed
  <1> QED
    BY <1>1, <1>2, TypeCorrect, PTL DEF Spec

=============================================================================
