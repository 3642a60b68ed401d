--------------------------- MODULE PaymentProofs ----------------------------
(* Proofs about Payment, and about Refund, which composes it with refunds, *)
(* for any orders, prices, requests and number of overlapping deliveries   *)
(* and reviews.                                                            *)
EXTENDS Refund, SumTheorems

-----------------------------------------------------------------------------
(* The orders alone.                                                       *)

\* Nothing is credited for an order unless it is paid, and a goroutine that is
\* about to complete an order or to credit it works on a paid one.
DeliveryOfPaid(d) ==
    /\ delivery[d].at = "update" =>
        (delivery[d].outcome = "completed" => delivery[d].pay \in paid)
    /\ delivery[d].at \in {"credit", "save"} => delivery[d].pay \in paid

PayInv ==
    /\ PayTypeOK
    /\ \A d \in Deliveries : DeliveryOfPaid(d)
    /\ OnlyPaidCredited

\* What a delivery's record holds, from the place where it stands.
LEMMA DeliveryShape ==
    ASSUME NEW e \in Delivery
    PROVE  /\ e.at = "update" => /\ e.pay \in Payments
                                 /\ e.outcome \in {"completed", "failed"}
           /\ e.at = "credit" => e.pay \in Payments
           /\ e.at = "save" => e.pay \in Payments /\ e.read \in Int
           /\ e = NoDelivery => e.at = "idle"
BY DEF Delivery, NoDelivery

\* The price of an order in credits is an integer.
LEMMA PriceInt ==
    ASSUME NEW p \in Payments
    PROVE  RMBToCredits(Price[p]) \in Int
BY PaymentAssumption DEF RMBToCredits

\* The invariant holds in the initial state.
LEMMA PayInvInit == PayInit => PayInv
BY DEF PayInit, PayInv, PayTypeOK, PayStatus, Delivery, NoDelivery,
       DeliveryOfPaid, OnlyPaidCredited

\* Every step of a delivery, of a user or of a gateway keeps the invariant.
LEMMA PayInvStep == PayInv /\ [PayNext]_payVars => PayInv'
<1> SUFFICES ASSUME PayInv, [PayNext]_payVars PROVE PayInv'
    OBVIOUS
<1> USE DEF PayInv, PayTypeOK, OnlyPaidCredited, DeliveryOfPaid
<1>1. ASSUME NEW p \in Payments, UserPays(p) PROVE PayInv'
      BY <1>1 DEF UserPays
<1>2. ASSUME NEW d \in Deliveries, NEW p \in Payments,
             NEW outcome \in {"completed", "failed"}, Receive(d, p, outcome)
      PROVE  PayInv'
      BY <1>2 DEF Receive, Delivery
<1>3. ASSUME NEW d \in Deliveries, UpdateStatus(d) PROVE PayInv'
  <2>1. /\ delivery[d].pay \in Payments
        /\ delivery[d].outcome \in {"completed", "failed"}
        BY <1>3, DeliveryShape DEF UpdateStatus
  <2>2. payStatus' \in [Payments -> PayStatus]
        BY <1>3, <2>1 DEF UpdateStatus, PayStatus
  <2> QED BY <1>3, <2>1, <2>2 DEF UpdateStatus, Delivery, NoDelivery
<1>4. ASSUME NEW d \in Deliveries, CreditRead(d) PROVE PayInv'
  <2>1. delivery[d].pay \in Payments
        BY <1>4, DeliveryShape DEF CreditRead
  <2> QED BY <1>4, <2>1 DEF CreditRead, Delivery
<1>5. ASSUME NEW d \in Deliveries, CreditSave(d) PROVE PayInv'
  <2>1. delivery[d].pay \in Payments /\ delivery[d].read \in Int
        BY <1>5, DeliveryShape DEF CreditSave
  <2>2. balance' \in Int
        BY <1>5, <2>1, PriceInt DEF CreditSave
  <2>3. recharges' \in [Payments -> Nat]
        BY <1>5, <2>1 DEF CreditSave
  <2> QED BY <1>5, <2>1, <2>2, <2>3 DEF CreditSave, Delivery, NoDelivery
<1>6. ASSUME NEW d \in Deliveries, CreditFails(d) \/ DeliveryDies(d)
      PROVE  PayInv'
      BY <1>6 DEF CreditFails, DeliveryDies, Delivery, NoDelivery
<1>7. CASE UNCHANGED payVars
      BY <1>7 DEF payVars
<1> QED BY <1>1, <1>2, <1>3, <1>4, <1>5, <1>6, <1>7 DEF PayNext, Handle

\* The types hold in every behaviour, and no goroutine is about to credit an
\* order that was not paid.
THEOREM PayTypeCorrect == PaySpec => []PayTypeOK
<1>1. PayInv => PayTypeOK
      BY DEF PayInv
<1> QED BY <1>1, PayInvInit, PayInvStep, PTL DEF PaySpec

\* Whatever the gateways deliver, repeat or delay, only paid orders are
\* credited.
THEOREM CreditedWasPaid == PaySpec => []OnlyPaidCredited
<1>1. PayInv => OnlyPaidCredited
      BY DEF PayInv
<1> QED BY <1>1, PayInvInit, PayInvStep, PTL DEF PaySpec

-----------------------------------------------------------------------------
(* The orders with their refunds.                                          *)

\* What a review's record holds, from the place where it stands.
LEMMA ReviewShape ==
    ASSUME NEW e \in Review
    PROVE  /\ e.at \in {"approve", "reject", "process", "load", "fail"}
                => /\ e.req \in Refunds
                   /\ e = [at |-> e.at, req |-> e.req]
           /\ e.at \in {"gateway", "tx"}
                => /\ e.req \in Refunds /\ e.read \in Nat
                   /\ e = [at |-> e.at, req |-> e.req, read |-> e.read]
           /\ e.at = "directGateway" => e.pay \in Payments /\ e.amt \in Nat
           /\ e.at = "direct" => e.pay \in Payments
           /\ e = NoReview => e.at = "idle"
BY DEF Review, NoReview

\* A review that moves on keeps its request and what it has read.
LEMMA MovesOn ==
    ASSUME NEW e, NEW r, NEW n, NEW a, NEW b
    PROVE  /\ e = [at |-> a, req |-> r]
                => [e EXCEPT !.at = b] = [at |-> b, req |-> r]
           /\ e = [at |-> a, req |-> r, read |-> n]
                => [e EXCEPT !.at = b] = [at |-> b, req |-> r, read |-> n]
OBVIOUS

\* Where a review works on a request.
Reviewing == {"approve", "reject", "process", "load", "gateway", "tx", "fail"}

\* A request under review has been created, so that no review can write to one
\* that is only being submitted.
ReviewsARequest ==
    \A v \in Reviews :
        review[v].at \in Reviewing =>
            /\ review[v].req \in Refunds
            /\ refundStatus[review[v].req] # "none"

OrderInv == TypeOK /\ PayInv /\ ReviewsARequest

LEMMA OrderInvInit == Init => OrderInv
<1> SUFFICES ASSUME Init PROVE OrderInv
    OBVIOUS
<1>1. PayInv
    BY PayInvInit DEF Init
<1>2. TypeOK
    BY <1>1 DEF Init, TypeOK, PayInv, RefundStatus, Review, NoReview
<1>3. ReviewsARequest
    BY DEF Init, ReviewsARequest, Reviewing, NoReview
<1> QED
    BY <1>1, <1>2, <1>3 DEF OrderInv

\* A step that changes at most the status of orders and the balance keeps the
\* orders' invariant.
LEMMA RefundsKeepPayInv ==
    ASSUME PayInv, UNCHANGED <<paid, recharges, delivery>>,
           payStatus' \in [Payments -> PayStatus], balance' \in Int
    PROVE  PayInv'
BY DEF PayInv, PayTypeOK, DeliveryOfPaid, OnlyPaidCredited

LEMMA UnchangedKeepsPayInv ==
    ASSUME PayInv, UNCHANGED payVars
    PROVE  PayInv'
BY DEF payVars, PayInv, PayTypeOK, DeliveryOfPaid, OnlyPaidCredited

\* Every step of a submission, a review or a refund keeps the types.
LEMMA OrderInvStep == OrderInv /\ [Next]_vars => OrderInv'
<1> SUFFICES ASSUME OrderInv, [Next]_vars PROVE OrderInv'
    OBVIOUS
<1> USE RefundAssumption, PaymentAssumption DEF OrderInv
<1> DEFINE RestOK == /\ refundStatus \in [Refunds -> RefundStatus]
                     /\ submitting \subseteq Refunds
                     /\ refundedAmount \in [Payments -> Nat]
                     /\ returned \in [Payments -> Nat]
                     /\ debits \in [Refunds -> Nat]
                     /\ review \in [Reviews -> Review]
                     /\ \A r \in submitting : refundStatus[r] = "none"
                     /\ ReviewsARequest
<1>0. RestOK /\ PayInv
    BY DEF TypeOK
<1>q. PayInv' /\ RestOK' => OrderInv'
    BY DEF TypeOK, PayInv
<1>1. CASE PayNext /\ UNCHANGED refundVars
  <2>1. PayInv'
      BY <1>1, PayInvStep
  <2> QED
      BY <1>0, <1>1, <1>q, <2>1 DEF refundVars, ReviewsARequest
<1>2. CASE UNCHANGED vars
  <2>1. PayInv'
      BY <1>0, <1>2, UnchangedKeepsPayInv DEF vars
  <2> QED
      BY <1>0, <1>2, <1>q, <2>1 DEF vars, refundVars, ReviewsARequest
<1>3. ASSUME NEW r \in Refunds, CheckSubmit(r) \/ CreateRequest(r)
      PROVE  OrderInv'
  <2>1. PayInv'
      BY <1>0, <1>3, UnchangedKeepsPayInv DEF CheckSubmit, CreateRequest
  <2>2. RestOK'
      BY <1>0, <1>3 DEF CheckSubmit, CreateRequest, RefundStatus,
         ReviewsARequest
  <2> QED
      BY <1>q, <2>1, <2>2
<1>4. ASSUME NEW v \in Reviews, NEW r \in Refunds, ReadRequest(v, r)
      PROVE  OrderInv'
  <2>1. PayInv'
      BY <1>0, <1>4, UnchangedKeepsPayInv DEF ReadRequest
  <2>2. \A verdict \in {"approve", "reject"} : [at |-> verdict, req |-> r] \in Review
      BY DEF Review
  <2>3. RestOK'
      BY <1>0, <1>4, <2>2 DEF ReadRequest, Goto, ReviewsARequest,
         Reviewing, NoReview
  <2> QED
      BY <1>q, <2>1, <2>3
<1>5. ASSUME NEW v \in Reviews,
             \/ Approve(v) \/ Reject(v) \/ Process(v) \/ ProcessUnwritten(v)
             \/ MarkRefundFailed(v) \/ GatewayFails(v) \/ GatewayRefuses(v)
             \/ RefundTxFails(v) \/ ReviewDies(v) \/ LoadPayment(v)
      PROVE  OrderInv'
  <2>1. PayInv'
      BY <1>0, <1>5, UnchangedKeepsPayInv DEF Approve, Reject, Process,
         ProcessUnwritten, MarkRefundFailed, GatewayFails, GatewayRefuses,
         RefundTxFails, ReviewDies, LoadPayment
  <2>2. /\ UNCHANGED <<submitting, refundedAmount, returned, debits>>
        /\ review' = [review EXCEPT ![v] = review'[v]]
      BY <1>0, <1>5 DEF Approve, Reject, Process, ProcessUnwritten,
         MarkRefundFailed, GatewayFails, GatewayRefuses, RefundTxFails,
         ReviewDies, LoadPayment, Goto
  <2> DEFINE e == review[v]
  <2>3. /\ e \in Review
        /\ e.at \in {"approve", "reject", "process", "load", "fail"}
             => e.req \in Refunds /\ e = [at |-> e.at, req |-> e.req]
        /\ e.at \in {"gateway", "tx"}
             => /\ e.req \in Refunds /\ e.read \in Nat
                /\ e = [at |-> e.at, req |-> e.req, read |-> e.read]
      BY <1>0, ReviewShape
  <2>4. review'[v] \in Review
    <3>1. \A r \in Refunds, a \in {"approve", "reject", "process", "load", "fail"} :
             [at |-> a, req |-> r] \in Review
        BY DEF Review
    <3>2. \A r \in Refunds, n \in Nat, a \in {"gateway", "tx"} :
             [at |-> a, req |-> r, read |-> n] \in Review
        BY DEF Review
    <3>3. NoReview \in Review
        BY DEF Review
    <3>4. CASE Approve(v) \/ Process(v) \/ ProcessUnwritten(v)
      <4>1. /\ e.req \in Refunds
            /\ e = [at |-> e.at, req |-> e.req]
            /\ \/ review' = [review EXCEPT ![v] = [e EXCEPT !.at = "process"]]
               \/ review' = [review EXCEPT ![v] = [e EXCEPT !.at = "load"]]
          BY <2>3, <3>4 DEF Approve, Process, ProcessUnwritten, Goto
      <4>2. \A b : [e EXCEPT !.at = b] = [at |-> b, req |-> e.req]
          BY <4>1, MovesOn
      <4> HIDE DEF e
      <4> QED
          BY <1>0, <3>1, <4>1, <4>2
    <3>5. CASE Reject(v) \/ MarkRefundFailed(v) \/ ReviewDies(v)
        BY <1>0, <3>3, <3>5 DEF Reject, MarkRefundFailed, ReviewDies, Goto
    <3>6. CASE GatewayFails(v)
        BY <1>0, <2>3, <3>2, <3>6 DEF GatewayFails, Goto
    <3>7. CASE GatewayRefuses(v) \/ RefundTxFails(v)
        BY <1>0, <2>3, <3>1, <3>7 DEF GatewayRefuses, RefundTxFails, Goto
    <3>8. CASE LoadPayment(v)
      <4>1. e.req \in Refunds /\ refundedAmount[OrderOf[e.req]] \in Nat
          BY <1>0, <2>3, <3>8 DEF LoadPayment
      <4>2. \/ review'[v] = [at |-> "gateway", req |-> e.req,
                             read |-> refundedAmount[OrderOf[e.req]]]
            \/ review'[v] = [at |-> "fail", req |-> e.req]
          BY <1>0, <3>8 DEF LoadPayment, Goto
      <4> HIDE DEF e
      <4> QED
          BY <3>1, <3>2, <4>1, <4>2
    <3> QED
        BY <1>5, <3>4, <3>5, <3>6, <3>7, <3>8
  <2>5. \/ UNCHANGED refundStatus
        \/ /\ e.at \in Reviewing
           /\ \E s \in RefundStatus \ {"none"} :
                 refundStatus' = [refundStatus EXCEPT ![e.req] = s]
      BY <1>0, <1>5 DEF Approve, Reject, Process, ProcessUnwritten,
         MarkRefundFailed, GatewayFails, GatewayRefuses, RefundTxFails,
         ReviewDies, LoadPayment, Reviewing, RefundStatus
  <2>6. \/ review'[v] = NoReview
        \/ e.at \in Reviewing /\ review'[v].req = e.req
    <3>1. CASE Approve(v) \/ Process(v) \/ ProcessUnwritten(v) \/ GatewayFails(v)
        BY <1>0, <2>3, <3>1 DEF Approve, Process, ProcessUnwritten,
           GatewayFails, Goto, Reviewing
    <3>2. CASE Reject(v) \/ MarkRefundFailed(v) \/ ReviewDies(v)
        BY <1>0, <3>2 DEF Reject, MarkRefundFailed, ReviewDies, Goto
    <3>3. CASE GatewayRefuses(v) \/ RefundTxFails(v) \/ LoadPayment(v)
        BY <1>0, <3>3 DEF GatewayRefuses, RefundTxFails, LoadPayment, Goto,
           Reviewing
    <3> QED
        BY <1>5, <3>1, <3>2, <3>3
  <2>7. /\ refundStatus' \in [Refunds -> RefundStatus]
        /\ \A r \in submitting : refundStatus'[r] = "none"
        /\ \A r \in Refunds : refundStatus[r] # "none" => refundStatus'[r] # "none"
      BY <1>0, <2>5 DEF ReviewsARequest
  <2>8. ReviewsARequest'
      BY <1>0, <2>2, <2>6, <2>7 DEF ReviewsARequest, Reviewing, NoReview
  <2> QED
      BY <1>0, <1>q, <2>1, <2>2, <2>4, <2>7, <2>8
<1>6. ASSUME NEW v \in Reviews, GatewayAccepts(v)
      PROVE  OrderInv'
  <2>1. PayInv'
      BY <1>0, <1>6, UnchangedKeepsPayInv DEF GatewayAccepts
  <2> DEFINE e == review[v]
  <2>2. /\ e.req \in Refunds /\ e.read \in Nat /\ OrderOf[e.req] \in Payments
        /\ e = [at |-> "gateway", req |-> e.req, read |-> e.read]
        /\ AmountOf[e.req] \in Nat
      BY <1>0, <1>6, ReviewShape DEF GatewayAccepts
  <2>3. review' = [review EXCEPT
                     ![v] = [at |-> "tx", req |-> e.req, read |-> e.read]]
    <3>1. review' = [review EXCEPT ![v] = [e EXCEPT !.at = "tx"]]
        BY <1>6 DEF GatewayAccepts, Goto
    <3>2. [e EXCEPT !.at = "tx"] = [at |-> "tx", req |-> e.req, read |-> e.read]
        BY <2>2, MovesOn
    <3> QED
        BY <3>1, <3>2
  <2>4. [at |-> "tx", req |-> e.req, read |-> e.read] \in Review
      BY <2>2 DEF Review
  <2>5. returned' \in [Payments -> Nat]
      BY <1>0, <1>6, <2>2 DEF GatewayAccepts
  <2>6. ReviewsARequest'
      BY <1>0, <1>6, <2>2, <2>3 DEF GatewayAccepts, ReviewsARequest, Reviewing
  <2> QED
      BY <1>0, <1>6, <1>q, <2>1, <2>3, <2>4, <2>5, <2>6 DEF GatewayAccepts
<1>7. ASSUME NEW v \in Reviews, RefundTx(v)
      PROVE  OrderInv'
  <2> DEFINE r == review[v].req
             p == OrderOf[r]
  <2>1. /\ r \in Refunds /\ review[v].read \in Nat /\ p \in Payments
        /\ AmountOf[r] \in Nat /\ review[v].at = "tx"
      BY <1>0, <1>7, ReviewShape DEF RefundTx
  <2>2. /\ payStatus' \in [Payments -> PayStatus]
        /\ balance' \in Int
    <3>1. balance \in Int /\ payStatus \in [Payments -> PayStatus]
          /\ RMBToCredits(AmountOf[r]) \in Int
        BY <1>0, <2>1 DEF PayInv, PayTypeOK, RMBToCredits
    <3> QED
        BY <1>7, <2>1, <3>1 DEF RefundTx, PayStatus
  <2>3. PayInv'
      BY <1>0, <1>7, <2>2, RefundsKeepPayInv DEF RefundTx
  <2>4. /\ refundedAmount' \in [Payments -> Nat]
        /\ debits' \in [Refunds -> Nat]
        /\ UNCHANGED <<submitting, returned>>
      BY <1>0, <1>7, <2>1 DEF RefundTx
  <2>5. /\ refundStatus' = [refundStatus EXCEPT ![r] = "completed"]
        /\ review' = [review EXCEPT ![v] = NoReview]
        /\ refundStatus[r] # "none"
      BY <1>0, <1>7, <2>1 DEF RefundTx, Goto, ReviewsARequest, Reviewing
  <2>6. NoReview \in Review /\ "completed" \in RefundStatus
      BY DEF Review, RefundStatus
  <2>7. ReviewsARequest'
      BY <1>0, <2>1, <2>5 DEF ReviewsARequest, Reviewing, NoReview
  <2> HIDE DEF r
  <2>8. RestOK'
      BY <1>0, <2>1, <2>4, <2>5, <2>6, <2>7
  <2> QED
      BY <1>q, <2>3, <2>8
<1>8. ASSUME NEW v \in Reviews, NEW p \in Payments, NEW n \in 1 .. Price[p],
             DirectRead(v, p, n)
      PROVE  OrderInv'
  <2>1. PayInv'
      BY <1>0, <1>8, UnchangedKeepsPayInv DEF DirectRead
  <2>2. Price[p] \in Nat /\ n \in Nat
      OBVIOUS
  <2>3. [at |-> "directGateway", pay |-> p, amt |-> n] \in Review
      BY <2>2 DEF Review
  <2> QED
      BY <1>0, <1>8, <1>q, <2>1, <2>3
      DEF DirectRead, Goto, ReviewsARequest, Reviewing
<1>9. ASSUME NEW v \in Reviews, DirectGateway(v)
      PROVE  OrderInv'
  <2>1. PayInv'
      BY <1>0, <1>9, UnchangedKeepsPayInv DEF DirectGateway
  <2>2. review[v].pay \in Payments /\ review[v].amt \in Nat
      BY <1>0, <1>9, ReviewShape DEF DirectGateway
  <2>3. [at |-> "direct", pay |-> review[v].pay] \in Review /\ NoReview \in Review
      BY <2>2 DEF Review
  <2>4. /\ returned' \in [Payments -> Nat]
        /\ review' \in [Reviews -> Review]
      BY <1>0, <1>9, <2>2, <2>3 DEF DirectGateway, Goto
  <2>5. ReviewsARequest'
      BY <1>0, <1>9 DEF DirectGateway, Goto, ReviewsARequest, Reviewing, NoReview
  <2> QED
      BY <1>0, <1>9, <1>q, <2>1, <2>4, <2>5 DEF DirectGateway
<1>10. ASSUME NEW v \in Reviews, DirectUpdate(v)
       PROVE  OrderInv'
  <2>1. review[v].pay \in Payments
      BY <1>0, <1>10, ReviewShape DEF DirectUpdate
  <2>2. /\ payStatus' \in [Payments -> PayStatus]
        /\ balance' \in Int
    <3>1. balance \in Int /\ payStatus \in [Payments -> PayStatus]
        BY <1>0 DEF PayInv, PayTypeOK
    <3>2. "refunded" \in PayStatus /\ payStatus[review[v].pay] \in PayStatus
        BY <2>1, <3>1 DEF PayStatus
    <3> QED
        BY <1>10, <2>1, <3>1, <3>2 DEF DirectUpdate
  <2>3. PayInv'
      BY <1>0, <1>10, <2>2, RefundsKeepPayInv DEF DirectUpdate
  <2>4. NoReview \in Review
      BY DEF Review
  <2>5. ReviewsARequest'
      BY <1>0, <1>10 DEF DirectUpdate, Goto, ReviewsARequest, Reviewing, NoReview
  <2> QED
      BY <1>0, <1>10, <1>q, <2>3, <2>4, <2>5 DEF DirectUpdate, Goto
<1> QED
    BY <1>1, <1>2, <1>3, <1>4, <1>5, <1>6, <1>7, <1>8, <1>9, <1>10
    DEF Next, Execute

LEMMA OrderInvariance == Spec => []OrderInv
BY OrderInvInit, OrderInvStep, PTL DEF Spec

\* The types of orders, deliveries, requests and reviews hold in every
\* behaviour of the composition.
THEOREM RefundTypeCorrect == Spec => []TypeOK
<1>1. OrderInv => TypeOK
    BY DEF OrderInv
<1> QED BY <1>1, OrderInvariance, PTL

\* Refunds beside the deliveries, overlapping in any way, do not lead to the
\* credit of an order that was not paid.
THEOREM RefundedOrdersWerePaid == Spec => []OnlyPaidCredited
<1>1. OrderInv => OnlyPaidCredited
    BY DEF OrderInv, PayInv
<1> QED BY <1>1, OrderInvariance, PTL

-----------------------------------------------------------------------------
(* One delivery at a time.                                                 *)

Handling == {"update", "credit", "save"}

\* While nothing of an order is refunded, it is final from the moment its
\* delivery is about to credit it, and once it is credited no delivery holds it.
CreditedIsFinal(p) ==
    /\ \A d \in Deliveries :
        delivery[d].at \in {"credit", "save"} /\ delivery[d].pay = p
            => payStatus[p] \in Terminal
    /\ recharges[p] > 0 =>
        /\ recharges[p] = 1
        /\ payStatus[p] \in Terminal
        /\ \A d \in Deliveries :
            delivery[d].at \in Handling => delivery[d].pay # p

OnceInv ==
    (\A d, e \in Deliveries : d = e) =>
        \A p \in Payments : refundedAmount[p] = 0 => CreditedIsFinal(p)

\* A step of the only delivery keeps the order it holds final once it is about
\* to credit it.
LEMMA DeliveryKeepsOnce ==
    ASSUME OrderInv, OnceInv, PayNext, UNCHANGED refundVars
    PROVE  OnceInv'
<1> SUFFICES ASSUME \A d, e \in Deliveries : d = e,
                    NEW p \in Payments, refundedAmount[p] = 0
             PROVE  CreditedIsFinal(p)'
    BY DEF OnceInv, refundVars
<1>0. /\ CreditedIsFinal(p)
      /\ payStatus \in [Payments -> PayStatus]
      /\ recharges \in [Payments -> Nat]
      /\ delivery \in [Deliveries -> Delivery]
    BY DEF OnceInv, OrderInv, PayInv, PayTypeOK
<1>n. NoDelivery.at \notin Handling
    BY DEF NoDelivery, Handling
<1>1. ASSUME NEW q \in Payments, UserPays(q) PROVE CreditedIsFinal(p)'
    BY <1>0, <1>1 DEF UserPays, CreditedIsFinal
<1>2. ASSUME NEW d \in Deliveries, NEW q \in Payments,
             NEW outcome \in {"completed", "failed"}, Receive(d, q, outcome)
      PROVE  CreditedIsFinal(p)'
    BY <1>0, <1>2 DEF Receive, CreditedIsFinal, Handling
<1>3. ASSUME NEW d \in Deliveries, UpdateStatus(d)
      PROVE  CreditedIsFinal(p)'
  <2>1. /\ delivery[d].pay \in Payments
        /\ recharges[p] > 0 => delivery[d].pay # p
      BY <1>0, <1>3, DeliveryShape DEF UpdateStatus, CreditedIsFinal, Handling
  <2>2. CASE delivery[d].outcome = "completed"
      BY <1>0, <1>3, <2>1, <2>2
      DEF UpdateStatus, CreditedIsFinal, Handling, Terminal
  <2>3. CASE delivery[d].outcome # "completed"
    <3>1. delivery' = [delivery EXCEPT ![d] = NoDelivery]
        BY <1>3, <2>3 DEF UpdateStatus
    <3>2. \A e \in Deliveries : delivery'[e].at \notin Handling
        BY <1>0, <1>n, <3>1
    <3> QED
        BY <1>0, <1>3, <2>1, <3>2 DEF UpdateStatus, CreditedIsFinal, Handling
  <2> QED
      BY <2>2, <2>3
<1>4. ASSUME NEW d \in Deliveries, CreditRead(d) PROVE CreditedIsFinal(p)'
    BY <1>0, <1>4 DEF CreditRead, CreditedIsFinal, Handling
<1>5. ASSUME NEW d \in Deliveries, CreditSave(d) PROVE CreditedIsFinal(p)'
  <2>1. \A e \in Deliveries : delivery'[e].at \notin Handling
      BY <1>0, <1>5, <1>n DEF CreditSave
  <2>2. recharges'[p] > 0 => recharges'[p] = 1 /\ payStatus[p] \in Terminal
      BY <1>0, <1>5 DEF CreditSave, CreditedIsFinal, Handling
  <2> QED
      BY <1>5, <2>1, <2>2 DEF CreditSave, CreditedIsFinal, Handling
<1>6. ASSUME NEW d \in Deliveries, CreditFails(d) \/ DeliveryDies(d)
      PROVE  CreditedIsFinal(p)'
    BY <1>0, <1>6, <1>n
    DEF CreditFails, DeliveryDies, CreditedIsFinal, Handling
<1> QED
    BY <1>1, <1>2, <1>3, <1>4, <1>5, <1>6 DEF PayNext, Handle

\* So does a step of a submission, a review or a direct refund: a transaction
\* that leaves the order open to notifications also records a refunded amount.
LEMMA RefundKeepsOnce ==
    ASSUME OrderInv, OnceInv, Next, ~(PayNext /\ UNCHANGED refundVars)
    PROVE  OnceInv'
<1>0. /\ payStatus \in [Payments -> PayStatus]
      /\ refundedAmount \in [Payments -> Nat]
      /\ review \in [Reviews -> Review]
    BY DEF OrderInv, PayInv, PayTypeOK, TypeOK
\* A step that leaves every order as it is.
<1>a. UNCHANGED <<payVars, refundedAmount>> => OnceInv'
    BY DEF payVars, OnceInv, CreditedIsFinal
<1>1. ASSUME NEW r \in Refunds, CheckSubmit(r) \/ CreateRequest(r)
      PROVE  OnceInv'
    BY <1>1, <1>a DEF CheckSubmit, CreateRequest
<1>2. ASSUME NEW v \in Reviews, RefundTx(v) PROVE OnceInv'
  <2> DEFINE r == review[v].req
             q == OrderOf[r]
  <2>1. /\ q \in Payments /\ review[v].read \in Nat
        /\ AmountOf[r] \in Nat \ {0}
      BY <1>0, <1>2, ReviewShape, RefundAssumption DEF RefundTx
  <2>2. refundedAmount'[q] # 0
      BY <1>0, <1>2, <2>1 DEF RefundTx
  <2>3. \A p \in Payments : p # q =>
           /\ refundedAmount'[p] = refundedAmount[p]
           /\ payStatus'[p] = payStatus[p]
      BY <1>0, <1>2 DEF RefundTx
  <2>4. UNCHANGED <<recharges, delivery>>
      BY <1>2 DEF RefundTx
  <2> HIDE DEF q
  <2> QED
      BY <2>2, <2>3, <2>4 DEF OnceInv, CreditedIsFinal
<1>3. ASSUME NEW v \in Reviews, DirectUpdate(v) PROVE OnceInv'
  <2>1. \A p \in Payments : payStatus[p] \in Terminal => payStatus'[p] \in Terminal
      BY <1>0, <1>3 DEF DirectUpdate, Terminal
  <2>2. UNCHANGED <<recharges, delivery, refundedAmount>>
      BY <1>3 DEF DirectUpdate
  <2> QED
      BY <2>1, <2>2 DEF OnceInv, CreditedIsFinal
<1>4. ASSUME NEW v \in Reviews, NEW r \in Refunds, ReadRequest(v, r)
      PROVE  OnceInv'
    BY <1>4, <1>a DEF ReadRequest
<1>5. ASSUME NEW v \in Reviews, NEW p \in Payments, NEW n \in 1 .. Price[p],
             DirectRead(v, p, n)
      PROVE  OnceInv'
    BY <1>5, <1>a DEF DirectRead
<1>6. ASSUME NEW v \in Reviews,
             \/ Approve(v) \/ Reject(v) \/ Process(v) \/ ProcessUnwritten(v)
             \/ MarkRefundFailed(v) \/ LoadPayment(v) \/ ReviewDies(v)
             \/ GatewayAccepts(v) \/ GatewayFails(v) \/ GatewayRefuses(v)
             \/ RefundTxFails(v) \/ DirectGateway(v)
      PROVE  OnceInv'
    BY <1>6, <1>a DEF Approve, Reject, Process, ProcessUnwritten,
       MarkRefundFailed, LoadPayment, ReviewDies, GatewayAccepts, GatewayFails,
       GatewayRefuses, RefundTxFails, DirectGateway
<1> QED
    BY <1>1, <1>2, <1>3, <1>4, <1>5, <1>6 DEF Next, Execute

\* Of an order that notifications reach one at a time, in any order and with any
\* failures, a repeated one credits it again only after a part was refunded.
THEOREM OnlyRefundsReopen == Spec => []RecreditNeedsRefund
<1>1. Init => OnceInv
    BY DEF Init, PayInit, OnceInv, CreditedIsFinal, NoDelivery
<1>2. OrderInv /\ OnceInv /\ [Next]_vars => OnceInv'
  <2>1. UNCHANGED vars /\ OnceInv => OnceInv'
      BY DEF vars, payVars, refundVars, OnceInv, CreditedIsFinal
  <2> QED
      BY <2>1, DeliveryKeepsOnce, RefundKeepsOnce
<1>3. OrderInv /\ OnceInv => RecreditNeedsRefund
  <2>1. OrderInv => /\ refundedAmount \in [Payments -> Nat]
                    /\ recharges \in [Payments -> Nat]
      BY DEF OrderInv, TypeOK, PayInv, PayTypeOK
  <2> QED
      BY <2>1 DEF OnceInv, CreditedIsFinal, RecreditNeedsRefund
<1> QED
    BY <1>1, <1>2, <1>3, OrderInvariance, PTL DEF Spec

-----------------------------------------------------------------------------
(* One review at a time.                                                   *)

\* The status a review's request has by the time the review stands somewhere.
Expected(at) ==
    CASE at \in {"approve", "reject"} -> "pending"
      [] at = "process" -> "approved"
      [] at \in {"load", "gateway", "tx", "fail"} -> "processing"

InStep ==
    \A v \in Reviews :
        review[v].at \in Reviewing =>
            refundStatus[review[v].req] = Expected(review[v].at)

LEMMA ExpectedIs ==
    /\ Expected("approve") = "pending" /\ Expected("reject") = "pending"
    /\ Expected("process") = "approved"
    /\ Expected("load") = "processing" /\ Expected("gateway") = "processing"
    /\ Expected("tx") = "processing" /\ Expected("fail") = "processing"
BY DEF Expected

\* A step of a review leaves what it is about to do in step with the status, and
\* follows the workflow, if no other review runs and every statement succeeds.
LEMMA SerialStep ==
    ASSUME \A v, w \in Reviews : v = w, ~Crashes, OrderInv, InStep, Next
    PROVE  /\ InStep'
           /\ \A r \in Refunds :
                refundStatus'[r] # refundStatus[r]
                    => <<refundStatus[r], refundStatus'[r]>> \in Workflow
<1> DEFINE Flows == \A r \in Refunds :
                      refundStatus'[r] # refundStatus[r]
                        => <<refundStatus[r], refundStatus'[r]>> \in Workflow
<1>0. /\ refundStatus \in [Refunds -> RefundStatus]
      /\ review \in [Reviews -> Review]
      /\ submitting \subseteq Refunds
      /\ \A r \in submitting : refundStatus[r] = "none"
      /\ ReviewsARequest
    BY DEF OrderInv, TypeOK
\* A step that writes no status and leaves the reviews where they stand.
<1>a. UNCHANGED <<refundStatus, review>> => InStep' /\ Flows
    BY DEF InStep
\* A step of the one review there is: it writes the status s and goes to a.
<1>b. ASSUME NEW v \in Reviews, NEW s \in RefundStatus, NEW e,
             review[v].at \in Reviewing,
             refundStatus' = [refundStatus EXCEPT ![review[v].req] = s],
             review' = [review EXCEPT ![v] = e],
             <<Expected(review[v].at), s>> \in Workflow \/ s = Expected(review[v].at),
             e.at \in Reviewing => e.req = review[v].req /\ s = Expected(e.at)
      PROVE  InStep' /\ Flows
  <2>1. /\ review[v].req \in Refunds
        /\ refundStatus[review[v].req] = Expected(review[v].at)
      BY <1>0, <1>b DEF ReviewsARequest, InStep
  <2>2. Flows
      BY <1>0, <1>b, <2>1
  <2>3. InStep'
      BY <1>0, <1>b, <2>1 DEF InStep
  <2> QED
      BY <2>2, <2>3
<1>c. \A v \in Reviews : review[v].at \in Reviewing =>
        refundStatus = [refundStatus EXCEPT ![review[v].req] = Expected(review[v].at)]
    BY <1>0 DEF ReviewsARequest, InStep
<1>d. NoReview.at \notin Reviewing
    BY DEF NoReview, Reviewing
<1>1. CASE PayNext /\ UNCHANGED refundVars
    BY <1>1, <1>a DEF refundVars
<1>2. ASSUME NEW r \in Refunds, CheckSubmit(r) \/ CreateRequest(r)
      PROVE  InStep' /\ Flows
  <2>1. CASE CheckSubmit(r)
      BY <1>a, <2>1 DEF CheckSubmit
  <2>2. CASE CreateRequest(r)
    <3>1. /\ refundStatus[r] = "none" /\ UNCHANGED review
          /\ refundStatus' = [refundStatus EXCEPT ![r] = "pending"]
        BY <1>0, <2>2 DEF CreateRequest
    <3>2. Flows
        BY <1>0, <3>1 DEF Workflow
    <3>3. \A v \in Reviews : review[v].at \in Reviewing => review[v].req # r
        BY <1>0, <3>1 DEF ReviewsARequest
    <3>4. InStep'
        BY <1>0, <3>1, <3>3 DEF InStep
    <3> QED
        BY <3>2, <3>4
  <2> QED
      BY <1>2, <2>1, <2>2
<1>3. ASSUME NEW v \in Reviews, NEW r \in Refunds, ReadRequest(v, r)
      PROVE  InStep' /\ Flows
  <2>1. PICK verdict \in {"approve", "reject"} :
           review' = [review EXCEPT ![v] = [at |-> verdict, req |-> r]]
      BY <1>3 DEF ReadRequest, Goto
  <2>2. UNCHANGED refundStatus /\ refundStatus[r] = "pending"
      BY <1>3 DEF ReadRequest
  <2> QED
      BY <1>0, <2>1, <2>2, ExpectedIs DEF InStep
<1>4. ASSUME NEW v \in Reviews, Approve(v)
      PROVE  InStep' /\ Flows
  <2> DEFINE e == [at |-> "process", req |-> review[v].req]
  <2>1. [review[v] EXCEPT !.at = "process"] = e
      BY <1>0, <1>4, ReviewShape, MovesOn DEF Approve
  <2>2. /\ review[v].at = "approve"
        /\ review' = [review EXCEPT ![v] = e]
        /\ refundStatus' = [refundStatus EXCEPT ![review[v].req] = "approved"]
      BY <1>4, <2>1 DEF Approve, Goto
  <2>3. /\ <<Expected(review[v].at), "approved">> \in Workflow
        /\ e.req = review[v].req /\ Expected(e.at) = "approved"
        /\ review[v].at \in Reviewing /\ "approved" \in RefundStatus
      BY <2>2, ExpectedIs DEF Workflow, Reviewing, RefundStatus
  <2> HIDE DEF e
  <2> QED
      BY <1>b, <2>2, <2>3
<1>5. ASSUME NEW v \in Reviews, Reject(v)
      PROVE  InStep' /\ Flows
  <2>1. /\ review[v].at = "reject"
        /\ review' = [review EXCEPT ![v] = NoReview]
        /\ refundStatus' = [refundStatus EXCEPT ![review[v].req] = "rejected"]
      BY <1>5 DEF Reject, Goto
  <2>2. /\ <<Expected(review[v].at), "rejected">> \in Workflow
        /\ review[v].at \in Reviewing /\ "rejected" \in RefundStatus
      BY <2>1, ExpectedIs DEF Workflow, Reviewing, RefundStatus
  <2> QED
      BY <1>b, <1>d, <2>1, <2>2
<1>6. ASSUME NEW v \in Reviews, Process(v)
      PROVE  InStep' /\ Flows
  <2> DEFINE e == [at |-> "load", req |-> review[v].req]
  <2>1. [review[v] EXCEPT !.at = "load"] = e
      BY <1>0, <1>6, ReviewShape, MovesOn DEF Process
  <2>2. /\ review[v].at = "process"
        /\ review' = [review EXCEPT ![v] = e]
        /\ refundStatus' = [refundStatus EXCEPT ![review[v].req] = "processing"]
      BY <1>6, <2>1 DEF Process, Goto
  <2>3. /\ <<Expected(review[v].at), "processing">> \in Workflow
        /\ e.req = review[v].req /\ Expected(e.at) = "processing"
        /\ review[v].at \in Reviewing /\ "processing" \in RefundStatus
      BY <2>2, ExpectedIs DEF Workflow, Reviewing, RefundStatus
  <2> HIDE DEF e
  <2> QED
      BY <1>b, <2>2, <2>3
<1>7. ASSUME NEW v \in Reviews,
             LoadPayment(v) \/ GatewayAccepts(v) \/ GatewayFails(v)
             \/ GatewayRefuses(v) \/ RefundTxFails(v)
      PROVE  InStep' /\ Flows
  <2>1. /\ review[v].at \in {"load", "gateway", "tx"}
        /\ UNCHANGED refundStatus
      BY <1>7 DEF LoadPayment, GatewayAccepts, GatewayFails, GatewayRefuses,
         RefundTxFails
  <2>2. PICK e : /\ review' = [review EXCEPT ![v] = e]
                 /\ e.at \in {"gateway", "tx", "fail"}
                 /\ e.req = review[v].req
    <3>1. \A b : review[v].at = "gateway" =>
             [review[v] EXCEPT !.at = b]
                = [at |-> b, req |-> review[v].req, read |-> review[v].read]
        BY <1>0, ReviewShape, MovesOn
    <3>2. CASE GatewayAccepts(v) \/ GatewayFails(v)
        BY <3>1, <3>2 DEF GatewayAccepts, GatewayFails, Goto
    <3>3. CASE LoadPayment(v) \/ GatewayRefuses(v) \/ RefundTxFails(v)
        BY <3>3 DEF LoadPayment, GatewayRefuses, RefundTxFails, Goto
    <3> QED
        BY <1>7, <3>2, <3>3
  <2>3. Expected(review[v].at) = "processing" /\ Expected(e.at) = "processing"
      BY <2>1, <2>2, ExpectedIs
  <2>4. refundStatus' = [refundStatus EXCEPT ![review[v].req] = "processing"]
      BY <1>c, <2>1, <2>3 DEF Reviewing
  <2>5. review[v].at \in Reviewing /\ "processing" \in RefundStatus
      BY <2>1 DEF Reviewing, RefundStatus
  <2> QED
      BY <1>b, <2>2, <2>3, <2>4, <2>5
<1>8. ASSUME NEW v \in Reviews, RefundTx(v)
      PROVE  InStep' /\ Flows
  <2>1. /\ review[v].at = "tx"
        /\ review' = [review EXCEPT ![v] = NoReview]
        /\ refundStatus' = [refundStatus EXCEPT ![review[v].req] = "completed"]
      BY <1>8 DEF RefundTx, Goto
  <2>2. /\ <<Expected(review[v].at), "completed">> \in Workflow
        /\ review[v].at \in Reviewing /\ "completed" \in RefundStatus
      BY <2>1, ExpectedIs DEF Workflow, Reviewing, RefundStatus
  <2> QED
      BY <1>b, <1>d, <2>1, <2>2
<1>9. ASSUME NEW v \in Reviews, MarkRefundFailed(v)
      PROVE  InStep' /\ Flows
  <2>1. /\ review[v].at = "fail"
        /\ review' = [review EXCEPT ![v] = NoReview]
        /\ refundStatus' = [refundStatus EXCEPT ![review[v].req] = "failed"]
      BY <1>9 DEF MarkRefundFailed, Goto
  <2>2. /\ <<Expected(review[v].at), "failed">> \in Workflow
        /\ review[v].at \in Reviewing /\ "failed" \in RefundStatus
      BY <2>1, ExpectedIs DEF Workflow, Reviewing, RefundStatus
  <2> QED
      BY <1>b, <1>d, <2>1, <2>2
<1>10. ASSUME NEW v \in Reviews,
             \/ \E p \in Payments : \E n \in 1 .. Price[p] : DirectRead(v, p, n)
             \/ DirectGateway(v) \/ DirectUpdate(v)
      PROVE  InStep' /\ Flows
  BY <1>0, <1>10 DEF DirectRead, DirectGateway, DirectUpdate, Goto, InStep,
     Reviewing, NoReview
<1>11. \A v \in Reviews : ~ReviewDies(v) /\ ~ProcessUnwritten(v)
    BY DEF ReviewDies, ProcessUnwritten
<1> QED
    BY <1>1, <1>2, <1>3, <1>4, <1>5, <1>6, <1>7, <1>8, <1>9, <1>10,
       <1>11
    DEF Next, Execute

\* With one review at a time, whose statements succeed, every request follows
\* the workflow of the model's comment, although each review reads a request
\* in one step and writes it in another, and submissions overlap.
THEOREM SerialReviewsFollowTheWorkflow ==
    ASSUME \A v, w \in Reviews : v = w, ~Crashes
    PROVE  Spec => RefundFlow
<1>1. Init => InStep
    BY DEF Init, InStep, NoReview, Reviewing
<1>2. OrderInv /\ InStep /\ [Next]_vars => InStep'
  <2>1. UNCHANGED vars /\ InStep => InStep'
      BY DEF vars, refundVars, InStep
  <2> QED
      BY <2>1, SerialStep
<1>3. OrderInv /\ InStep /\ [Next]_vars
        => [\A r \in Refunds :
              refundStatus'[r] # refundStatus[r]
                => <<refundStatus[r], refundStatus'[r]>> \in Workflow]_vars
  <2>1. CASE Next
      BY <2>1, SerialStep
  <2>2. CASE UNCHANGED vars
      BY <2>2
  <2> QED
      BY <2>1, <2>2
<1> QED
    BY <1>1, <1>2, <1>3, OrderInvariance, PTL DEF Spec, RefundFlow

-----------------------------------------------------------------------------
(* The balance and its journal.                                            *)

\* What the RECHARGE records of the user add up to.
Journal == SumFunctionOnSet([p \in Payments |-> Recharged(p)], Payments)

\* A row that a delivery has read, and will save with its credits added, holds
\* no more than the journal says.
JournalInv ==
    /\ balance <= Journal
    /\ \A d \in Deliveries : delivery[d].at = "save" => delivery[d].read <= Journal

LEMMA RechargedNat ==
    ASSUME OrderInv
    PROVE  /\ \A p \in Payments : recharges[p] \in Nat
           /\ \A p \in Payments : RMBToCredits(Price[p]) \in Nat
           /\ \A p \in Payments : Recharged(p) \in Nat
           /\ Journal \in Nat
<1>1. \A p \in Payments : recharges[p] \in Nat
    BY DEF OrderInv, PayInv, PayTypeOK
<1>2. \A p \in Payments : RMBToCredits(Price[p]) \in Nat
    BY PaymentAssumption DEF RMBToCredits
<1>3. \A p \in Payments : Recharged(p) \in Nat
    BY <1>1, <1>2 DEF Recharged
<1>4. Journal \in Nat
    BY <1>3, PaymentAssumption, SumNat DEF Journal
<1> QED
    BY <1>1, <1>2, <1>3, <1>4

\* A RECHARGE record adds the credits of its order.
LEMMA JournalGrows ==
    ASSUME OrderInv, NEW p \in Payments
    PROVE  recharges' = [recharges EXCEPT ![p] = @ + 1]
             => Journal' = Journal + RMBToCredits(Price[p])
<1> DEFINE next == [recharges EXCEPT ![p] = @ + 1]
           worth(q) == RMBToCredits(Price[q])
           f == [q \in Payments |-> recharges[q] * worth(q)]
           g == [q \in Payments |-> next[q] * worth(q)]
<1>1. /\ \A q \in Payments : recharges[q] \in Nat /\ worth(q) \in Nat
      /\ next[p] = recharges[p] + 1
      /\ \A q \in Payments \ {p} : next[q] = recharges[q]
      /\ IsFiniteSet(Payments)
    BY RechargedNat, PaymentAssumption DEF OrderInv, PayInv, PayTypeOK
<1>2. recharges' = next => Journal' = SumFunctionOnSet(g, Payments)
    BY DEF Journal, Recharged
<1>3. Journal = SumFunctionOnSet(f, Payments)
    BY DEF Journal, Recharged
<1> HIDE DEF next, worth
<1>4. \A n, k \in Nat : n * k \in Nat /\ (n + 1) * k = n * k + k
    OBVIOUS
<1>5. /\ \A q \in Payments : f[q] \in Int
      /\ g[p] = f[p] + worth(p) /\ g[p] \in Int
      /\ \A q \in Payments \ {p} : g[q] = f[q]
    BY <1>1, <1>4
<1> HIDE DEF f, g
<1>6. SumFunctionOnSet(g, Payments) = (SumFunctionOnSet(f, Payments) - f[p]) + g[p]
    BY <1>1, <1>5, SumChange
<1>7. SumFunctionOnSet(f, Payments) \in Int
    BY <1>1, <1>5, SumInt
<1>8. SumFunctionOnSet(g, Payments) = SumFunctionOnSet(f, Payments) + worth(p)
  <2> DEFINE before == SumFunctionOnSet(f, Payments)
             after == SumFunctionOnSet(g, Payments)
  <2>1. /\ after = (before - f[p]) + g[p] /\ before \in Int /\ f[p] \in Int
        /\ worth(p) \in Nat /\ g[p] = f[p] + worth(p)
      BY <1>1, <1>5, <1>6, <1>7
  <2> HIDE DEF before, after
  <2>2. after = before + worth(p)
      BY <2>1
  <2> QED
      BY <2>2 DEF before, after
<1> QED
    BY <1>2, <1>3, <1>8 DEF next, worth

\* Overlapping deliveries save each other's rows over, and refunds debit in
\* between: the balance never gets ahead of the journal.
THEOREM CreditsAreRecorded == Spec => []NothingInvented
<1>1. Init => JournalInv
  <2> SUFFICES ASSUME Init PROVE JournalInv
      OBVIOUS
  <2>1. balance = 0 /\ \A d \in Deliveries : delivery[d].at = "idle"
      BY DEF Init, PayInit, NoDelivery
  <2>2. Journal \in Nat
      BY OrderInvInit, RechargedNat
  <2> QED
      BY <2>1, <2>2 DEF JournalInv
<1>2. OrderInv /\ JournalInv /\ [Next]_vars => JournalInv'
  <2> SUFFICES ASSUME OrderInv, JournalInv, [Next]_vars PROVE JournalInv'
      OBVIOUS
  <2>0. /\ delivery \in [Deliveries -> Delivery] /\ balance \in Int
        /\ Journal \in Nat
      BY RechargedNat DEF OrderInv, PayInv, PayTypeOK
  <2>j. recharges' = recharges => Journal' = Journal
      BY DEF Journal, Recharged
  \* A step that starts or ends a delivery, or leaves all of them.
  <2>a. ASSUME recharges' = recharges, balance' \in Int, balance' <= balance,
               \A d \in Deliveries : delivery'[d].at = "save" => delivery'[d] = delivery[d]
        PROVE  JournalInv'
    <3>1. balance' <= Journal
        BY <2>0, <2>a DEF JournalInv
    <3> QED
        BY <2>a, <2>j, <3>1 DEF JournalInv
  <2>1. ASSUME NEW d \in Deliveries, CreditRead(d) PROVE JournalInv'
    <3>1. /\ recharges' = recharges /\ balance' = balance
          /\ delivery'[d].read = balance
          /\ \A e \in Deliveries \ {d} : delivery'[e] = delivery[e]
        BY <2>0, <2>1 DEF CreditRead
    <3> QED
        BY <2>j, <3>1 DEF JournalInv
  <2>2. ASSUME NEW d \in Deliveries, CreditSave(d) PROVE JournalInv'
    <3> DEFINE p == delivery[d].pay
               c == RMBToCredits(Price[p])
    <3>1. p \in Payments /\ delivery[d].read \in Int /\ c \in Nat
        BY <2>0, <2>2, DeliveryShape, RechargedNat DEF CreditSave
    <3>2. Journal' = Journal + c
        BY <2>2, <3>1, JournalGrows DEF CreditSave
    <3>3. /\ balance' = delivery[d].read + c /\ delivery[d].read <= Journal
          /\ delivery'[d].at = "idle"
          /\ \A e \in Deliveries \ {d} : delivery'[e] = delivery[e]
        BY <2>0, <2>2 DEF CreditSave, NoDelivery, JournalInv
    <3> HIDE DEF c
    <3>4. balance' <= Journal'
        BY <2>0, <3>1, <3>2, <3>3
    <3>5. ASSUME NEW e \in Deliveries, delivery'[e].at = "save"
          PROVE  delivery'[e].read <= Journal'
      <4>1. delivery[e].at = "save" /\ delivery'[e].read = delivery[e].read
          BY <3>3, <3>5
      <4>2. delivery[e].read <= Journal /\ delivery[e].read \in Int
          BY <2>0, <4>1, DeliveryShape DEF JournalInv
      <4>3. delivery[e].read <= Journal'
          BY <2>0, <3>1, <3>2, <4>2
      <4> QED
          BY <4>1, <4>3
    <3> QED
        BY <3>4, <3>5 DEF JournalInv
  <2>3. ASSUME PayNext, \A d \in Deliveries : ~CreditRead(d) /\ ~CreditSave(d)
        PROVE  JournalInv'
    <3>1. UNCHANGED <<balance, recharges>>
        BY <2>3 DEF PayNext, Handle, UserPays, Receive, UpdateStatus, CreditFails,
           DeliveryDies
    <3>2. \A d \in Deliveries : delivery'[d].at = "save" => delivery'[d] = delivery[d]
      <4>1. \A d \in Deliveries : UpdateStatus(d) =>
               \E e : e.at # "save" /\ delivery' = [delivery EXCEPT ![d] = e]
          BY DEF UpdateStatus, NoDelivery
      <4>2. PayNext /\ (\A d \in Deliveries : ~Handle(d)) => \/ delivery' = delivery
               \/ \E d \in Deliveries : \E e :
                      e.at # "save" /\ delivery' = [delivery EXCEPT ![d] = e]
          BY DEF PayNext, Handle, UserPays, Receive, CreditFails, DeliveryDies,
             NoDelivery
      <4> QED
          BY <2>0, <2>3, <4>1, <4>2 DEF Handle
    <3> QED
        BY <2>0, <2>a, <3>1, <3>2
  <2>4. ASSUME NEW v \in Reviews, RefundTx(v) PROVE JournalInv'
    <3>1. AmountOf[review[v].req] \in Nat
        BY <2>4, ReviewShape, RefundAssumption DEF RefundTx, OrderInv, TypeOK
    <3>2. RMBToCredits(AmountOf[review[v].req]) \in Nat
        BY <3>1, PaymentAssumption DEF RMBToCredits
    <3>3. /\ balance' = balance - RMBToCredits(AmountOf[review[v].req])
          /\ UNCHANGED <<recharges, delivery>>
        BY <2>4 DEF RefundTx
    <3>4. balance' \in Int /\ balance' <= balance
        BY <2>0, <3>2, <3>3
    <3> QED
        BY <2>a, <3>3, <3>4
  <2>5. CASE UNCHANGED <<balance, recharges, delivery>>
      BY <2>0, <2>a, <2>5
  <2>6. UNCHANGED payVars => UNCHANGED <<balance, recharges, delivery>>
      BY DEF payVars
  <2>7. ASSUME NEW r \in Refunds, CheckSubmit(r) \/ CreateRequest(r)
        PROVE  UNCHANGED payVars
      BY <2>7 DEF CheckSubmit, CreateRequest
  <2>8. ASSUME NEW v \in Reviews, Execute(v), ~RefundTx(v)
        PROVE  UNCHANGED payVars
      BY <2>8 DEF Execute, Process, ProcessUnwritten, LoadPayment,
         GatewayAccepts, GatewayFails, GatewayRefuses, RefundTxFails,
         MarkRefundFailed
  <2>9. ASSUME NEW v \in Reviews,
               \/ \E r \in Refunds : ReadRequest(v, r)
               \/ Approve(v) \/ Reject(v) \/ ReviewDies(v) \/ DirectGateway(v)
               \/ \E p \in Payments : \E n \in 1 .. Price[p] : DirectRead(v, p, n)
        PROVE  UNCHANGED payVars
      BY <2>9 DEF ReadRequest, Approve, Reject, ReviewDies, DirectGateway,
         DirectRead
  <2>10. ASSUME NEW v \in Reviews, DirectUpdate(v)
         PROVE  UNCHANGED <<balance, recharges, delivery>>
      BY <2>10 DEF DirectUpdate
  <2>11. CASE UNCHANGED vars
      BY <2>5, <2>6, <2>11 DEF vars
  <2> QED
      BY <2>1, <2>2, <2>3, <2>4, <2>5, <2>6, <2>7, <2>8, <2>9, <2>10, <2>11
      DEF Next
<1>3. JournalInv => NothingInvented
    BY DEF JournalInv, Journal, NothingInvented
<1> QED
    BY <1>1, <1>2, <1>3, OrderInvariance, PTL DEF Spec

-----------------------------------------------------------------------------
(* What refunds debit, and what the gateway has returned.                   *)

\* What the review e is about to debit for the order p.
Due(e, p) == IF e.at = "tx" /\ OrderOf[e.req] = p THEN AmountOf[e.req] ELSE 0

AllDue(p) == SumFunctionOnSet([v \in Reviews |-> Due(review[v], p)], Reviews)

Requested(p) == {r \in Refunds : OrderOf[r] = p}

Debited(p) ==
    SumFunctionOnSet([r \in Refunds |-> debits[r] * AmountOf[r]], Requested(p))

\* Strengthens DebitsCovered with the refunds the gateway has accepted and no
\* transaction has debited.
DebitsInv == \A p \in Payments : Debited(p) + AllDue(p) <= returned[p]

LEMMA DueNat ==
    ASSUME NEW e \in Review, NEW p
    PROVE  Due(e, p) \in Nat
BY ReviewShape, RefundAssumption DEF Due

LEMMA DebitsNat ==
    ASSUME OrderInv
    PROVE  /\ \A v \in Reviews : review[v] \in Review
           /\ \A r \in Refunds : debits[r] \in Nat /\ AmountOf[r] \in Nat
                                 /\ debits[r] * AmountOf[r] \in Nat
           /\ \A p \in Payments : /\ IsFiniteSet(Requested(p))
                                  /\ Debited(p) \in Nat /\ AllDue(p) \in Nat
                                  /\ returned[p] \in Nat
<1>1. /\ \A v \in Reviews : review[v] \in Review
      /\ \A r \in Refunds : debits[r] \in Nat /\ AmountOf[r] \in Nat
      /\ \A p \in Payments : returned[p] \in Nat
    BY RefundAssumption DEF OrderInv, TypeOK
<1>2. \A r \in Refunds : debits[r] * AmountOf[r] \in Nat
    BY <1>1
<1>3. ASSUME NEW p \in Payments
      PROVE  IsFiniteSet(Requested(p)) /\ Debited(p) \in Nat /\ AllDue(p) \in Nat
  <2>1. IsFiniteSet(Requested(p))
      BY RefundAssumption, FS_Subset DEF Requested
  <2>2. Debited(p) \in Nat
    <3>1. \A r \in Requested(p) :
             [q \in Refunds |-> debits[q] * AmountOf[q]][r] \in Nat
        BY <1>2 DEF Requested
    <3> QED
        BY <2>1, <3>1, SumNat DEF Debited
  <2>3. AllDue(p) \in Nat
    <3>1. \A v \in Reviews : [w \in Reviews |-> Due(review[w], p)][v] \in Nat
        BY <1>1, DueNat
    <3> QED
        BY <3>1, SumNat, RefundAssumption DEF AllDue
  <2> QED
      BY <2>1, <2>2, <2>3
<1> QED
    BY <1>1, <1>2, <1>3

\* A review that becomes e changes what is due by what it was and is about to
\* debit.
LEMMA DueChange ==
    ASSUME OrderInv, NEW v \in Reviews, NEW e \in Review, NEW p \in Payments
    PROVE  review' = [review EXCEPT ![v] = e]
             => AllDue(p)' = (AllDue(p) - Due(review[v], p)) + Due(e, p)
<1> DEFINE next == [review EXCEPT ![v] = e]
           f == [w \in Reviews |-> Due(review[w], p)]
           g == [w \in Reviews |-> Due(next[w], p)]
<1>1. /\ \A w \in Reviews : f[w] \in Int
      /\ f[v] = Due(review[v], p) /\ g[v] = Due(e, p) /\ g[v] \in Int
      /\ \A w \in Reviews \ {v} : g[w] = f[w]
      /\ IsFiniteSet(Reviews)
  <2>1. next[v] = e /\ \A w \in Reviews \ {v} : next[w] = review[w]
      BY DEF OrderInv, TypeOK
  <2>2. \A w \in Reviews : Due(review[w], p) \in Int
      BY DebitsNat, DueNat
  <2>3. Due(e, p) \in Int
      BY DueNat
  <2> HIDE DEF next
  <2> QED
      BY <2>1, <2>2, <2>3, RefundAssumption
<1>2. review' = next => AllDue(p)' = SumFunctionOnSet(g, Reviews)
    BY DEF AllDue, Due
<1>3. AllDue(p) = SumFunctionOnSet(f, Reviews)
    BY DEF AllDue
<1> HIDE DEF f, g
<1>4. SumFunctionOnSet(g, Reviews) = (SumFunctionOnSet(f, Reviews) - f[v]) + g[v]
    BY <1>1, SumChange
<1> HIDE DEF next
<1>5. review' = next => AllDue(p)' = (AllDue(p) - Due(review[v], p)) + Due(e, p)
    BY <1>1, <1>2, <1>3, <1>4
<1> QED
    BY <1>5 DEF next

\* A REFUND record debits the amount of its request, of its order only.
LEMMA DebitedChange ==
    ASSUME OrderInv, NEW r \in Refunds, NEW p \in Payments
    PROVE  debits' = [debits EXCEPT ![r] = @ + 1]
             => Debited(p)' = Debited(p) + (IF OrderOf[r] = p THEN AmountOf[r] ELSE 0)
<1> DEFINE next == [debits EXCEPT ![r] = @ + 1]
           f == [q \in Refunds |-> debits[q] * AmountOf[q]]
           g == [q \in Refunds |-> next[q] * AmountOf[q]]
           S == Requested(p)
<1>1. /\ next[r] = debits[r] + 1 /\ \A q \in Refunds \ {r} : next[q] = debits[q]
      /\ \A q \in Refunds : debits[q] \in Nat /\ AmountOf[q] \in Nat
      /\ IsFiniteSet(S) /\ S \in SUBSET Refunds
      /\ r \in S <=> OrderOf[r] = p
    BY DebitsNat DEF OrderInv, TypeOK, Requested
<1>2. debits' = next => Debited(p)' = SumFunctionOnSet(g, S)
    BY DEF Debited, Requested
<1>3. Debited(p) = SumFunctionOnSet(f, S)
    BY DEF Debited
<1> HIDE DEF next, S
<1>4. \A n, k \in Nat : n * k \in Nat /\ (n + 1) * k = n * k + k
    OBVIOUS
<1>5. /\ \A q \in S : f[q] \in Int
      /\ f[r] \in Int /\ g[r] = f[r] + AmountOf[r] /\ g[r] \in Int
      /\ \A q \in S \ {r} : g[q] = f[q]
    BY <1>1, <1>4
<1> HIDE DEF f, g
<1> DEFINE before == SumFunctionOnSet(f, S)
           after == SumFunctionOnSet(g, S)
           more == IF OrderOf[r] = p THEN AmountOf[r] ELSE 0
<1>6. before \in Int
    BY <1>1, <1>5, SumInt
<1>7. CASE OrderOf[r] = p
  <2>1. after = (before - f[r]) + g[r]
      BY <1>1, <1>5, <1>7, SumChange
  <2> HIDE DEF before, after
  <2> QED
      BY <1>1, <1>2, <1>3, <1>5, <1>6, <1>7, <2>1 DEF before, after, next
<1>8. CASE OrderOf[r] # p
  <2>1. \A q \in S : f[q] \in Int /\ g[q] = f[q]
      BY <1>1, <1>5, <1>8
  <2>2. after = before
      BY <1>1, <2>1, SumSame
  <2> HIDE DEF before, after
  <2> QED
      BY <1>2, <1>3, <1>6, <1>8, <2>2 DEF before, after, next
<1> QED
    BY <1>7, <1>8

\* A step of a review that neither begins nor ends a debit, or gives one up.
LEMMA DuesFall ==
    ASSUME OrderInv, DebitsInv, NEW v \in Reviews, NEW e \in Review,
           e.at # "tx" \/ e = review[v]
    PROVE  /\ review' = [review EXCEPT ![v] = e] /\ debits' = debits
           /\ \A p \in Payments : returned'[p] \in Nat /\ returned'[p] >= returned[p]
           => DebitsInv'
<1> SUFFICES ASSUME NEW p \in Payments
             PROVE  /\ review' = [review EXCEPT ![v] = e] /\ debits' = debits
                    /\ returned'[p] \in Nat /\ returned'[p] >= returned[p]
                    => Debited(p)' + AllDue(p)' <= returned'[p]
    BY DEF DebitsInv
<1>1. /\ Debited(p) \in Nat /\ AllDue(p) \in Nat /\ returned[p] \in Nat
      /\ Debited(p) + AllDue(p) <= returned[p]
    BY DebitsNat DEF DebitsInv
<1>2. Due(e, p) <= Due(review[v], p) /\ Due(e, p) \in Nat /\ Due(review[v], p) \in Nat
  <2>1. Due(e, p) \in Nat /\ Due(review[v], p) \in Nat
      BY DueNat, DebitsNat
  <2>2. CASE e.at # "tx"
    <3>1. Due(e, p) = 0
        BY <2>2 DEF Due
    <3> QED
        BY <2>1, <3>1
  <2>3. CASE e = review[v]
      BY <2>1, <2>3
  <2> QED
      BY <2>1, <2>2, <2>3
<1>3. debits' = debits => Debited(p)' = Debited(p)
    BY DEF Debited, Requested
<1>4. review' = [review EXCEPT ![v] = e]
        => AllDue(p)' = (AllDue(p) - Due(review[v], p)) + Due(e, p)
    BY DueChange
<1>5. \A a, b, n, m, x, y \in Nat :
         a + b <= n /\ m >= n /\ x <= y => a + ((b - y) + x) <= m
    OBVIOUS
<1> QED
    BY <1>1, <1>2, <1>3, <1>4, <1>5

\* A refund that the gateway accepts becomes due, and due only to its order.
LEMMA AcceptedIsDue ==
    ASSUME OrderInv, DebitsInv, NEW v \in Reviews, GatewayAccepts(v)
    PROVE  DebitsInv'
<1> DEFINE r == review[v].req
           q == OrderOf[r]
           e == [at |-> "tx", req |-> r, read |-> review[v].read]
<1>1. /\ review[v] \in Review /\ review[v].at = "gateway"
      /\ r \in Refunds /\ q \in Payments /\ review[v].read \in Nat
    BY DebitsNat, ReviewShape, RefundAssumption DEF GatewayAccepts
<1>2. /\ review' = [review EXCEPT ![v] = e] /\ e \in Review
      /\ UNCHANGED debits /\ returned' = [returned EXCEPT ![q] = @ + AmountOf[r]]
  <2>1. [review[v] EXCEPT !.at = "tx"] = e
      BY <1>1, ReviewShape, MovesOn
  <2>2. e \in Review
      BY <1>1 DEF Review
  <2> HIDE DEF e
  <2> QED
      BY <2>1, <2>2 DEF GatewayAccepts, Goto
<1>3. ASSUME NEW p \in Payments
      PROVE  Debited(p)' + AllDue(p)' <= returned'[p]
  <2>1. /\ Debited(p) \in Nat /\ AllDue(p) \in Nat /\ returned[p] \in Nat
        /\ Debited(p) + AllDue(p) <= returned[p]
      BY DebitsNat DEF DebitsInv
  <2>2. Due(review[v], p) = 0 /\ Due(e, p) = IF q = p THEN AmountOf[r] ELSE 0
      BY <1>1 DEF Due
  <2>3. Debited(p)' = Debited(p)
      BY <1>2 DEF Debited, Requested
  <2> HIDE DEF e
  <2>4. AllDue(p)' = (AllDue(p) - Due(review[v], p)) + Due(e, p)
      BY <1>2, DueChange
  <2>5. Due(e, p) \in Nat
      BY <1>2, DueNat
  <2>6. returned'[p] = returned[p] + Due(e, p)
    <3>1. returned \in [Payments -> Nat]
        BY DEF OrderInv, TypeOK
    <3>2. CASE q = p
        BY <1>1, <1>2, <2>2, <3>1, <3>2
    <3>3. CASE q # p
        BY <1>1, <1>2, <2>1, <2>2, <3>1, <3>3
    <3> QED
        BY <3>2, <3>3
  <2>7. \A a, b, n, x \in Nat : a + b <= n => a + ((b - 0) + x) <= n + x
      OBVIOUS
  <2> QED
      BY <2>1, <2>2, <2>3, <2>4, <2>5, <2>6, <2>7
<1> QED
    BY <1>3 DEF DebitsInv

\* The transaction debits what was due.
LEMMA DueIsDebited ==
    ASSUME OrderInv, DebitsInv, NEW v \in Reviews, RefundTx(v)
    PROVE  DebitsInv'
<1> DEFINE r == review[v].req
<1>1. /\ review[v] \in Review /\ review[v].at = "tx" /\ r \in Refunds
    BY DebitsNat, ReviewShape DEF RefundTx
<1>2. /\ review' = [review EXCEPT ![v] = NoReview] /\ NoReview \in Review
      /\ UNCHANGED returned /\ debits' = [debits EXCEPT ![r] = @ + 1]
    BY DEF RefundTx, Goto, Review
<1>3. ASSUME NEW p \in Payments
      PROVE  Debited(p)' + AllDue(p)' <= returned'[p]
  <2>1. /\ Debited(p) \in Nat /\ AllDue(p) \in Nat /\ returned[p] \in Nat
        /\ Debited(p) + AllDue(p) <= returned[p]
      BY DebitsNat DEF DebitsInv
  <2>2. /\ Due(NoReview, p) = 0 /\ Due(review[v], p) \in Nat
        /\ Due(review[v], p) = IF OrderOf[r] = p THEN AmountOf[r] ELSE 0
      BY <1>1, DueNat DEF Due, NoReview
  <2>3. Debited(p)' = Debited(p) + Due(review[v], p)
      BY <1>1, <1>2, <2>2, DebitedChange
  <2>4. AllDue(p)' = (AllDue(p) - Due(review[v], p)) + 0
      BY <1>2, <2>2, DueChange
  <2>5. \A a, b, n, x \in Nat : a + b <= n => (a + x) + ((b - x) + 0) <= n
      OBVIOUS
  <2> QED
      BY <1>2, <2>1, <2>2, <2>3, <2>4, <2>5
<1> QED
    BY <1>3 DEF DebitsInv

\* As long as the gateway reports its failures as errors, no user is debited
\* for a refund that was not returned, in any overlap of reviews and crashes.
THEOREM DebitsAreReturned ==
    ASSUME ~GatewayFailures
    PROVE  Spec => []DebitsCovered
<1>1. Init => DebitsInv
  <2> SUFFICES ASSUME Init, NEW p \in Payments
               PROVE  Debited(p) + AllDue(p) <= returned[p]
      BY DEF DebitsInv
  <2>1. Debited(p) = 0
    <3>1. \A r \in Requested(p) : [q \in Refunds |-> debits[q] * AmountOf[q]][r] = 0
        BY RefundAssumption DEF Init, Requested
    <3>2. IsFiniteSet(Requested(p))
        BY OrderInvInit, DebitsNat
    <3> QED
        BY <3>1, <3>2, SumZero DEF Debited
  <2>2. AllDue(p) = 0
    <3>1. \A v \in Reviews : [w \in Reviews |-> Due(review[w], p)][v] = 0
        BY DEF Init, Due, NoReview
    <3> QED
        BY <3>1, RefundAssumption, SumZero DEF AllDue
  <2>3. returned[p] = 0
      BY DEF Init
  <2> QED
      BY <2>1, <2>2, <2>3
<1>2. OrderInv /\ DebitsInv /\ [Next]_vars => DebitsInv'
  <2> SUFFICES ASSUME OrderInv, DebitsInv, [Next]_vars PROVE DebitsInv'
      OBVIOUS
  <2>0. /\ returned \in [Payments -> Nat] /\ review \in [Reviews -> Review]
        /\ \A r \in Refunds : OrderOf[r] \in Payments
      BY RefundAssumption DEF OrderInv, TypeOK
  <2>a. UNCHANGED <<review, debits, returned>> => DebitsInv'
      BY DEF DebitsInv, Debited, Requested, AllDue, Due
  <2>1. CASE UNCHANGED refundVars
      BY <2>1, <2>a DEF refundVars
  <2>2. ASSUME NEW r \in Refunds, CheckSubmit(r) \/ CreateRequest(r)
        PROVE  DebitsInv'
      BY <2>2, <2>a DEF CheckSubmit, CreateRequest
  <2>3. ASSUME NEW v \in Reviews, NEW e,
               e.at # "tx", review' = [review EXCEPT ![v] = e], debits' = debits,
               \A p \in Payments : returned'[p] \in Nat /\ returned'[p] >= returned[p]
        PROVE  DebitsInv'
    <3>1. OrderInv'
        BY OrderInvStep
    <3>2. e \in Review
        BY <2>0, <2>3, <3>1 DEF OrderInv, TypeOK
    <3> QED
        BY <2>3, <3>2, DuesFall
  <2>4. ASSUME UNCHANGED returned
        PROVE  \A p \in Payments : returned'[p] \in Nat /\ returned'[p] >= returned[p]
      BY <2>0, <2>4
  <2>5. ASSUME NEW v \in Reviews,
               \/ \E r \in Refunds : ReadRequest(v, r)
               \/ Approve(v) \/ Reject(v) \/ Process(v) \/ ProcessUnwritten(v)
               \/ LoadPayment(v) \/ GatewayRefuses(v) \/ RefundTxFails(v)
               \/ MarkRefundFailed(v) \/ ReviewDies(v) \/ DirectUpdate(v)
               \/ \E p \in Payments : \E n \in 1 .. Price[p] : DirectRead(v, p, n)
        PROVE  DebitsInv'
    <3>1. UNCHANGED <<debits, returned>>
        BY <2>5 DEF ReadRequest, Approve, Reject, Process, ProcessUnwritten,
           LoadPayment, GatewayRefuses, RefundTxFails, MarkRefundFailed,
           ReviewDies, DirectUpdate, DirectRead
    <3>2. \A b : review[v].at \in {"approve", "process"} =>
             [review[v] EXCEPT !.at = b] = [at |-> b, req |-> review[v].req]
        BY <2>0, ReviewShape, MovesOn
    <3>3. \E e : e.at # "tx" /\ review' = [review EXCEPT ![v] = e]
      <4>1. CASE Approve(v) \/ Process(v) \/ ProcessUnwritten(v)
          BY <3>2, <4>1 DEF Approve, Process, ProcessUnwritten, Goto
      <4>2. CASE Reject(v) \/ MarkRefundFailed(v) \/ ReviewDies(v) \/ DirectUpdate(v)
          BY <4>2 DEF Reject, MarkRefundFailed, ReviewDies, DirectUpdate, Goto,
             NoReview
      <4>3. CASE LoadPayment(v) \/ GatewayRefuses(v) \/ RefundTxFails(v)
          BY <4>3 DEF LoadPayment, GatewayRefuses, RefundTxFails, Goto
      <4>4. ASSUME NEW r \in Refunds, ReadRequest(v, r)
            PROVE  \E e : e.at # "tx" /\ review' = [review EXCEPT ![v] = e]
          BY <4>4 DEF ReadRequest, Goto
      <4>5. ASSUME NEW p \in Payments, NEW n \in 1 .. Price[p], DirectRead(v, p, n)
            PROVE  \E e : e.at # "tx" /\ review' = [review EXCEPT ![v] = e]
          BY <4>5 DEF DirectRead, Goto
      <4> QED
          BY <2>5, <4>1, <4>2, <4>3, <4>4, <4>5
    <3>4. PICK e : e.at # "tx" /\ review' = [review EXCEPT ![v] = e]
        BY <3>3
    <3> QED
        BY <2>3, <2>4, <3>1, <3>4
  <2>6. ASSUME NEW v \in Reviews, DirectGateway(v)
        PROVE  DebitsInv'
    <3>1. review[v].pay \in Payments /\ review[v].amt \in Nat
        BY <2>0, <2>6, ReviewShape DEF DirectGateway
    <3>2. \A p \in Payments : returned'[p] \in Nat /\ returned'[p] >= returned[p]
        BY <2>0, <2>6, <3>1 DEF DirectGateway
    <3>3. PICK e : e.at # "tx" /\ review' = [review EXCEPT ![v] = e]
        BY <2>6 DEF DirectGateway, Goto, NoReview
    <3>4. debits' = debits
        BY <2>6 DEF DirectGateway
    <3> QED
        BY <2>3, <3>2, <3>3, <3>4
  <2>7. \A v \in Reviews : ~GatewayFails(v)
      BY DEF GatewayFails
  <2>8. CASE UNCHANGED vars
      BY <2>1, <2>8 DEF vars
  <2> QED
      BY <2>1, <2>2, <2>5, <2>6, <2>7, <2>8, AcceptedIsDue, DueIsDebited
      DEF Next, Execute
<1>3. OrderInv /\ DebitsInv => DebitsCovered
  <2> SUFFICES ASSUME OrderInv, DebitsInv, NEW p \in Payments
               PROVE  Debited(p) <= returned[p]
      BY DEF DebitsCovered, Debited, Requested
  <2>1. /\ Debited(p) \in Nat /\ AllDue(p) \in Nat /\ returned[p] \in Nat
        /\ Debited(p) + AllDue(p) <= returned[p]
      BY DebitsNat DEF DebitsInv
  <2> QED
      BY <2>1
<1> QED
    BY <1>1, <1>2, <1>3, OrderInvariance, PTL DEF Spec

-----------------------------------------------------------------------------
(* What one review at a time adds to an order.                              *)

\* What the only review has read of its order is still what the order says.
CountedInv ==
    /\ RefundsCounted
    /\ \A v \in Reviews :
        review[v].at \in {"gateway", "tx"}
            => review[v].read = refundedAmount[OrderOf[review[v].req]]

LEMMA CompletedNat ==
    ASSUME OrderInv, NEW p \in Payments
    PROVE  /\ \A r \in Refunds : AmountOf[r] \in Nat
           /\ IsFiniteSet(Completed(p)) /\ Completed(p) \in SUBSET Refunds
           /\ SumFunctionOnSet(AmountOf, Completed(p)) \in Nat
           /\ refundedAmount[p] \in Nat
<1>1. /\ \A r \in Refunds : AmountOf[r] \in Nat
      /\ Completed(p) \in SUBSET Refunds /\ refundedAmount[p] \in Nat
    BY RefundAssumption DEF Completed, OrderInv, TypeOK
<1>2. IsFiniteSet(Completed(p)) /\ \A r \in Completed(p) : AmountOf[r] \in Nat
    BY <1>1, RefundAssumption, FS_Subset
<1>3. SumFunctionOnSet(AmountOf, Completed(p)) \in Nat
    BY <1>2, SumNat
<1> QED
    BY <1>1, <1>2, <1>3

\* A step that completes no request keeps every order's count.
LEMMA FewerCompleted ==
    ASSUME OrderInv, RefundsCounted, refundedAmount' = refundedAmount,
           \A p \in Payments : Completed(p)' \subseteq Completed(p)
    PROVE  RefundsCounted'
<1> SUFFICES ASSUME NEW p \in Payments
             PROVE  SumFunctionOnSet(AmountOf, Completed(p)') <= refundedAmount[p]
    BY DEF RefundsCounted
<1>1. /\ IsFiniteSet(Completed(p)) /\ refundedAmount[p] \in Nat
      /\ \A r \in Completed(p) : AmountOf[r] \in Nat
      /\ SumFunctionOnSet(AmountOf, Completed(p)) \in Nat
      /\ SumFunctionOnSet(AmountOf, Completed(p)) <= refundedAmount[p]
    BY CompletedNat DEF RefundsCounted
<1>2. \A T \in SUBSET Completed(p) :
          /\ SumFunctionOnSet(AmountOf, T) <= SumFunctionOnSet(AmountOf, Completed(p))
          /\ SumFunctionOnSet(AmountOf, T) \in Nat
    BY <1>1, FS_Subset, SumSubset, SumNat
<1>3. \A a, b, c \in Nat : a <= b /\ b <= c => a <= c
    OBVIOUS
<1> QED
    BY <1>1, <1>2, <1>3

\* The transaction of the only review adds its amount to what is there.
LEMMA CompletionCounts ==
    ASSUME OrderInv, CountedInv, NEW v \in Reviews, RefundTx(v)
    PROVE  RefundsCounted'
<1>0. review[v] \in Review /\ review[v].at = "tx"
    BY DEF RefundTx, OrderInv, TypeOK
<1>1. PICK r \in Refunds, q \in Payments : r = review[v].req /\ q = OrderOf[r]
    BY <1>0, ReviewShape, RefundAssumption
<1>2. /\ refundStatus' = [refundStatus EXCEPT ![r] = "completed"]
      /\ refundedAmount' = [refundedAmount EXCEPT ![q] = review[v].read + AmountOf[r]]
      /\ review[v].read = refundedAmount[q]
    BY <1>0, <1>1 DEF RefundTx, CountedInv
<1>3. /\ refundStatus \in [Refunds -> RefundStatus]
      /\ refundedAmount \in [Payments -> Nat]
    BY DEF OrderInv, TypeOK
<1>4. Completed(q)' = Completed(q) \union {r} /\ refundedAmount'[q] = refundedAmount[q] + AmountOf[r]
    BY <1>1, <1>2, <1>3 DEF Completed
<1>5. ASSUME NEW p \in Payments, p # q
      PROVE  Completed(p)' = Completed(p) /\ refundedAmount'[p] = refundedAmount[p]
    BY <1>1, <1>2, <1>3, <1>5 DEF Completed
<1>6. SumFunctionOnSet(AmountOf, Completed(q) \union {r})
        <= SumFunctionOnSet(AmountOf, Completed(q)) + AmountOf[r]
    BY <1>1, CompletedNat, SumPut
<1>7. SumFunctionOnSet(AmountOf, Completed(q) \union {r}) \in Nat
  <2>1. IsFiniteSet(Completed(q) \union {r})
      BY <1>1, CompletedNat, FS_AddElement
  <2>2. \A x \in Completed(q) \union {r} : AmountOf[x] \in Nat
      BY <1>1, CompletedNat
  <2> QED
      BY <2>1, <2>2, SumNat
<1>8. SumFunctionOnSet(AmountOf, Completed(q)') <= refundedAmount'[q]
  <2>1. \A a, b, c, n \in Nat : a <= b + n /\ b <= c => a <= c + n
      OBVIOUS
  <2>2. SumFunctionOnSet(AmountOf, Completed(q)) <= refundedAmount[q]
      BY <1>1 DEF CountedInv, RefundsCounted
  <2>3. SumFunctionOnSet(AmountOf, Completed(q) \union {r}) <= refundedAmount[q] + AmountOf[r]
      BY <1>1, <1>6, <1>7, <2>1, <2>2, CompletedNat
  <2> QED
      BY <1>4, <2>3
<1>9. ASSUME NEW p \in Payments
      PROVE  SumFunctionOnSet(AmountOf, Completed(p)') <= refundedAmount'[p]
  <2>1. CASE p = q
      BY <1>8, <2>1
  <2>2. CASE p # q
    <3>1. SumFunctionOnSet(AmountOf, Completed(p)) <= refundedAmount[p]
        BY DEF CountedInv, RefundsCounted
    <3> QED
        BY <1>5, <2>2, <3>1
  <2> QED
      BY <2>1, <2>2
<1> QED
    BY <1>9 DEF RefundsCounted

\* With one review at a time the order's refunded amount counts every completed
\* refund, whatever dies, fails or is refunded directly in between.
THEOREM SerialRefundsAreCounted ==
    ASSUME \A v, w \in Reviews : v = w
    PROVE  Spec => []RefundsCounted
<1>1. Init => CountedInv
  <2> SUFFICES ASSUME Init PROVE CountedInv
      OBVIOUS
  <2>1. \A p \in Payments : Completed(p) = {} /\ refundedAmount[p] = 0
      BY DEF Init, Completed
  <2>2. RefundsCounted
      BY <2>1, SumEmpty DEF RefundsCounted
  <2> QED
      BY <2>2 DEF Init, CountedInv, NoReview
<1>2. OrderInv /\ CountedInv /\ [Next]_vars => CountedInv'
  <2> SUFFICES ASSUME OrderInv, CountedInv, [Next]_vars PROVE CountedInv'
      OBVIOUS
  <2>0. /\ refundStatus \in [Refunds -> RefundStatus]
        /\ review \in [Reviews -> Review] /\ submitting \subseteq Refunds
        /\ \A r \in submitting : refundStatus[r] = "none"
      BY DEF OrderInv, TypeOK
  <2> DEFINE NoneCompleted == \A p \in Payments : Completed(p)' \subseteq Completed(p)
             ReadIsCurrent == \A v \in Reviews :
                review[v].at \in {"gateway", "tx"}
                    => review[v].read = refundedAmount[OrderOf[review[v].req]]
  <2>a. ASSUME NoneCompleted, refundedAmount' = refundedAmount, ReadIsCurrent'
        PROVE  CountedInv'
      BY <2>a, FewerCompleted DEF CountedInv
  <2>b. refundStatus' = refundStatus => NoneCompleted
      BY DEF Completed
  <2>c. ASSUME NEW r, NEW s, s # "completed",
               refundStatus' = [refundStatus EXCEPT ![r] = s]
        PROVE  NoneCompleted
      BY <2>0, <2>c DEF Completed
  <2>d. UNCHANGED <<review, refundedAmount>> => ReadIsCurrent'
      BY DEF CountedInv
  \* The one review there is goes where it has nothing read, or keeps it.
  <2>e. ASSUME NEW v \in Reviews, NEW e,
               \/ e.at \notin {"gateway", "tx"}
               \/ e.read = refundedAmount[OrderOf[e.req]]
        PROVE  review' = [review EXCEPT ![v] = e] /\ refundedAmount' = refundedAmount
                 => ReadIsCurrent'
    <3>1. \A w \in Reviews : w = v
        OBVIOUS
    <3> QED
        BY <2>0, <2>e, <3>1
  <2>1. CASE UNCHANGED refundVars
      BY <2>1, <2>a, <2>b, <2>d DEF refundVars
  <2>2. ASSUME NEW r \in Refunds, CheckSubmit(r) \/ CreateRequest(r)
        PROVE  CountedInv'
    <3>1. UNCHANGED <<review, refundedAmount>>
        BY <2>2 DEF CheckSubmit, CreateRequest
    <3>2. NoneCompleted
        BY <2>2, <2>b, <2>c DEF CheckSubmit, CreateRequest
    <3> QED
        BY <2>a, <2>d, <3>1, <3>2
  <2>3. ASSUME NEW v \in Reviews,
               \/ \E r \in Refunds : ReadRequest(v, r)
               \/ Approve(v) \/ Reject(v) \/ Process(v) \/ ProcessUnwritten(v)
               \/ GatewayRefuses(v) \/ RefundTxFails(v)
               \/ MarkRefundFailed(v) \/ ReviewDies(v) \/ DirectUpdate(v)
               \/ DirectGateway(v)
               \/ \E p \in Payments : \E n \in 1 .. Price[p] : DirectRead(v, p, n)
        PROVE  CountedInv'
    <3>1. refundedAmount' = refundedAmount
        BY <2>3 DEF ReadRequest, Approve, Reject, Process, ProcessUnwritten,
           GatewayRefuses, RefundTxFails, MarkRefundFailed,
           ReviewDies, DirectUpdate, DirectGateway, DirectRead
    <3>2. \A b : review[v].at \in {"approve", "process"} =>
             [review[v] EXCEPT !.at = b] = [at |-> b, req |-> review[v].req]
        BY <2>0, ReviewShape, MovesOn
    <3>3. \E e : /\ e.at \notin {"gateway", "tx"}
                 /\ review' = [review EXCEPT ![v] = e]
      <4>1. CASE Approve(v) \/ Process(v) \/ ProcessUnwritten(v)
          BY <3>2, <4>1 DEF Approve, Process, ProcessUnwritten, Goto
      <4>2. CASE Reject(v) \/ MarkRefundFailed(v) \/ ReviewDies(v) \/ DirectUpdate(v)
                 \/ DirectGateway(v)
          BY <4>2 DEF Reject, MarkRefundFailed, ReviewDies, DirectUpdate,
             DirectGateway, Goto, NoReview
      <4>3. CASE GatewayRefuses(v) \/ RefundTxFails(v)
          BY <4>3 DEF GatewayRefuses, RefundTxFails, Goto
      <4>4. ASSUME NEW r \in Refunds, ReadRequest(v, r)
            PROVE  \E e : /\ e.at \notin {"gateway", "tx"}
                          /\ review' = [review EXCEPT ![v] = e]
          BY <4>4 DEF ReadRequest, Goto
      <4>5. ASSUME NEW p \in Payments, NEW n \in 1 .. Price[p], DirectRead(v, p, n)
            PROVE  \E e : /\ e.at \notin {"gateway", "tx"}
                          /\ review' = [review EXCEPT ![v] = e]
          BY <4>5 DEF DirectRead, Goto
      <4> QED
          BY <2>3, <4>1, <4>2, <4>3, <4>4, <4>5
    <3>4. ReadIsCurrent'
        BY <2>e, <3>1, <3>3
    <3>5. NoneCompleted
      <4>1. \/ refundStatus' = refundStatus
            \/ \E r, s : /\ s # "completed"
                         /\ refundStatus' = [refundStatus EXCEPT ![r] = s]
          BY <2>3 DEF ReadRequest, Approve, Reject, Process, ProcessUnwritten,
             GatewayRefuses, RefundTxFails, MarkRefundFailed,
             ReviewDies, DirectUpdate, DirectGateway, DirectRead
      <4> QED
          BY <2>b, <2>c, <4>1
    <3> QED
        BY <2>a, <3>1, <3>4, <3>5
  <2>4. ASSUME NEW v \in Reviews, LoadPayment(v)
        PROVE  CountedInv'
    <3>1. UNCHANGED <<refundStatus, refundedAmount>>
        BY <2>4 DEF LoadPayment
    <3>2. \E e : /\ review' = [review EXCEPT ![v] = e]
                 /\ \/ e.at \notin {"gateway", "tx"}
                    \/ e.read = refundedAmount[OrderOf[e.req]]
        BY <2>4 DEF LoadPayment, Goto
    <3>3. ReadIsCurrent'
        BY <2>e, <3>1, <3>2
    <3> QED
        BY <2>a, <2>b, <3>1, <3>3
  <2>5. ASSUME NEW v \in Reviews, GatewayAccepts(v) \/ GatewayFails(v)
        PROVE  CountedInv'
    <3> DEFINE e == [at |-> "tx", req |-> review[v].req, read |-> review[v].read]
    <3>1. UNCHANGED <<refundStatus, refundedAmount>> /\ review[v].at = "gateway"
        BY <2>5 DEF GatewayAccepts, GatewayFails
    <3>2. [review[v] EXCEPT !.at = "tx"] = e
        BY <2>0, <3>1, ReviewShape, MovesOn
    <3>3. review' = [review EXCEPT ![v] = e]
        BY <2>5, <3>2 DEF GatewayAccepts, GatewayFails, Goto
    <3>4. e.read = refundedAmount[OrderOf[e.req]]
        BY <3>1 DEF CountedInv
    <3> HIDE DEF e
    <3>5. ReadIsCurrent'
        BY <2>e, <3>1, <3>3, <3>4
    <3> QED
        BY <2>a, <2>b, <3>1, <3>5
  <2>6. ASSUME NEW v \in Reviews, RefundTx(v)
        PROVE  CountedInv'
    <3>1. RefundsCounted'
        BY <2>6, CompletionCounts
    <3>2. review' = [review EXCEPT ![v] = NoReview] /\ NoReview.at = "idle"
        BY <2>6 DEF RefundTx, Goto, NoReview
    <3>3. \A w \in Reviews : w = v
        OBVIOUS
    <3>4. \A w \in Reviews : review'[w].at = "idle"
        BY <2>0, <3>2, <3>3
    <3> QED
        BY <3>1, <3>4 DEF CountedInv
  <2>7. CASE UNCHANGED vars
      BY <2>1, <2>7 DEF vars
  <2> QED
      BY <2>1, <2>2, <2>3, <2>4, <2>5, <2>6, <2>7 DEF Next, Execute
<1>3. CountedInv => RefundsCounted
    BY DEF CountedInv
<1> QED
    BY <1>1, <1>2, <1>3, OrderInvariance, PTL DEF Spec

=============================================================================
