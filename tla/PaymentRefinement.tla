------------------------- MODULE PaymentRefinement -------------------------
(***************************************************************************)
(* The back end implements OrderLifecycle, and payment and order never     *)
(* contradict each other, as long as at most one transaction is aborted:   *)
(* with two, markPaymentAndOrderAsFailed can fail the order alone.         *)
(***************************************************************************)
EXTENDS PaymentFlowProofs

OneDbError == MaxDbErrors <= 1

\* A failed order has a failed payment.  A request about to write the order
\* alone has a payment with a verdict, or the one allowed fault still to come
\* has been spent.
FailedTogether == \A o \in Orders : order[o] = "PaymentFailed" => payment[o] = "Failed"

Fallbacks ==
    \A r \in Requests :
        /\ pc[r] = "fbPayment" => payment[on[r]] \in PaymentOver \/ dbErrors >= 1
        /\ pc[r] = "fbOrder" => payment[on[r]] \in PaymentOver

AgreeInv == IInv /\ FailedTogether /\ Fallbacks

-----------------------------------------------------------------------------
(* Each step of OrderLifecycle, from what the code writes                  *)

\* A step that moves no status and no money is no step.
LEMMA StutterIntro ==
  ASSUME UNCHANGED <<order, payment>>,
         \A q \in Orders : Charged(q)' = Charged(q) /\ (gateway'[q] = "Refunded") = (gateway[q] = "Refunded")
  PROVE  UNCHANGED Lifecycle!vars
BY DEF Lifecycle!vars, Charged

\* Taking the money is a Charge.
LEMMA ChargeIntro ==
  ASSUME NEW o \in Orders, GateTypes, UNCHANGED <<order, payment>>,
         gateway' = [gateway EXCEPT ![o] = "Captured"], ~Charged(o),
         payment[o] \in {"Processing", "Failed"}
  PROVE  Lifecycle!Charge(o)
BY DEF Lifecycle!Charge, Charged, GateTypes

\* Returning it is a GiveBack.
LEMMA GiveBackIntro ==
  ASSUME NEW o \in Orders, GateTypes, UNCHANGED <<order, payment>>,
         gateway' = [gateway EXCEPT ![o] = "Refunded"], gateway[o] = "Captured"
  PROVE  Lifecycle!GiveBack(o)
<1>1. \A q \in Orders : Charged(q)' = Charged(q)
  BY DEF Charged, GateTypes
<1>2. [q \in Orders |-> gateway[q] \in {"Captured", "Refunded"}]'
        = [q \in Orders |-> gateway[q] \in {"Captured", "Refunded"}]
  BY <1>1 DEF Charged
<1>3. [q \in Orders |-> gateway[q] = "Refunded"]'
        = [[q \in Orders |-> gateway[q] = "Refunded"] EXCEPT ![o] = TRUE]
  BY DEF GateTypes
<1>4. QED BY <1>2, <1>3 DEF Lifecycle!GiveBack

\* The other steps leave the gateway alone.
LEMMA PlaceIntro ==
  ASSUME NEW o \in Orders, order[o] = "None", SetOrder(o, "PendingPayment"), UNCHANGED <<payment, gateway>>
  PROVE  Lifecycle!Place(o)
BY DEF Lifecycle!Place, SetOrder

\* Creating the payment of a waiting order is an Open.
LEMMA OpenIntro ==
  ASSUME NEW o \in Orders, order[o] = "PendingPayment", payment[o] = "None",
         SetPayment(o, "Pending"), UNCHANGED <<order, gateway>>
  PROVE  Lifecycle!Open(o)
BY DEF Lifecycle!Open, SetPayment

\* Handing it to the gateway is a Process.
LEMMA ProcessIntro ==
  ASSUME NEW o \in Orders, payment[o] = "Pending", SetPayment(o, "Processing"), UNCHANGED <<order, gateway>>
  PROVE  Lifecycle!Process(o)
BY DEF Lifecycle!Process, SetPayment

\* Completing payment and order together, after the charge, is a Confirm.
LEMMA ConfirmIntro ==
  ASSUME NEW o \in Orders, Charged(o), payment[o] = "Processing", order[o] = "PendingPayment",
         SetPayment(o, "Completed"), NEW s \in {"Paid", "Accepted"}, SetOrder(o, s), UNCHANGED gateway
  PROVE  Lifecycle!Confirm(o)
BY DEF Lifecycle!Confirm, SetPayment, SetOrder, Charged

\* Failing the payment, with its order or before it, is a Reject.
LEMMA RejectIntro ==
  ASSUME NEW o \in Orders, payment[o] \in {"Pending", "Processing"}, order[o] = "PendingPayment",
         SetPayment(o, "Failed"), SetOrder(o, "PaymentFailed") \/ UNCHANGED order, UNCHANGED gateway
  PROVE  Lifecycle!Reject(o)
BY DEF Lifecycle!Reject, SetPayment, SetOrder

\* Failing the order of a failed payment is a Follow.
LEMMA FollowIntro ==
  ASSUME NEW o \in Orders, payment[o] = "Failed", order[o] = "PendingPayment",
         SetOrder(o, "PaymentFailed"), UNCHANGED <<payment, gateway>>
  PROVE  Lifecycle!Follow(o)
BY DEF Lifecycle!Follow, SetOrder

\* A step of a confirmed order is an Advance.
LEMMA AdvanceIntro ==
  ASSUME NEW o \in Orders, payment[o] = "Completed", NEW s \in KitchenStatus,
         OrderCanMove(order[o], s), SetOrder(o, s), UNCHANGED <<payment, gateway>>
  PROVE  Lifecycle!Advance(o)
BY DEF Lifecycle!Advance, SetOrder, KitchenStatus, OrderCanMove, OrderMoves,
       Lifecycle!OrderCanMove, Lifecycle!OrderMoves

\* Marking a cancelled order refunded is a Return.
LEMMA ReturnIntro ==
  ASSUME NEW o \in Orders, gateway[o] = "Refunded", order[o] = "Cancelled",
         SetOrder(o, "Refunded"), UNCHANGED <<payment, gateway>>
  PROVE  Lifecycle!Return(o)
BY DEF Lifecycle!Return, SetOrder

-----------------------------------------------------------------------------
(* Each step of the code is a step of OrderLifecycle, or none              *)

Promise == [Lifecycle!Next]_(Lifecycle!vars)

\* Any of these steps, or no change of status and money, keeps the promise.
LEMMA PromiseIntro ==
  /\ UNCHANGED <<order, payment, gateway>> => Promise
  /\ \A o \in Orders :
        \/ Lifecycle!Place(o) \/ Lifecycle!Open(o) \/ Lifecycle!Process(o) \/ Lifecycle!Charge(o)
        \/ Lifecycle!GiveBack(o) \/ Lifecycle!Confirm(o) \/ Lifecycle!Reject(o)
        \/ Lifecycle!Follow(o) \/ Lifecycle!Advance(o) \/ Lifecycle!Return(o)
        => Promise
BY DEF Promise, Lifecycle!Next, Lifecycle!vars

\* What is known of one order at a step of the code.
LEMMA RowFacts ==
  ASSUME AgreeInv, NEW o \in Orders
  PROVE  /\ RowTypes /\ GateTypes
         /\ payment[o] \in {"None", "Pending", "Processing", "Completed", "Failed"}
         /\ payment[o] = "None" => order[o] \in {"None", "PendingPayment"} /\ ~Charged(o)
         /\ payment[o] = "Pending" => order[o] = "PendingPayment" /\ ~Charged(o)
         /\ payment[o] = "Processing" => order[o] = "PendingPayment"
         /\ payment[o] = "Completed" => order[o] \in Confirmed /\ Charged(o)
         /\ payment[o] = "Failed" => order[o] \in {"PendingPayment", "PaymentFailed"}
<1>1. RowTypes /\ GateTypes /\ RowOK(o) /\ (order[o] = "PaymentFailed" => payment[o] = "Failed")
  BY DEF AgreeInv, FailedTogether, IInv, TypeOK
<1>2. order[o] \in {"None", "PendingPayment", "PaymentFailed"} \cup Confirmed
  BY <1>1 DEF RowTypes, OrderStatus, Confirmed
<1>3. payment[o] \in {"None", "Pending", "Processing", "Completed", "Failed"}
  BY <1>1 DEF RowTypes, PaymentStatus
<1>4. payment[o] # "None" => order[o] # "None"
  BY <1>1 DEF RowOK, GatewayFollows
<1>5. QED BY <1>1, <1>2, <1>3, <1>4 DEF RowOK, GatewayFollows, Settled, Charged

\* The gateway's own progress is invisible, but for the charge, which comes
\* only after the payment was handed over, and the refund.
LEMMA GatewayPromise ==
  ASSUME AgreeInv, NEW o \in Orders, NEW g, SetGateway(o, g), UNCHANGED <<order, payment>>,
         \/ ~Charged(o) /\ g \notin {"Captured", "Refunded"}
         \/ ~Charged(o) /\ g = "Captured" /\ payment[o] \notin {"None", "Pending"}
         \/ gateway[o] = "Captured" /\ g = "Refunded"
  PROVE  Promise
<1>1. CASE ~Charged(o) /\ g \notin {"Captured", "Refunded"}
  <2>1. \A q \in Orders : Charged(q)' = Charged(q) /\ (gateway'[q] = "Refunded") = (gateway[q] = "Refunded")
    BY <1>1, RowFacts DEF SetGateway, Charged, GateTypes
  <2>2. QED BY <2>1, StutterIntro DEF Promise
<1>2. CASE ~Charged(o) /\ g = "Captured" /\ payment[o] \notin {"None", "Pending"}
  BY <1>2, RowFacts, ChargeIntro, PromiseIntro DEF SetGateway
<1>3. CASE gateway[o] = "Captured" /\ g = "Refunded"
  BY <1>3, RowFacts, GiveBackIntro, PromiseIntro DEF SetGateway
<1>4. QED BY <1>1, <1>2, <1>3

\* POST /payments charges nothing.
LEMMA CreatePromise ==
  ASSUME AgreeInv, NEW r \in Requests, Create(r)
  PROVE  Promise
<1>1. PICK o \in Orders : o = on[r]
  BY DEF AgreeInv, IInv, ReqOK, Busy, Create
<1>2. ReqOK(r) /\ RowOK(o) /\ UNCHANGED <<order, payment>>
  BY DEF AgreeInv, IInv, Create, dbVars
<1>3. CASE UNCHANGED gateway
  BY <1>2, <1>3, PromiseIntro
<1>4. CASE \E g : SetGateway(o, g) /\ g # "Refunded" /\ ~Charged(o) /\ (g = "Captured" => payment[o] \notin {"None", "Pending"})
  BY <1>2, <1>4, GatewayPromise
<1>5. QED
  BY <1>1, <1>2, <1>3, <1>4 DEF Create, ApiFails, gateVars, ReqOK, Opening, OpenSteps, HandedOver, RowOK, GatewayFollows, Charged

\* The PayPay execution charges nothing.
LEMMA ExecutePayPayPromise ==
  ASSUME AgreeInv, NEW r \in Requests, ExecutePayPay(r)
  PROVE  Promise
<1>1. PICK o \in Orders : o = on[r]
  BY DEF AgreeInv, IInv, ReqOK, Busy, ExecutePayPay
<1>2. ReqOK(r) /\ RowOK(o) /\ UNCHANGED <<order, payment>>
  BY DEF AgreeInv, IInv, ExecutePayPay, dbVars
<1>3. CASE UNCHANGED gateway
  BY <1>2, <1>3, PromiseIntro
<1>4. CASE \E g : SetGateway(o, g) /\ g # "Refunded" /\ ~Charged(o) /\ (g = "Captured" => payment[o] \notin {"None", "Pending"})
  BY <1>2, <1>4, GatewayPromise
<1>5. QED
  BY <1>1, <1>2, <1>3, <1>4 DEF ExecutePayPay, ApiFails, gateVars, ReqOK, Opening, HandedOver, RowOK, GatewayFollows, Charged

\* The card execution charges nothing.
LEMMA ExecuteCardPromise ==
  ASSUME AgreeInv, NEW r \in Requests, ExecuteCard(r)
  PROVE  Promise
<1>1. PICK o \in Orders : o = on[r]
  BY DEF AgreeInv, IInv, ReqOK, Busy, ExecuteCard
<1>2. ReqOK(r) /\ RowOK(o) /\ UNCHANGED <<order, payment>>
  BY DEF AgreeInv, IInv, ExecuteCard, dbVars
<1>3. CASE UNCHANGED gateway
  BY <1>2, <1>3, PromiseIntro
<1>4. CASE \E g : SetGateway(o, g) /\ g # "Refunded" /\ ~Charged(o) /\ (g = "Captured" => payment[o] \notin {"None", "Pending"})
  BY <1>2, <1>4, GatewayPromise
<1>5. QED
  BY <1>1, <1>2, <1>3, <1>4 DEF ExecuteCard, ApiFails, gateVars, ReqOK, Opening, HandedOver, RowOK, GatewayFollows, Charged

\* The authentication call charges nothing.
LEMMA AuthenticatePromise ==
  ASSUME AgreeInv, NEW r \in Requests, Authenticate(r)
  PROVE  Promise
<1>1. PICK o \in Orders : o = on[r]
  BY DEF AgreeInv, IInv, ReqOK, Busy, Authenticate
<1>2. ReqOK(r) /\ RowOK(o) /\ UNCHANGED <<order, payment>>
  BY DEF AgreeInv, IInv, Authenticate, dbVars
<1>3. CASE UNCHANGED gateway
  BY <1>2, <1>3, PromiseIntro
<1>4. CASE \E g : SetGateway(o, g) /\ g # "Refunded" /\ ~Charged(o) /\ (g = "Captured" => payment[o] \notin {"None", "Pending"})
  BY <1>2, <1>4, GatewayPromise
<1>5. QED
  BY <1>1, <1>2, <1>3, <1>4 DEF Authenticate, ApiFails, gateVars, ReqOK, Opening, HandedOver, RowOK, GatewayFollows, Charged

\* The capture is a Charge or nothing.
LEMMA CapturePromise ==
  ASSUME AgreeInv, NEW r \in Requests, Capture(r)
  PROVE  Promise
<1>1. PICK o \in Orders : o = on[r]
  BY DEF AgreeInv, IInv, ReqOK, Busy, Capture
<1>2. ReqOK(r) /\ RowOK(o) /\ UNCHANGED <<order, payment>>
  BY DEF AgreeInv, IInv, Capture, dbVars
<1>3. CASE UNCHANGED gateway
  BY <1>2, <1>3, PromiseIntro
<1>4. CASE \E g : SetGateway(o, g) /\ g # "Refunded" /\ ~Charged(o) /\ (g = "Captured" => payment[o] \notin {"None", "Pending"})
  BY <1>2, <1>4, GatewayPromise
<1>5. QED
  BY <1>1, <1>2, <1>3, <1>4 DEF Capture, ApiFails, gateVars, ReqOK, Opening, HandedOver, RowOK, GatewayFollows, Charged

\* The answer to a challenge moves no money.
LEMMA AnswerChallengePromise ==
  ASSUME AgreeInv, NEW o \in Orders, AnswerChallenge(o)
  PROVE  Promise
  BY RowFacts, GatewayPromise DEF AgreeInv, IInv, RowOK, GatewayFollows, AnswerChallenge, GatewayOnly, dbVars, Charged

\* The end of a PayPay session is a Charge or nothing.
LEMMA EndPayPayPromise ==
  ASSUME AgreeInv, NEW o \in Orders, EndPayPay(o)
  PROVE  Promise
  BY RowFacts, GatewayPromise DEF AgreeInv, IInv, RowOK, GatewayFollows, EndPayPay, GatewayOnly, dbVars, Charged

\* The refund at fincode is a GiveBack.
LEMMA RefundPromise ==
  ASSUME AgreeInv, NEW o \in Orders, Refund(o)
  PROVE  Promise
  BY RowFacts, GatewayPromise DEF AgreeInv, IInv, RowOK, GatewayFollows, Refund, GatewayOnly, dbVars, Charged

\* Opening and handing over.
LEMMA CheckoutPromise ==
  ASSUME AgreeInv, NEW r \in Requests, NEW o \in Orders, Checkout(r, o)
  PROVE  Promise
BY PlaceIntro, PromiseIntro DEF Checkout, gateVars

\* PaymentService::initiate is an Open.
LEMMA InitiatePromise ==
  ASSUME AgreeInv, NEW r \in Requests, Initiate(r)
  PROVE  Promise
<1>1. PICK o \in Orders : o = on[r]
  BY DEF AgreeInv, IInv, ReqOK, Busy, Initiate
<1>2. ReqOK(r)
  BY DEF AgreeInv, IInv
<1>3. QED BY <1>1, <1>2, OpenIntro, PromiseIntro DEF Initiate, ReqOK, Opening, gateVars

\* Storing the id hands a PayPay payment over: a Process.
LEMMA SavePromise ==
  ASSUME AgreeInv, NEW r \in Requests, Save(r)
  PROVE  Promise
<1>1. PICK o \in Orders : o = on[r]
  BY DEF AgreeInv, IInv, ReqOK, Busy, Save
<1>2. ReqOK(r)
  BY DEF AgreeInv, IInv
<1>3. QED BY <1>1, <1>2, ProcessIntro, PromiseIntro DEF Save, ReqOK, Opening, gateVars

\* markProcessing is a Process.
LEMMA MarkProcessingPromise ==
  ASSUME AgreeInv, NEW r \in Requests, MarkProcessing(r)
  PROVE  Promise
<1>1. PICK o \in Orders : o = on[r]
  BY DEF AgreeInv, IInv, ReqOK, Busy, MarkProcessing
<1>2. ReqOK(r)
  BY DEF AgreeInv, IInv
<1>3. payment[o] = "Processing" /\ SetPayment(o, "Processing") => UNCHANGED payment
  BY RowFacts DEF SetPayment, RowTypes
<1>4. QED BY <1>1, <1>2, <1>3, ProcessIntro, PromiseIntro DEF MarkProcessing, PaymentAccepts,
  PaymentCanMove, PaymentMoves, gateVars

\* The callback marks the payment Processing, a Process, or writes nothing.
LEMMA CallbackPromise ==
  ASSUME AgreeInv, NEW r \in Requests, NEW o \in Orders, NEW step, Callback(r, o, step)
  PROVE  Promise
<1>1. payment[o] = "Processing" /\ SetPayment(o, "Processing") => UNCHANGED payment
  BY RowFacts DEF SetPayment, RowTypes
<1>2. QED BY <1>1, RowFacts, ProcessIntro, PromiseIntro DEF Callback, PaymentOver, gateVars

\* Verdicts.
LEMMA SettlePromise ==
  ASSUME AgreeInv, NEW r \in Requests, Complete(r) \/ Confirm(r)
  PROVE  Promise
<1>1. PICK o \in Orders : o = on[r]
  BY DEF AgreeInv, IInv, ReqOK, Busy, Complete, Confirm, Settle
<1>2. ReqOK(r)
  BY DEF AgreeInv, IInv
<1>3. QED BY <1>1, <1>2, RowFacts, ConfirmIntro, PromiseIntro DEF Complete, Confirm, Settle,
  ReqOK, HandedOver, PaymentAccepts, PaymentCanMove, PaymentMoves, OrderCanMove, OrderMoves, Confirmed, gateVars

\* Failing both rows is a Reject, a Follow or nothing.
LEMMA RejectBothPromise ==
  ASSUME AgreeInv, NEW r \in Requests, Reject(r) \/ Deny(r) \/ RefuseSavedCard(r)
  PROVE  Promise
<1>1. PICK o \in Orders : o = on[r]
  BY DEF AgreeInv, IInv, ReqOK, Busy, Reject, Deny, RefuseSavedCard, RejectBoth
<1>2. ReqOK(r)
  BY DEF AgreeInv, IInv
<1>3. payment[o] = "Failed" /\ SetPayment(o, "Failed") => UNCHANGED payment
  BY RowFacts DEF SetPayment, RowTypes
<1>4. QED BY <1>1, <1>2, <1>3, RowFacts, RejectIntro, FollowIntro, PromiseIntro DEF Reject, Deny, RefuseSavedCard, RejectBoth, PaymentAccepts,
  PaymentCanMove, PaymentMoves, OrderCanMove, OrderMoves, gateVars

\* markPaymentAndOrderAsFailed is a Reject, a Follow or nothing.
LEMMA FailPromise ==
  ASSUME AgreeInv, NEW r \in Requests, Fail(r)
  PROVE  Promise
<1>1. PICK o \in Orders : o = on[r]
  BY DEF AgreeInv, IInv, ReqOK, Busy, Fail
<1>2. ReqOK(r)
  BY DEF AgreeInv, IInv
<1>3. payment[o] = "Failed" /\ SetPayment(o, "Failed") => UNCHANGED payment
  BY RowFacts DEF SetPayment, RowTypes
<1>4. QED BY <1>1, <1>2, <1>3, RowFacts, RejectIntro, FollowIntro, PromiseIntro DEF Fail, OrderFollows, PaymentAccepts,
  PaymentCanMove, PaymentMoves, OrderCanMove, OrderMoves, gateVars

\* The first fallback is a Reject of the payment, or nothing.
LEMMA FallbackPaymentPromise ==
  ASSUME AgreeInv, NEW r \in Requests, FallbackPayment(r)
  PROVE  Promise
<1>1. PICK o \in Orders : o = on[r]
  BY DEF AgreeInv, IInv, ReqOK, Busy, FallbackPayment
<1>2. ReqOK(r)
  BY DEF AgreeInv, IInv
<1>3. QED BY <1>1, <1>2, RowFacts, RejectIntro, PromiseIntro DEF FallbackPayment, PaymentOver,
  ReqOK, HandedOver, gateVars

\* The second fallback is a Follow: the payment has failed before it.
LEMMA FallbackOrderPromise ==
  ASSUME AgreeInv, NEW r \in Requests, FallbackOrder(r)
  PROVE  Promise
<1>1. PICK o \in Orders : o = on[r]
  BY DEF AgreeInv, IInv, ReqOK, Busy, FallbackOrder
<1>2. ReqOK(r)
  BY DEF AgreeInv, IInv
<1>3. payment[o] \in PaymentOver
  BY <1>1 DEF AgreeInv, Fallbacks, FallbackOrder
<1>4. QED BY <1>1, <1>3, RowFacts, FollowIntro, PromiseIntro DEF FallbackOrder, OrderFollows, PaymentOver,
  Confirmed, gateVars

\* Webhooks.
LEMMA CompletedPromise ==
  ASSUME AgreeInv, NEW o \in Orders, NEW e \in CompletedEvents, HandleCompleted(o, e), Charged(o), UNCHANGED gateway
  PROVE  Promise
<1>1. payment[o] = "Completed" /\ SetPayment(o, "Completed") => UNCHANGED payment
  BY RowFacts DEF SetPayment, RowTypes
<1>2. OrderCanMove("Paid", "Accepted") /\ "Accepted" \in KitchenStatus
  BY DEF OrderCanMove, OrderMoves, KitchenStatus
<1>3. QED BY <1>1, <1>2, RowFacts, ConfirmIntro, AdvanceIntro, PromiseIntro DEF HandleCompleted,
  PaymentAccepts, PaymentCanMove, PaymentMoves, Confirmed

\* A failed event is a Reject, a Follow or nothing.
LEMMA FailedPromise ==
  ASSUME AgreeInv, NEW o \in Orders, NEW e \in FailedEvents, HandleFailed(o, e), linked[o], UNCHANGED gateway
  PROVE  Promise
<1>1. payment[o] # "None"
  BY DEF AgreeInv, IInv, RowOK, GatewayFollows
<1>2. QED BY <1>1, RowFacts, RejectIntro, FollowIntro, PromiseIntro DEF HandleFailed,
  OrderFollows, PaymentOver, Confirmed

\* Each handler of an event is one step of the promise or none.
LEMMA ProcessEventPromise ==
  ASSUME AgreeInv, NEW o \in Orders, NEW e \in Events, job[o][e] # "none", ProcessEvent(o, e), UNCHANGED gateway
  PROVE  Promise
<1>1. (e \in CompletedEvents => Charged(o)) /\ (e = "payment.refunded" => gateway[o] = "Refunded")
  BY DEF AgreeInv, IInv, EventOK, SentOK
<1>2. e = "payment.refunded" /\ HandleRefunded(o, e) => Promise
  BY <1>1, ReturnIntro, PromiseIntro DEF HandleRefunded
<1>3. QED BY <1>1, <1>2, CompletedPromise, FailedPromise, PromiseIntro DEF ProcessEvent, CompletedEvents, FailedEvents

\* The kitchen and the customer make Advances.
LEMMA KitchenPromise ==
  ASSUME AgreeInv, NEW o \in Orders, NEW s \in KitchenStatus, Kitchen(o, s)
  PROVE  Promise
<1>1. payment[o] = "Completed"
  BY RowFacts DEF Kitchen, OrderCanMove, OrderMoves, KitchenStatus
<1>2. QED BY <1>1, AdvanceIntro, PromiseIntro DEF Kitchen, gateVars

-----------------------------------------------------------------------------
(* All steps together                                                      *)

\* Every step of the code is a step of the promise or none.
LEMMA NextPromise ==
  ASSUME AgreeInv, [Next]_vars
  PROVE  Promise
<1>1. CASE \E r \in Requests, o \in Orders : RequestEntry(r, o)
  BY <1>1, CheckoutPromise, CallbackPromise, PromiseIntro DEF RequestEntry, FinalizeConfirm,
     FinalizeCard, dbVars, gateVars
<1>2. CASE \E r \in Requests : RequestStep(r)
  <2>1. ASSUME NEW r \in Requests, CardNotSaved(r) \/ GetPayment(r) \/ AuthenticationResult(r)
        PROVE  Promise
    BY <2>1, PromiseIntro DEF CardNotSaved, GetPayment, AuthenticationResult, ApiFails, dbVars, gateVars
  <2>2. QED
    BY <1>2, <2>1, InitiatePromise, CreatePromise, ExecutePayPayPromise,
       SavePromise, MarkProcessingPromise, ExecuteCardPromise, AuthenticatePromise, CapturePromise,
       SettlePromise, RejectBothPromise, FailPromise, FallbackPaymentPromise, FallbackOrderPromise
       DEF RequestStep
<1>3. CASE \E r \in Requests : DbError(r) \/ Crash(r)
  BY <1>3, PromiseIntro DEF DbError, Crash, dbVars, gateVars
<1>4. CASE \E o \in Orders, e \in Events : WebhookStep(o, e) \/ Fault(o, e)
  <2>1. ASSUME NEW o \in Orders, NEW e \in Events, RunJob(o, e) \/ RepeatJob(o, e)
        PROVE  Promise
    BY <2>1, ProcessEventPromise DEF RunJob, RepeatJob, CanAttempt, gateVars
  <2>2. ASSUME NEW o \in Orders, NEW e \in Events,
               \/ Receive(o, e) \/ Dispatch(o, e) \/ GiveUp(o, e)
               \/ LoseDispatch(o, e) \/ RetryJob(o, e)
        PROVE  Promise
    BY <2>2, PromiseIntro DEF Receive, Dispatch, GiveUp, LoseDispatch, RetryJob, dbVars, gateVars
  <2>3. QED BY <1>4, <2>1, <2>2 DEF WebhookStep, Fault
<1>5. CASE \E o \in Orders : \/ \E s \in KitchenStatus : Kitchen(o, s)
                            \/ AnswerChallenge(o) \/ EndPayPay(o) \/ Refund(o)
  BY <1>5, KitchenPromise, AnswerChallengePromise, EndPayPayPromise, RefundPromise
<1>6. CASE UNCHANGED vars
  BY <1>6, PromiseIntro DEF vars, dbVars, gateVars
<1>7. QED BY <1>1, <1>2, <1>3, <1>4, <1>5, <1>6 DEF Next

\* OrderLifecycle itself fails an order only with its payment, and a verdict
\* on a payment is final there.
LEMMA PromiseKeeps ==
  ASSUME RowTypes, FailedTogether, Promise
  PROVE  /\ FailedTogether'
         /\ \A o \in Orders : payment[o] \in PaymentOver => payment'[o] \in PaymentOver
<1>1. CASE UNCHANGED Lifecycle!vars
  BY <1>1 DEF Lifecycle!vars, FailedTogether
<1>2. ASSUME NEW o \in Orders,
             \/ Lifecycle!Place(o) \/ Lifecycle!Open(o) \/ Lifecycle!Process(o) \/ Lifecycle!Charge(o)
             \/ Lifecycle!GiveBack(o) \/ Lifecycle!Confirm(o)
      PROVE  FailedTogether' /\ \A q \in Orders : payment[q] \in PaymentOver => payment'[q] \in PaymentOver
  BY <1>2 DEF RowTypes, FailedTogether, PaymentOver, Lifecycle!Place, Lifecycle!Open, Lifecycle!Process,
     Lifecycle!Charge, Lifecycle!GiveBack, Lifecycle!Confirm
<1>3. ASSUME NEW o \in Orders,
             \/ Lifecycle!Reject(o) \/ Lifecycle!Follow(o) \/ Lifecycle!Advance(o) \/ Lifecycle!Return(o)
      PROVE  FailedTogether' /\ \A q \in Orders : payment[q] \in PaymentOver => payment'[q] \in PaymentOver
  BY <1>3 DEF RowTypes, FailedTogether, PaymentOver, Lifecycle!Reject, Lifecycle!Follow,
     Lifecycle!Advance, Lifecycle!Return
<1>4. QED BY <1>1, <1>2, <1>3 DEF Promise, Lifecycle!Next

\* Only three steps send a request to a fallback.
LEMMA FallbackEntry ==
  ASSUME TypeOK, [Next]_vars, NEW s \in Requests, pc'[s] \in {"fbPayment", "fbOrder"}
  PROVE  \/ pc'[s] = pc[s] /\ on'[s] = on[s] /\ dbErrors' >= dbErrors
         \/ Fail(s) \/ FallbackPayment(s) \/ DbError(s)
<1> USE BoundsAssumption DEF TypeOK, ReqTypes, FaultTypes
<1>1. CASE \E r \in Requests, o \in Orders : RequestEntry(r, o)
  BY <1>1 DEF RequestEntry, Checkout, FinalizeConfirm, FinalizeCard, Callback, Begin, Refuse, Finish, faultVars
<1>2. ASSUME NEW r \in Requests, RequestStep(r)
      PROVE  \/ pc'[s] = pc[s] /\ on'[s] = on[s] /\ dbErrors' >= dbErrors
             \/ Fail(s) \/ FallbackPayment(s)
  <2>1. CASE \/ Initiate(r) \/ Create(r) \/ ExecutePayPay(r) \/ Save(r)
             \/ CardNotSaved(r) \/ MarkProcessing(r) \/ ExecuteCard(r) \/ GetPayment(r)
    BY <2>1 DEF Initiate, Create, ExecutePayPay, Save, CardNotSaved, MarkProcessing,
       ExecuteCard, GetPayment, ApiFails, Goto, Finish, faultVars
  <2>2. CASE \/ Authenticate(r) \/ AuthenticationResult(r) \/ Capture(r)
             \/ Complete(r) \/ Confirm(r) \/ Reject(r) \/ Deny(r)
             \/ RefuseSavedCard(r) \/ FallbackOrder(r)
    BY <2>2 DEF Authenticate, AuthenticationResult, Capture, Complete, Confirm, Settle, Reject, Deny,
       RefuseSavedCard, RejectBoth, FallbackOrder, ApiFails, Goto, Finish, faultVars
  <2>3. CASE Fail(r) \/ FallbackPayment(r)
    BY <2>3 DEF Fail, FallbackPayment, Goto, Finish, faultVars
  <2>4. QED BY <1>2, <2>1, <2>2, <2>3 DEF RequestStep
<1>3. CASE \E r \in Requests : DbError(r) \/ Crash(r)
  BY <1>3 DEF DbError, Crash, Goto, Finish
<1>4. CASE \E o \in Orders, e \in Events : WebhookStep(o, e) \/ Fault(o, e)
  BY <1>4 DEF WebhookStep, Fault, Receive, Dispatch, RunJob, GiveUp, LoseDispatch, RetryJob, RepeatJob,
     reqVars, faultVars
<1>5. CASE \E o \in Orders : \/ \E t \in KitchenStatus : Kitchen(o, t)
                            \/ AnswerChallenge(o) \/ EndPayPay(o) \/ Refund(o)
  BY <1>5 DEF Kitchen, AnswerChallenge, EndPayPay, Refund, GatewayOnly, reqVars, faultVars
<1>6. CASE UNCHANGED vars
  BY <1>6 DEF vars, reqVars, faultVars
<1>7. QED BY <1>1, <1>2, <1>3, <1>4, <1>5, <1>6 DEF Next

\* What a request knows between its fallbacks stays true while others move.
LEMMA FallbacksKeep ==
  ASSUME AgreeInv, OneDbError, [Next]_vars, Promise
  PROVE  Fallbacks'
<1> SUFFICES ASSUME NEW s \in Requests
    PROVE  /\ pc'[s] = "fbPayment" => payment'[on'[s]] \in PaymentOver \/ dbErrors' >= 1
           /\ pc'[s] = "fbOrder" => payment'[on'[s]] \in PaymentOver
  BY DEF Fallbacks
<1>1. TypeOK /\ ReqOK(s) /\ dbErrors \in Nat
  BY BoundsAssumption DEF AgreeInv, IInv, TypeOK, FaultTypes
<1>2. \A o \in Orders : payment[o] \in PaymentOver => payment'[o] \in PaymentOver
  BY PromiseKeeps DEF AgreeInv, IInv, TypeOK
<1>3. CASE pc'[s] = pc[s] /\ on'[s] = on[s] /\ dbErrors' >= dbErrors
  <2>1. dbErrors' \in Nat
    BY NextOK, BoundsAssumption DEF AgreeInv, IInv, TypeOK, FaultTypes
  <2>2. QED BY <1>1, <1>2, <1>3, <2>1 DEF AgreeInv, Fallbacks, ReqOK, Busy
<1>4. CASE Fail(s)
  <2>1. PICK o \in Orders : o = on[s]
    BY <1>1, <1>4 DEF ReqOK, Busy, Fail
  <2>2. pc'[s] = "fbPayment" /\ on'[s] = o => payment[o] = "Completed"
    BY <1>1, <1>4, <2>1, RowFacts DEF Fail, Finish, PaymentAccepts, PaymentCanMove, PaymentMoves,
       ReqOK, HandedOver, TypeOK, ReqTypes
  <2>3. pc'[s] \in {"idle", "fbPayment"} /\ (pc'[s] = "fbPayment" => on'[s] = o)
    BY <1>1, <1>4, <2>1 DEF Fail, Goto, Finish, TypeOK, ReqTypes
  <2>4. QED BY <1>2, <2>1, <2>2, <2>3 DEF PaymentOver
<1>5. CASE FallbackPayment(s)
  BY <1>1, <1>5 DEF FallbackPayment, Goto, SetPayment, PaymentOver, ReqOK, Busy, TypeOK, ReqTypes, RowTypes
<1>6. CASE DbError(s)
  BY <1>1, <1>2, <1>6, BoundsAssumption DEF DbError, OneDbError, Goto, Finish, AgreeInv, Fallbacks, ReqOK, Busy,
     TypeOK, ReqTypes
<1>7. QED BY <1>1, <1>3, <1>4, <1>5, <1>6, FallbackEntry

\* The invariant with its additions is preserved.
LEMMA AgreeOK ==
  ASSUME OneDbError
  PROVE  /\ Init => AgreeInv
         /\ AgreeInv /\ [Next]_vars => AgreeInv' /\ Promise
<1>1. Init => AgreeInv
  BY InitOK DEF Init, AgreeInv, FailedTogether, Fallbacks
<1>2. AgreeInv /\ [Next]_vars => AgreeInv' /\ Promise
  <2> SUFFICES ASSUME AgreeInv, [Next]_vars PROVE AgreeInv' /\ Promise
    OBVIOUS
  <2>1. Promise
    BY NextPromise
  <2>2. IInv'
    BY NextOK DEF AgreeInv
  <2>3. FailedTogether'
    BY <2>1, PromiseKeeps DEF AgreeInv, IInv, TypeOK
  <2>4. Fallbacks'
    BY <2>1, FallbacksKeep
  <2>5. QED BY <2>1, <2>2, <2>3, <2>4 DEF AgreeInv
<1>3. QED BY <1>1, <1>2

\* What the rows of an order say of each other, of its payment at the gateway and
\* of the calls under way stays in step (the invariant behind the two theorems
\* below; markPaymentAndOrderAsFailed and its two fallbacks are the hard case).
THEOREM RowsStayInStep ==
  ASSUME OneDbError
  PROVE  Spec => []AgreeInv
BY AgreeOK, PTL DEF Spec

\* Payment and order never contradict each other.
THEOREM NeverDisagree ==
  ASSUME OneDbError
  PROVE  Spec => []RecordsAgree
<1>1. AgreeInv => RecordsAgree
  BY RowFacts DEF AgreeInv, IInv, RowOK, Settled, RecordsAgree, Confirmed
<1>2. QED BY <1>1, AgreeOK, PTL DEF Spec

\* Every behaviour of the back end is one OrderLifecycle allows.
THEOREM Refinement ==
  ASSUME OneDbError
  PROVE  Spec => KeepsPromise
<1>1. ASSUME Init PROVE Lifecycle!Init
  <2>1. \A o \in Orders : /\ (gateway[o] \in {"Captured", "Refunded"}) = FALSE
                          /\ (gateway[o] = "Refunded") = FALSE
    BY <1>1 DEF Init
  <2>2. [o \in Orders |-> gateway[o] \in {"Captured", "Refunded"}] = [o \in Orders |-> FALSE]
    BY <2>1
  <2>3. [o \in Orders |-> gateway[o] = "Refunded"] = [o \in Orders |-> FALSE]
    BY <2>1
  <2>4. QED BY <1>1, <2>2, <2>3 DEF Init, Lifecycle!Init
<1>2. QED BY <1>1, AgreeOK, PTL DEF Spec, KeepsPromise, Lifecycle!Spec, Promise
=============================================================================
