---------------------------- MODULE PaymentFlow ----------------------------
(***************************************************************************)
(* An order, its payment, the payment gateway (fincode) and the three      *)
(* actors that race on them:                                               *)
(*   - HTTP requests of the customer (checkout, finalize, 3DS callback),   *)
(*     each a sequence of transactions and gateway calls, any of which may *)
(*     fail or be the last thing the PHP process does;                     *)
(*   - the gateway's webhooks: log row, queued job, retries;               *)
(*   - the kitchen, which moves a confirmed order along.                   *)
(*                                                                         *)
(* A database transaction is one action: every status it reads is read     *)
(* under the row lock it writes with.  A gateway call is one action too,   *)
(* and the handling of its answer is another, so everything may happen in  *)
(* between.  CheckoutOrchestrator creates one payment per order, so the    *)
(* payment is named by its order.                                          *)
(***************************************************************************)
EXTENDS Naturals, Statuses

CONSTANTS
    Orders,         \* the orders that may be placed
    CardOrders,     \* those paid by card (the others are paid by PayPay)
    Requests,       \* slots for HTTP requests that run concurrently
    NoOrder,        \* what an idle slot works on
    Tries,          \* ProcessPaymentWebhookJob::$tries
    RepeatAnswers,  \* how the gateway answers a capture it already made
    MaxApiErrors,   \* bound: gateway calls that end in a FincodeApiException
    MaxCrashes,     \* bound: PHP processes killed half-way
    MaxDbErrors     \* bound: transactions aborted by the database

ASSUME OrdersAssumption == CardOrders \subseteq Orders /\ NoOrder \notin Orders
ASSUME TriesAssumption == Tries \in Nat \ {0}
ASSUME RepeatAssumption == RepeatAnswers \subseteq {"again", "error"}
ASSUME BoundsAssumption ==
    MaxApiErrors \in Nat /\ MaxCrashes \in Nat /\ MaxDbErrors \in Nat

VARIABLES
    order,          \* orders.status
    payment,        \* payments.status
    linked,         \* payments.fincode_id is stored
    announced,      \* how often PaymentCompleted was fired
    gateway,        \* the payment's state at fincode
    sent,           \* the webhook events fincode has sent (and resends)
    log,            \* webhook_logs, one row per order and event type
    job,            \* the queued ProcessPaymentWebhookJob of that row
    tries,          \* attempts that job has used up
    pc,             \* what each request does next
    on,             \* the order it works on
    reply,          \* what its last run answered
    apiErrors, crashes, dbErrors

dbVars     == <<order, payment, linked, announced>>
gateVars   == <<gateway, sent>>
hookVars   == <<log, job, tries>>
reqVars    == <<pc, on, reply>>
faultVars  == <<apiErrors, crashes, dbErrors>>
vars == <<dbVars, gateVars, hookVars, reqVars, faultVars>>

GatewayStates == {"None", "Unprocessed", "Awaiting", "Challenge",
                  "Authenticated", "Captured", "Error", "Refunded"}

\* The event types of WebhookService::SUPPORTED_EVENTS as handlePayPayEvent
\* tells them apart: paypay.exec carries an intermediate status, paypay.capture
\* and paypay.complete carry CAPTURED, paypay.failed any final failure.
Events == {"payment.completed", "payment.failed", "payment.refunded",
           "paypay.exec", "paypay.capture", "paypay.complete", "paypay.failed"}

CompletedEvents == {"payment.completed", "paypay.capture", "paypay.complete"}
FailedEvents    == {"payment.failed", "paypay.failed"}

DbSteps  == {"initiate", "save", "markProcessing", "complete", "confirm",
             "reject", "deny", "fail", "fbPayment", "fbOrder"}
ApiSteps == {"create", "execute", "exec", "auth", "authResult", "capture", "get"}
Steps    == {"idle"} \cup DbSteps \cup ApiSteps
Replies  == {"none", "success", "pending", "redirect", "error"}

Init ==
    /\ order     = [o \in Orders |-> "None"]
    /\ payment   = [o \in Orders |-> "None"]
    /\ linked    = [o \in Orders |-> FALSE]
    /\ announced = [o \in Orders |-> 0]
    /\ gateway   = [o \in Orders |-> "None"]
    /\ sent      = [o \in Orders |-> {}]
    /\ log       = [o \in Orders |-> [e \in Events |-> "none"]]
    /\ job       = [o \in Orders |-> [e \in Events |-> "none"]]
    /\ tries     = [o \in Orders |-> [e \in Events |-> 0]]
    /\ pc        = [r \in Requests |-> "idle"]
    /\ on        = [r \in Requests |-> NoOrder]
    /\ reply     = [r \in Requests |-> "none"]
    /\ apiErrors = 0 /\ crashes = 0 /\ dbErrors = 0

-----------------------------------------------------------------------------
(* Helpers                                                                 *)

\* Payment::transitionTo succeeds: it moves the row, or finds it there already.
PaymentAccepts(o, s) == payment[o] = s \/ PaymentCanMove(payment[o], s)

SetPayment(o, s) == payment' = [payment EXCEPT ![o] = s]
SetOrder(o, s)   == order' = [order EXCEPT ![o] = s]

Begin(r, o, step) ==
    /\ pc[r] = "idle"
    /\ pc'    = [pc EXCEPT ![r] = step]
    /\ on'    = [on EXCEPT ![r] = o]
    /\ reply' = [reply EXCEPT ![r] = "none"]

Goto(r, step) == pc' = [pc EXCEPT ![r] = step] /\ UNCHANGED <<on, reply>>

Finish(r, answer) ==
    /\ pc'    = [pc EXCEPT ![r] = "idle"]
    /\ on'    = [on EXCEPT ![r] = NoOrder]
    /\ reply' = [reply EXCEPT ![r] = answer]

\* The request is refused at its entry: nothing but its answer changes.
Refuse(r, answer) == pc[r] = "idle" /\ Finish(r, answer)

\* The gateway enters a state and sends the webhook that belongs to it.
EventOf(o, g) ==
    CASE g = "Captured" -> IF o \in CardOrders THEN {"payment.completed"} ELSE {"paypay.capture", "paypay.complete"}
      [] g = "Error"    -> IF o \in CardOrders THEN {"payment.failed"} ELSE {"paypay.failed"}
      [] g = "Refunded" -> {"payment.refunded"}
      [] g = "Awaiting" -> IF o \in CardOrders THEN {} ELSE {"paypay.exec"}
      [] OTHER          -> {}

SetGateway(o, g) ==
    /\ gateway' = [gateway EXCEPT ![o] = g]
    /\ sent'    = [sent EXCEPT ![o] = @ \cup EventOf(o, g)]

\* A call that ends in a FincodeApiException; handleFincodeException follows.
\* The gateway may or may not have acted on it (the states g of `effects`).
ApiFails(r, o, effects) ==
    /\ apiErrors < MaxApiErrors
    /\ apiErrors' = apiErrors + 1
    /\ \E g \in effects : IF g = gateway[o] THEN UNCHANGED gateVars ELSE SetGateway(o, g)
    /\ Goto(r, "fail")

-----------------------------------------------------------------------------
(* POST /checkout: CheckoutOrchestrator::processCheckout                   *)

\* The transaction that creates the order from the locked cart.
Checkout(r, o) ==
    /\ order[o] = "None"
    /\ SetOrder(o, "PendingPayment")
    /\ Begin(r, o, "initiate")
    /\ UNCHANGED <<payment, linked, announced, gateVars, hookVars, faultVars>>

\* PaymentService::initiate, its transaction: no second live payment.
Initiate(r) == LET o == on[r] IN
    /\ pc[r] = "initiate"
    /\ payment[o] \notin {"Pending", "Processing"}
    /\ SetPayment(o, "Pending")
    /\ Goto(r, "create")
    /\ UNCHANGED <<order, linked, announced, gateVars, hookVars, faultVars>>

\* createCardPaymentWith3ds / createPayPayPayment.
Create(r) == LET o == on[r] IN
    /\ pc[r] = "create"
    /\ \/ /\ SetGateway(o, "Unprocessed")
          /\ Goto(r, IF o \in CardOrders THEN "save" ELSE "execute")
          /\ UNCHANGED faultVars
       \/ /\ ApiFails(r, o, {"None", "Unprocessed"})
          /\ UNCHANGED <<crashes, dbErrors>>
    /\ UNCHANGED <<dbVars, hookVars>>

\* executePayPayPayment: the customer gets a link to approve the payment.
ExecutePayPay(r) == LET o == on[r] IN
    /\ pc[r] = "execute"
    /\ \/ SetGateway(o, "Awaiting") /\ Goto(r, "save") /\ UNCHANGED faultVars
       \/ ApiFails(r, o, {"Unprocessed", "Awaiting"}) /\ UNCHANGED <<crashes, dbErrors>>
    /\ UNCHANGED <<dbVars, hookVars>>

\* Mutant: PayPay keeps its payment Pending.
SaveKeepsPending(r) ==
    /\ pc[r] = "save"
    /\ linked' = [linked EXCEPT ![on[r]] = TRUE]
    /\ Finish(r, "redirect")
    /\ UNCHANGED <<payment, order, announced, gateVars, hookVars, faultVars>>

\* The gateway's ids are stored; PayPay moves to Processing with them.
Save(r) == LET o == on[r] IN
    /\ pc[r] = "save"
    /\ linked' = [linked EXCEPT ![o] = TRUE]
    /\ IF o \in CardOrders
       THEN UNCHANGED payment
       ELSE PaymentAccepts(o, "Processing") /\ SetPayment(o, "Processing")
    /\ Finish(r, "redirect")
    /\ UNCHANGED <<order, announced, gateVars, hookVars, faultVars>>

-----------------------------------------------------------------------------
(* POST /payments/finalize                                                 *)

\* Without a token: finalizePayment and PayPayPaymentService::confirm up to
\* the gateway call, on the status the request loaded when it came in.
FinalizeConfirm(r, o) ==
    /\ payment[o] # "None"
    /\ IF payment[o] \notin PaymentOver /\ linked[o]
       THEN Begin(r, o, "get")
       ELSE Refuse(r, IF payment[o] = "Completed" THEN "success" ELSE "error")
    /\ UNCHANGED <<dbVars, gateVars, hookVars, faultVars>>

\* With a token or a saved card: executePaymentFor3ds.
FinalizeCard(r, o) ==
    /\ o \in CardOrders /\ payment[o] # "None"
    /\ IF payment[o] \notin PaymentOver /\ linked[o]
       THEN Begin(r, o, "markProcessing")
       ELSE Refuse(r, "error")
    /\ UNCHANGED <<dbVars, gateVars, hookVars, faultVars>>

\* registerCardBeforePayment may consume the token and give up.
CardNotSaved(r) ==
    /\ pc[r] = "markProcessing"
    /\ Finish(r, "error")
    /\ UNCHANGED <<dbVars, gateVars, hookVars, faultVars>>

MarkProcessing(r) == LET o == on[r] IN
    /\ pc[r] = "markProcessing"
    /\ IF PaymentAccepts(o, "Processing")
       THEN SetPayment(o, "Processing") /\ Goto(r, "exec")
       ELSE UNCHANGED payment /\ Finish(r, "error")
    /\ UNCHANGED <<order, linked, announced, gateVars, hookVars, faultVars>>

\* executeCardPaymentFor3ds: the card is sent and the 3DS redirect comes back.
\* An answer without acs_url leaves the payment Processing.
ExecuteCard(r) == LET o == on[r] IN
    /\ pc[r] = "exec"
    /\ \/ /\ gateway[o] \in {"Unprocessed", "Awaiting"}
          /\ SetGateway(o, "Awaiting")
          /\ Finish(r, "redirect") \/ Finish(r, "error")
          /\ UNCHANGED faultVars
       \/ /\ gateway[o] \notin {"Unprocessed", "Awaiting"}
          /\ Goto(r, "fail")
          /\ UNCHANGED <<gateVars, faultVars>>
       \/ /\ ApiFails(r, o, {gateway[o]} \cup (IF gateway[o] = "Unprocessed" THEN {"Awaiting"} ELSE {}))
          /\ UNCHANGED <<crashes, dbErrors>>
    /\ UNCHANGED <<dbVars, hookVars>>

\* Mutant: an unfinished payment is polled until it is finished.
GetPaymentPolls(r) ==
    /\ pc[r] = "get"
    /\ CASE gateway[on[r]] = "Captured" -> Goto(r, "confirm")
         [] gateway[on[r]] \in {"Error", "Refunded"} -> Goto(r, "deny")
         [] OTHER -> Goto(r, "get")
    /\ UNCHANGED <<dbVars, gateVars, hookVars, faultVars>>

\* getPayment: CAPTURED confirms, a failure that toPaymentStatus knows rejects,
\* anything else (EXPIRED, too) is still pending.
GetPayment(r) == LET o == on[r] IN
    /\ pc[r] = "get"
    /\ \/ /\ \/ gateway[o] = "Captured" /\ Goto(r, "confirm")
             \/ gateway[o] \in {"Error", "Refunded"} /\ Goto(r, "deny")
             \/ gateway[o] \notin {"Captured", "Refunded"} /\ Finish(r, "pending")
          /\ UNCHANGED <<gateVars, faultVars>>
       \/ ApiFails(r, o, {gateway[o]}) /\ UNCHANGED <<crashes, dbErrors>>
    /\ UNCHANGED <<dbVars, hookVars>>

-----------------------------------------------------------------------------
(* The 3DS callback, from the signed web route or from the API             *)

\* The web route turns away a terminal payment; process3dsCallback then
\* re-reads it, answers success if a webhook completed it meanwhile, and
\* raises a Pending payment to Processing.  Without the gateway's access id
\* the payment is failed.
Callback(r, o, step) ==
    /\ o \in CardOrders /\ payment[o] # "None"
    /\ IF payment[o] \in PaymentOver
       THEN /\ \/ Refuse(r, "error")
               \/ payment[o] = "Completed" /\ Refuse(r, "success")
            /\ UNCHANGED payment
       ELSE /\ Begin(r, o, IF linked[o] THEN step ELSE "fail")
            /\ SetPayment(o, "Processing")
    /\ UNCHANGED <<order, linked, announced, gateVars, hookVars, faultVars>>

\* execute3dsAuthentication: authenticated, a challenge, or refused.
Authenticate(r) == LET o == on[r] IN
    /\ pc[r] = "auth"
    /\ \/ /\ gateway[o] = "Awaiting"
          /\ \/ SetGateway(o, "Authenticated") /\ Goto(r, "capture")
             \/ SetGateway(o, "Challenge") /\ Finish(r, "redirect")
             \/ SetGateway(o, "Error") /\ Goto(r, "reject")
          /\ UNCHANGED faultVars
       \/ /\ gateway[o] = "Challenge" /\ Finish(r, "redirect")
          /\ UNCHANGED <<gateVars, faultVars>>
       \/ /\ gateway[o] = "Authenticated" /\ Goto(r, "capture")
          /\ UNCHANGED <<gateVars, faultVars>>
       \/ /\ gateway[o] \in {"Unprocessed", "Captured", "Error", "Refunded"}
          /\ Goto(r, "fail")
          /\ UNCHANGED <<gateVars, faultVars>>
       \/ /\ ApiFails(r, o, {gateway[o]} \cup (IF gateway[o] = "Awaiting"
                                              THEN {"Authenticated", "Challenge", "Error"} ELSE {}))
          /\ UNCHANGED <<crashes, dbErrors>>
    /\ UNCHANGED <<dbVars, hookVars>>

\* Mutant: a passed authentication is taken for the charge.
AuthenticationIsCharge(r) ==
    /\ pc[r] = "authResult"
    /\ Goto(r, IF gateway[on[r]] \in {"Authenticated", "Captured"} THEN "complete" ELSE "reject")
    /\ UNCHANGED <<dbVars, gateVars, hookVars, faultVars>>

\* get3dsAuthenticationResult, after the challenge.
AuthenticationResult(r) == LET o == on[r] IN
    /\ pc[r] = "authResult"
    /\ \/ /\ Goto(r, IF gateway[o] \in {"Authenticated", "Captured"} THEN "capture" ELSE "reject")
          /\ UNCHANGED <<gateVars, faultVars>>
       \/ ApiFails(r, o, {gateway[o]}) /\ UNCHANGED <<crashes, dbErrors>>
    /\ UNCHANGED <<dbVars, hookVars>>

\* executePaymentAfter3ds.  A second capture of the same payment is answered
\* as the first or refused with a 4xx, as the gateway sees fit.
Capture(r) == LET o == on[r] IN
    /\ pc[r] = "capture"
    /\ \/ /\ gateway[o] = "Authenticated"
          /\ \/ SetGateway(o, "Captured") /\ Goto(r, "complete")
             \/ SetGateway(o, "Error") /\ Goto(r, "reject")
          /\ UNCHANGED faultVars
       \/ /\ gateway[o] = "Captured" /\ "again" \in RepeatAnswers
          /\ Goto(r, "complete")
          /\ UNCHANGED <<gateVars, faultVars>>
       \/ /\ \/ gateway[o] = "Captured" /\ "error" \in RepeatAnswers
             \/ gateway[o] \notin {"Authenticated", "Captured"}
          /\ Goto(r, "fail")
          /\ UNCHANGED <<gateVars, faultVars>>
       \/ /\ ApiFails(r, o, {gateway[o]} \cup (IF gateway[o] = "Authenticated"
                                              THEN {"Captured", "Error"} ELSE {}))
          /\ UNCHANGED <<crashes, dbErrors>>
    /\ UNCHANGED <<dbVars, hookVars>>

-----------------------------------------------------------------------------
(* What a request does with the gateway's answer: one transaction each     *)

\* completePaymentWithOrder, and confirm's transaction (which fires no event):
\* either write is refused, and both are rolled back, if a webhook was first.
Settle(r, step, events) == LET o == on[r] IN
    /\ pc[r] = step
    /\ IF PaymentAccepts(o, "Completed") /\ OrderCanMove(order[o], "Paid")
       THEN /\ SetPayment(o, "Completed") /\ SetOrder(o, "Paid")
            /\ announced' = [announced EXCEPT ![o] = @ + events]
            /\ Finish(r, "success")
       ELSE /\ UNCHANGED <<order, payment, announced>>
            /\ Finish(r, "error")
    /\ UNCHANGED <<linked, gateVars, hookVars, faultVars>>

Complete(r) == Settle(r, "complete", 1)
Confirm(r)  == Settle(r, "confirm", 0)

\* failPaymentWithOrder, and confirm's other transaction, after which
\* finalizePayment answers that the payment is still pending.
RejectBoth(r, step, answer) == LET o == on[r] IN
    /\ pc[r] = step
    /\ IF PaymentAccepts(o, "Failed") /\ OrderCanMove(order[o], "PaymentFailed")
       THEN SetPayment(o, "Failed") /\ SetOrder(o, "PaymentFailed") /\ Finish(r, answer)
       ELSE UNCHANGED <<order, payment>> /\ Finish(r, "error")
    /\ UNCHANGED <<linked, announced, gateVars, hookVars, faultVars>>

Reject(r) == RejectBoth(r, "reject", "error")
Deny(r)   == RejectBoth(r, "deny", "pending")

\* resolveAccessibleSavedCard refuses a card of another user or tenant before
\* the gateway hears of the payment, and fails payment and order at once.
RefuseSavedCard(r) == on[r] \in CardOrders /\ RejectBoth(r, "create", "error")

\* Mutants: the order fails without a look at its status, or gets the status
\* of the payment.
OrderFollowsAlways(o) == SetOrder(o, "PaymentFailed")
OrderFollowsWord(o) ==
    IF order[o] = "PendingPayment" THEN SetOrder(o, "Failed") ELSE UNCHANGED order

\* The order of a failed payment fails too, if it still waits for it.
OrderFollows(o) ==
    IF order[o] = "PendingPayment" THEN SetOrder(o, "PaymentFailed") ELSE UNCHANGED order

\* handleFincodeException -> markPaymentAndOrderAsFailed: first in one
\* transaction; if that throws, each row by itself.
Fail(r) == LET o == on[r] IN
    /\ pc[r] = "fail"
    /\ IF PaymentAccepts(o, "Failed")
       THEN SetPayment(o, "Failed") /\ OrderFollows(o) /\ Finish(r, "error")
       ELSE UNCHANGED <<order, payment>> /\ Goto(r, "fbPayment")
    /\ UNCHANGED <<linked, announced, gateVars, hookVars, faultVars>>

\* Mutant: the fallback fails whatever payment it finds.
FallbackPaymentBlind(r) ==
    /\ pc[r] = "fbPayment"
    /\ SetPayment(on[r], "Failed")
    /\ Goto(r, "fbOrder")
    /\ UNCHANGED <<order, linked, announced, gateVars, hookVars, faultVars>>

FallbackPayment(r) == LET o == on[r] IN
    /\ pc[r] = "fbPayment"
    /\ IF payment[o] \in PaymentOver THEN UNCHANGED payment ELSE SetPayment(o, "Failed")
    /\ Goto(r, "fbOrder")
    /\ UNCHANGED <<order, linked, announced, gateVars, hookVars, faultVars>>

FallbackOrder(r) ==
    /\ pc[r] = "fbOrder"
    /\ OrderFollows(on[r])
    /\ Finish(r, "error")
    /\ UNCHANGED <<payment, linked, announced, gateVars, hookVars, faultVars>>

\* The database aborts the transaction of this step: nothing is written, the
\* exception ends the request, or is caught by the next fallback.
DbError(r) ==
    /\ pc[r] \in DbSteps /\ dbErrors < MaxDbErrors
    /\ dbErrors' = dbErrors + 1
    /\ \/ pc[r] = "fail" /\ Goto(r, "fbPayment")
       \/ pc[r] = "fbPayment" /\ Goto(r, "fbOrder")
       \/ pc[r] # "fail" /\ Finish(r, "error")
    /\ UNCHANGED <<dbVars, gateVars, hookVars, apiErrors, crashes>>

\* The PHP process of the request dies.
Crash(r) ==
    /\ pc[r] # "idle" /\ crashes < MaxCrashes
    /\ crashes' = crashes + 1
    /\ Finish(r, "none")
    /\ UNCHANGED <<dbVars, gateVars, hookVars, apiErrors, dbErrors>>

-----------------------------------------------------------------------------
(* Webhooks: FincodeWebhookController and ProcessPaymentWebhookJob         *)

SetLog(o, e, s) == log' = [log EXCEPT ![o][e] = s]
SetJob(o, e, s) == job' = [job EXCEPT ![o][e] = s]

\* findOrCreateLog commits the row of a first delivery.  A delivery that
\* finds the row is acknowledged and ignored: it changes nothing.
Receive(o, e) ==
    /\ e \in sent[o] /\ log[o][e] = "none"
    /\ SetLog(o, e, "open") /\ SetJob(o, e, "dispatching")
    /\ UNCHANGED <<dbVars, gateVars, tries, reqVars, faultVars>>

Dispatch(o, e) ==
    /\ job[o][e] = "dispatching"
    /\ SetJob(o, e, "queued")
    /\ UNCHANGED <<dbVars, gateVars, log, tries, reqVars, faultVars>>

\* The controller dies between the two; every redelivery meets the log row.
LoseDispatch(o, e) ==
    /\ job[o][e] = "dispatching" /\ crashes < MaxCrashes
    /\ crashes' = crashes + 1
    /\ SetJob(o, e, "lost")
    /\ UNCHANGED <<dbVars, gateVars, log, tries, reqVars, apiErrors, dbErrors>>

\* Mutants of the next: the event is fired on every run; a refused move is
\* logged as processed; any order is reset to Accepted; a Paid order is left.
HandleCompletedOr(o, e, fired, from, refused) ==
    IF PaymentAccepts(o, "Completed")
    THEN /\ SetPayment(o, "Completed")
         /\ announced' = [announced EXCEPT ![o] = @ + fired]
         /\ IF order[o] \in from THEN SetOrder(o, "Accepted") ELSE UNCHANGED order
         /\ SetLog(o, e, "processed")
    ELSE UNCHANGED <<order, payment, announced>> /\ SetLog(o, e, refused)

FiredOnce(o) == IF payment[o] = "Completed" THEN 0 ELSE 1
HandleCompletedFires(o, e)   == HandleCompletedOr(o, e, 1, {"PendingPayment", "Paid"}, "failed")
HandleCompletedHides(o, e)   == HandleCompletedOr(o, e, FiredOnce(o), {"PendingPayment", "Paid"}, "processed")
HandleCompletedReopens(o, e) == HandleCompletedOr(o, e, FiredOnce(o), OrderStatus, "failed")
HandleCompletedLeaves(o, e)  == HandleCompletedOr(o, e, FiredOnce(o), {"PendingPayment"}, "failed")

\* handlePaymentCompleted: confirm the payment if it is not, then bring the
\* order to Accepted; an illegal move is a failed log and no retry.
HandleCompleted(o, e) ==
    IF PaymentAccepts(o, "Completed")
    THEN /\ SetPayment(o, "Completed")
         /\ announced' = [announced EXCEPT ![o] = @ + (IF payment[o] = "Completed" THEN 0 ELSE 1)]
         /\ IF order[o] \in {"PendingPayment", "Paid"} THEN SetOrder(o, "Accepted") ELSE UNCHANGED order
         /\ SetLog(o, e, "processed")
    ELSE /\ UNCHANGED <<order, payment, announced>>
         /\ SetLog(o, e, "failed")

\* handlePaymentFailed: a terminal payment stays as it is.
HandleFailed(o, e) ==
    /\ IF payment[o] \in PaymentOver THEN UNCHANGED payment ELSE SetPayment(o, "Failed")
    /\ OrderFollows(o)
    /\ SetLog(o, e, "processed")
    /\ UNCHANGED announced

\* handlePaymentRefunded: only a cancelled order becomes Refunded.
HandleRefunded(o, e) ==
    /\ IF order[o] = "Cancelled" THEN SetOrder(o, "Refunded") ELSE UNCHANGED order
    /\ SetLog(o, e, "processed")
    /\ UNCHANGED <<payment, announced>>

\* processEvent.  A payment whose fincode_id is not stored is not found.
\* handlePayPayEvent goes by the status in the payload; others are only logged.
ProcessEvent(o, e) ==
    /\ UNCHANGED linked
    /\ IF e # "paypay.exec" /\ ~linked[o]
       THEN SetLog(o, e, "failed") /\ UNCHANGED <<order, payment, announced>>
       ELSE \/ e \in CompletedEvents /\ HandleCompleted(o, e)
            \/ e \in FailedEvents /\ HandleFailed(o, e)
            \/ e = "payment.refunded" /\ HandleRefunded(o, e)
            \/ e = "paypay.exec" /\ SetLog(o, e, "processed") /\ UNCHANGED <<order, payment, announced>>

CanAttempt(o, e) == job[o][e] = "queued" /\ tries[o][e] < Tries
UseAttempt(o, e) == tries' = [tries EXCEPT ![o][e] = @ + 1]

RunJob(o, e) ==
    /\ CanAttempt(o, e)
    /\ ProcessEvent(o, e)
    /\ SetJob(o, e, "done")
    /\ UNCHANGED <<gateVars, tries, reqVars, faultVars>>

\* A QueryException rolls the attempt back and the job is retried.
RetryJob(o, e) ==
    /\ CanAttempt(o, e) /\ dbErrors < MaxDbErrors
    /\ dbErrors' = dbErrors + 1
    /\ UseAttempt(o, e)
    /\ UNCHANGED <<dbVars, gateVars, log, job, reqVars, apiErrors, crashes>>

\* The worker dies after the transaction committed and before the job is
\* deleted: the queue hands the job out again.
RepeatJob(o, e) ==
    /\ CanAttempt(o, e) /\ crashes < MaxCrashes
    /\ crashes' = crashes + 1
    /\ ProcessEvent(o, e)
    /\ UseAttempt(o, e)
    /\ UNCHANGED <<job, gateVars, reqVars, apiErrors, dbErrors>>

\* ProcessPaymentWebhookJob::failed, when the attempts are used up.
GiveUp(o, e) ==
    /\ job[o][e] = "queued" /\ tries[o][e] = Tries
    /\ SetLog(o, e, "failed") /\ SetJob(o, e, "done")
    /\ UNCHANGED <<dbVars, gateVars, tries, reqVars, faultVars>>

-----------------------------------------------------------------------------
(* The kitchen, the customer at the gateway, and the merchant's refunds    *)

\* Mutant: the kitchen may also set Refunded, which the table allows.
KitchenStatusRefunded == {"Accepted", "InProgress", "Ready", "Completed", "Cancelled", "Refunded"}

KitchenStatus == {"Accepted", "InProgress", "Ready", "Completed", "Cancelled"}

\* KdsService::updateOrderStatus (its stale pre-check only refuses more) and
\* the Ready -> Completed of orders:auto-complete-ready.
Kitchen(o, s) ==
    /\ s \in KitchenStatus /\ OrderCanMove(order[o], s)
    /\ SetOrder(o, s)
    /\ UNCHANGED <<payment, linked, announced, gateVars, hookVars, reqVars, faultVars>>

GatewayOnly == UNCHANGED <<dbVars, hookVars, reqVars, faultVars>>

\* The customer passes or fails the issuer's challenge.
AnswerChallenge(o) ==
    /\ gateway[o] = "Challenge"
    /\ SetGateway(o, "Authenticated") \/ SetGateway(o, "Error")
    /\ GatewayOnly

\* The customer approves the PayPay payment behind the link, or it ends
\* unpaid (cancelled, expired).
EndPayPay(o) ==
    /\ o \notin CardOrders /\ gateway[o] = "Awaiting"
    /\ (linked[o] /\ SetGateway(o, "Captured")) \/ SetGateway(o, "Error")
    /\ GatewayOnly

\* The merchant refunds at fincode's console; src/ has no refund call.
Refund(o) ==
    /\ gateway[o] = "Captured"
    /\ SetGateway(o, "Refunded")
    /\ GatewayOnly

-----------------------------------------------------------------------------
RequestEntry(r, o) ==
    \/ Checkout(r, o) \/ FinalizeConfirm(r, o) \/ FinalizeCard(r, o)
    \/ Callback(r, o, "auth") \/ Callback(r, o, "authResult")

RequestStep(r) ==
    \/ Initiate(r) \/ RefuseSavedCard(r) \/ Create(r) \/ ExecutePayPay(r) \/ Save(r)
    \/ CardNotSaved(r) \/ MarkProcessing(r) \/ ExecuteCard(r) \/ GetPayment(r)
    \/ Authenticate(r) \/ AuthenticationResult(r) \/ Capture(r)
    \/ Complete(r) \/ Confirm(r) \/ Reject(r) \/ Deny(r)
    \/ Fail(r) \/ FallbackPayment(r) \/ FallbackOrder(r)

WebhookStep(o, e) == Receive(o, e) \/ Dispatch(o, e) \/ RunJob(o, e) \/ GiveUp(o, e)

Fault(o, e) == LoseDispatch(o, e) \/ RetryJob(o, e) \/ RepeatJob(o, e)

Next ==
    \/ \E r \in Requests : \/ \E o \in Orders : RequestEntry(r, o)
                          \/ RequestStep(r) \/ DbError(r) \/ Crash(r)
    \/ \E o \in Orders : \/ \E e \in Events : WebhookStep(o, e) \/ Fault(o, e)
                        \/ \E s \in KitchenStatus : Kitchen(o, s)
                        \/ AnswerChallenge(o) \/ EndPayPay(o) \/ Refund(o)

Spec == Init /\ [][Next]_vars

\* fincode redelivers until it is acknowledged, the controller goes on to
\* dispatch, the queue worker takes every job it holds, and PHP runs a
\* request it has begun.  Customers, kitchen and merchant owe nothing.
Fairness ==
    /\ \A o \in Orders, e \in Events : WF_vars(WebhookStep(o, e))
    /\ \A r \in Requests : WF_vars(RequestStep(r))

FairSpec == Spec /\ Fairness

-----------------------------------------------------------------------------
(* Type invariant                                                          *)

RowTypes ==
    /\ order     \in [Orders -> OrderStatus \cup {"None"}]
    /\ payment   \in [Orders -> PaymentStatus \cup {"None"}]
    /\ linked    \in [Orders -> BOOLEAN]
    /\ announced \in [Orders -> Nat]

GateTypes ==
    /\ gateway   \in [Orders -> GatewayStates]
    /\ sent      \in [Orders -> SUBSET Events]

HookTypes ==
    /\ log       \in [Orders -> [Events -> {"none", "open", "processed", "failed"}]]
    /\ job       \in [Orders -> [Events -> {"none", "dispatching", "queued", "lost", "done"}]]
    /\ tries     \in [Orders -> [Events -> 0..Tries]]

ReqTypes ==
    /\ pc        \in [Requests -> Steps]
    /\ on        \in [Requests -> Orders \cup {NoOrder}]
    /\ reply     \in [Requests -> Replies]

FaultTypes ==
    /\ apiErrors \in 0..MaxApiErrors
    /\ crashes   \in 0..MaxCrashes
    /\ dbErrors  \in 0..MaxDbErrors

TypeOK == RowTypes /\ GateTypes /\ HookTypes /\ ReqTypes /\ FaultTypes

-----------------------------------------------------------------------------
(* Safety                                                                  *)

\* The two rows never contradict each other: an order is past payment exactly
\* when its payment is Completed, and PaymentFailed only with a Failed one.
\* This needs at most one aborted transaction: the fallbacks of
\* markPaymentAndOrderAsFailed write the rows one by one.
RecordsAgree ==
    \A o \in Orders : /\ payment[o] = "Completed" <=> order[o] \in Confirmed
                      /\ order[o] = "PaymentFailed" => payment[o] = "Failed"

\* Nothing reaches the kitchen, and nothing is settled, that the gateway has
\* not charged: whoever confirms has seen the charge.
NothingUnpaid ==
    \A o \in Orders : order[o] \in Confirmed => gateway[o] \in {"Captured", "Refunded"}

\* The gateway never charges a payment that is still Pending here, so that a
\* payment.completed webhook is never refused for coming too early.
NoEarlyCapture ==
    \A o \in Orders : gateway[o] \in {"Captured", "Refunded"} => payment[o] \notin {"None", "Pending"}

\* PaymentCompleted is fired at most once per payment, however the request
\* path, two webhooks and a repeated job overlap.
AnnouncedOnce ==
    \A o \in Orders : announced[o] <= (IF payment[o] = "Completed" THEN 1 ELSE 0)

\* A log row marked processed tells the truth: a completed event has confirmed
\* its order, a failed one has found or left a final verdict and no order that
\* waits for payment.  (A repeated job that gives up may hide it, never fake it.)
ProcessedIsDone ==
    \A o \in Orders, e \in Events : log[o][e] = "processed" =>
        /\ e \in CompletedEvents => payment[o] = "Completed" /\ order[o] \notin {"PendingPayment", "Paid"}
        /\ e \in FailedEvents => payment[o] \in PaymentOver /\ order[o] # "PendingPayment"

\* An order is Refunded only when the gateway has paid the money back.
RefundedIsRefunded ==
    \A o \in Orders : order[o] = "Refunded" => gateway[o] = "Refunded"

\* A charge is never written off: without a failed gateway call or a crash,
\* and with the customer's requests one after the other.
ChargeKept ==
    \A o \in Orders : gateway[o] = "Captured" => payment[o] # "Failed"

\* Running a completed or failed event again, after its first run committed,
\* changes nothing, wherever the kitchen has moved the order meanwhile.
RepeatIsHarmless ==
    [][\A o \in Orders, e \in CompletedEvents \cup FailedEvents :
          log[o][e] = "processed" /\ hookVars # hookVars' /\ <<tries[o][e], job[o][e]>> # <<tries'[o][e], job'[o][e]>>
             => UNCHANGED dbVars]_vars

-----------------------------------------------------------------------------
(* Liveness, under FairSpec                                                *)

\* A charged order reaches the kitchen, or the money goes back.
ChargedIsServed ==
    \A o \in Orders : gateway[o] = "Captured"
                        ~> order[o] \in Confirmed \ {"Paid"} \/ gateway[o] = "Refunded"

\* Every request ends, whatever the others do to its order.
RequestsEnd == \A r \in Requests : pc[r] # "idle" ~> pc[r] = "idle"

-----------------------------------------------------------------------------
(* PaymentFlow implements OrderLifecycle                                   *)

Lifecycle == INSTANCE OrderLifecycle WITH
    charged  <- [o \in Orders |-> gateway[o] \in {"Captured", "Refunded"}],
    refunded <- [o \in Orders |-> gateway[o] = "Refunded"]

\* Every step of the back end is a step of the promise, or none: the two rows
\* change together and only after a charge.  At most one aborted transaction.
KeepsPromise == Lifecycle!Spec
=============================================================================
