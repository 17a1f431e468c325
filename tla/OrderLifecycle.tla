--------------------------- MODULE OrderLifecycle ---------------------------
(***************************************************************************)
(* What the back end promises about one order and its payment, without     *)
(* requests, webhooks, retries or failures: which status may follow which, *)
(* which two change in one transaction, and what the gateway must have     *)
(* done before.  PaymentFlow implements it.                                *)
(***************************************************************************)
EXTENDS Statuses

CONSTANT Orders

VARIABLES
    order,      \* the order's status
    payment,    \* its payment's status
    charged,    \* the customer has been charged
    refunded    \* ... and has the money back

vars == <<order, payment, charged, refunded>>

Init ==
    /\ order    = [o \in Orders |-> "None"]
    /\ payment  = [o \in Orders |-> "None"]
    /\ charged  = [o \in Orders |-> FALSE]
    /\ refunded = [o \in Orders |-> FALSE]

\* An order enters, waiting for payment.
Place(o) ==
    /\ order[o] = "None"
    /\ order' = [order EXCEPT ![o] = "PendingPayment"]
    /\ UNCHANGED <<payment, charged, refunded>>

\* Its one payment is opened ...
Open(o) ==
    /\ order[o] = "PendingPayment" /\ payment[o] = "None"
    /\ payment' = [payment EXCEPT ![o] = "Pending"]
    /\ UNCHANGED <<order, charged, refunded>>

\* ... and handed to the gateway, which may charge the customer from then on,
\* whatever becomes of the payment here, and may give the money back.
Process(o) ==
    /\ payment[o] = "Pending"
    /\ payment' = [payment EXCEPT ![o] = "Processing"]
    /\ UNCHANGED <<order, charged, refunded>>

Charge(o) ==
    /\ ~charged[o] /\ payment[o] \in {"Processing", "Failed"}
    /\ charged' = [charged EXCEPT ![o] = TRUE]
    /\ UNCHANGED <<order, payment, refunded>>

GiveBack(o) ==
    /\ charged[o] /\ ~refunded[o]
    /\ refunded' = [refunded EXCEPT ![o] = TRUE]
    /\ UNCHANGED <<order, payment, charged>>

\* Payment and order are confirmed together, and only after a charge: to Paid
\* by the customer's own request, to Accepted by the webhook.
Confirm(o) ==
    /\ charged[o] /\ payment[o] = "Processing" /\ order[o] = "PendingPayment"
    /\ payment' = [payment EXCEPT ![o] = "Completed"]
    /\ \E s \in {"Paid", "Accepted"} : order' = [order EXCEPT ![o] = s]
    /\ UNCHANGED <<charged, refunded>>

\* A failure is written to both, or first to the payment and later to the
\* order that waits for it.
Reject(o) ==
    /\ payment[o] \in {"Pending", "Processing"} /\ order[o] = "PendingPayment"
    /\ payment' = [payment EXCEPT ![o] = "Failed"]
    /\ order' = [order EXCEPT ![o] = "PaymentFailed"] \/ UNCHANGED order
    /\ UNCHANGED <<charged, refunded>>

Follow(o) ==
    /\ payment[o] = "Failed" /\ order[o] = "PendingPayment"
    /\ order' = [order EXCEPT ![o] = "PaymentFailed"]
    /\ UNCHANGED <<payment, charged, refunded>>

\* A confirmed order moves along, or is cancelled on the way.
Advance(o) ==
    /\ payment[o] = "Completed"
    /\ \E s \in {"Accepted", "InProgress", "Ready", "Completed", "Cancelled"} :
          OrderCanMove(order[o], s) /\ order' = [order EXCEPT ![o] = s]
    /\ UNCHANGED <<payment, charged, refunded>>

\* Refunded is for a cancelled order whose money has been returned.
Return(o) ==
    /\ refunded[o] /\ order[o] = "Cancelled"
    /\ order' = [order EXCEPT ![o] = "Refunded"]
    /\ UNCHANGED <<payment, charged, refunded>>

Next == \E o \in Orders :
    \/ Place(o) \/ Open(o) \/ Process(o) \/ Charge(o) \/ GiveBack(o)
    \/ Confirm(o) \/ Reject(o) \/ Follow(o) \/ Advance(o) \/ Return(o)

Spec == Init /\ [][Next]_vars
=============================================================================
