------------------------- MODULE PaymentFlowProofs -------------------------
(***************************************************************************)
(* Proofs about PaymentFlow, for every number of orders, request slots,    *)
(* attempts and faults.                                                    *)
(*                                                                         *)
(* IInv is the inductive invariant.  It speaks of one request (ReqOK), of  *)
(* one order's rows (RowOK), of one event of an order (EventOK), and of    *)
(* two requests in one place only (Alone).  Every action changes the rows  *)
(* of one order and at most one slot, so each step lemma shows what the    *)
(* action does there, and RequestKeeps or RowKeeps carries it to the rest. *)
(***************************************************************************)
EXTENDS PaymentFlow, TLAPS

Charged(o) == gateway[o] \in {"Captured", "Refunded"}

\* A busy slot works on an order that exists.
Busy(r) ==
    IF pc[r] = "idle" THEN on[r] = NoOrder
    ELSE on[r] \in Orders /\ order[on[r]] # "None"

\* The steps of the request that placed the order until it has stored the
\* gateway's id, and the steps that fail a payment.
OpenSteps == {"initiate", "create", "execute", "save"}
FailSteps == {"fail", "fbPayment", "fbOrder"}

\* What the opening request relies on: a PayPay order stays as it left it, a
\* card order may meanwhile be failed by a callback that finds no access id.
Opening(r) ==
    /\ pc[r] \in OpenSteps => ~linked[on[r]]
    /\ pc[r] = "initiate" => payment[on[r]] = "None" /\ order[on[r]] = "PendingPayment"
    /\ pc[r] \in {"create", "execute", "save"} =>
           IF on[r] \in CardOrders
           THEN /\ payment[on[r]] \in {"Pending", "Processing", "Failed"}
                /\ order[on[r]] \in {"PendingPayment", "PaymentFailed"}
           ELSE payment[on[r]] = "Pending" /\ order[on[r]] = "PendingPayment"
    /\ pc[r] = "execute" => on[r] \notin CardOrders

\* What every later step relies on: the payment has been handed over, and a
\* request that confirms has seen the charge.
HandedOver(r) ==
    /\ pc[r] \in {"exec", "auth", "authResult", "capture", "complete", "reject"} =>
           on[r] \in CardOrders /\ payment[on[r]] \notin {"None", "Pending"}
    /\ pc[r] = "markProcessing" => on[r] \in CardOrders
    /\ pc[r] \notin {"idle", "initiate"} => payment[on[r]] # "None"
    /\ pc[r] \in {"complete", "confirm"} => Charged(on[r])
    /\ pc[r] \notin {"idle"} \cup OpenSteps \cup FailSteps => linked[on[r]]

ReqOK(r) == Busy(r) /\ Opening(r) /\ HandedOver(r)

\* Until then no other request works on that order, stray callbacks of a card
\* excepted.
Alone ==
    \A r, s \in Requests : on[r] \in Orders /\ on[r] = on[s] /\ r # s =>
        \/ linked[on[r]]
        \/ on[r] \in CardOrders /\ (pc[r] \notin OpenSteps \/ pc[s] \notin OpenSteps)

\* How far the gateway can be, given how far the payment is.
GatewayFollows(o) ==
    /\ order[o] = "None" => payment[o] = "None"
    /\ payment[o] = "None" => /\ gateway[o] = "None" /\ ~linked[o]
                              /\ order[o] \in {"None", "PendingPayment"}
    /\ payment[o] = "Pending" => ~Charged(o)
    /\ payment[o] = "Pending" /\ linked[o] => o \in CardOrders
    /\ payment[o] = "Pending" /\ o \in CardOrders => gateway[o] \in {"None", "Unprocessed"}
    /\ ~linked[o] => gateway[o] \in {"None", "Unprocessed", "Awaiting", "Error"}
                     /\ payment[o] \in {"None", "Pending", "Failed"}
                                          \cup (IF o \in CardOrders THEN {"Processing"} ELSE {})

\* Confirmed exactly when Completed, and only after a charge; announced at
\* most once; Refunded only after the money went back.
Settled(o) ==
    /\ payment[o] = "Completed" => order[o] \notin {"None", "PendingPayment"}
    /\ order[o] \in Confirmed => payment[o] = "Completed" /\ Charged(o)
    /\ order[o] = "Refunded" => gateway[o] = "Refunded"
    /\ announced[o] <= (IF payment[o] = "Completed" THEN 1 ELSE 0)

RowOK(o) == GatewayFollows(o) /\ Settled(o)

\* An event was sent because of what it says; rows and jobs follow events.
SentOK(o, e) ==
    /\ e \in sent[o] /\ e \in CompletedEvents => Charged(o)
    /\ e \in sent[o] /\ e = "payment.refunded" => gateway[o] = "Refunded"
    /\ log[o][e] # "none" => e \in sent[o]
    /\ job[o][e] # "none" => log[o][e] # "none"

\* A row marked processed has done its work.
LoggedOK(o, e) ==
    log[o][e] = "processed" =>
        /\ e \in CompletedEvents => payment[o] = "Completed" /\ order[o] \notin {"PendingPayment", "Paid"}
        /\ e \in FailedEvents => payment[o] \in PaymentOver /\ order[o] # "PendingPayment"

EventOK(o) == \A e \in Events : SentOK(o, e) /\ LoggedOK(o, e)

IInv ==
    /\ TypeOK
    /\ Alone
    /\ \A r \in Requests : ReqOK(r)
    /\ \A o \in Orders : RowOK(o) /\ EventOK(o)

-----------------------------------------------------------------------------
(* Types: what the helpers of the actions write                            *)

\* Going on to the next step of a request keeps the types.
LEMMA GotoTyped ==
  ASSUME ReqTypes, NEW r \in Requests, NEW step \in Steps, Goto(r, step)
  PROVE  ReqTypes'
BY DEF ReqTypes, Goto

\* So does answering it.
LEMMA FinishTyped ==
  ASSUME ReqTypes, NEW r \in Requests, NEW answer \in Replies, Finish(r, answer)
  PROVE  ReqTypes'
BY DEF ReqTypes, Finish, Steps

\* So does taking up an order.
LEMMA BeginTyped ==
  ASSUME ReqTypes, NEW r \in Requests, NEW o \in Orders, NEW step \in Steps, Begin(r, o, step)
  PROVE  ReqTypes'
BY DEF ReqTypes, Begin, Replies

\* What the gateway does to one payment, and sends about it, is well typed.
LEMMA GatewayTyped ==
  ASSUME GateTypes, NEW o \in Orders, NEW g \in GatewayStates, SetGateway(o, g)
  PROVE  GateTypes'
<1>1. EventOf(o, g) \in SUBSET Events
  BY DEF EventOf, Events
<1>2. QED BY <1>1 DEF GateTypes, SetGateway

\* A failed call counts as a fault and leads to the failure branch.
LEMMA ApiFailsTyped ==
  ASSUME TypeOK, NEW r \in Requests, NEW o \in Orders, NEW effects,
         ApiFails(r, o, effects), UNCHANGED <<crashes, dbErrors>>
  PROVE  ReqTypes' /\ FaultTypes'
<1>1. ReqTypes'
  BY GotoTyped DEF TypeOK, ApiFails, Steps, DbSteps
<1>2. FaultTypes'
  BY BoundsAssumption DEF TypeOK, FaultTypes, ApiFails
<1>3. QED BY <1>1, <1>2

\* The lost call may still have had its effect at the gateway.
LEMMA ApiFailsGateTyped ==
  ASSUME TypeOK, NEW r \in Requests, NEW o \in Orders, NEW effects \in SUBSET GatewayStates,
         ApiFails(r, o, effects)
  PROVE  GateTypes'
BY GatewayTyped DEF TypeOK, ApiFails, gateVars, GateTypes

\* The handlers write one log row and the rows of one order.
LEMMA ProcessEventTyped ==
  ASSUME TypeOK, NEW o \in Orders, NEW e \in Events, ProcessEvent(o, e)
  PROVE  RowTypes' /\ \E s \in {"processed", "failed"} : log' = [log EXCEPT ![o][e] = s]
BY DEF TypeOK, RowTypes, ProcessEvent, HandleCompleted, HandleFailed, HandleRefunded,
       OrderFollows, SetOrder, SetPayment, SetLog, OrderStatus, PaymentStatus

-----------------------------------------------------------------------------
(* Frames: what a step leaves alone and what it never takes back           *)

OnlyRow(o) ==
    \A q \in Orders \ {o} :
        /\ order'[q] = order[q] /\ payment'[q] = payment[q]
        /\ linked'[q] = linked[q] /\ announced'[q] = announced[q]
        /\ gateway'[q] = gateway[q] /\ sent'[q] = sent[q]
        /\ log'[q] = log[q] /\ job'[q] = job[q]

OnlySlot(r) ==
    /\ \A s \in Requests \ {r} : pc'[s] = pc[s] /\ on'[s] = on[s]
    /\ \/ on'[r] \in {on[r], NoOrder} /\ (pc'[r] \in OpenSteps => pc[r] \in OpenSteps)
       \/ pc'[r] \notin OpenSteps /\ (linked[on'[r]] \/ on'[r] \in CardOrders)
       \/ order[on'[r]] = "None"

Forward(o) ==
    /\ order[o] # "None" => order'[o] # "None"
    /\ payment[o] # "None" => payment'[o] # "None"
    /\ payment[o] \notin {"None", "Pending"} => payment'[o] \notin {"None", "Pending"}
    /\ linked[o] => linked'[o]
    /\ Charged(o) => Charged(o)'

SameRow(o) == order'[o] = order[o] /\ payment'[o] = payment[o] /\ linked'[o] = linked[o]

\* What may happen to an order beside the request that opens it.
Beside(o) ==
    \/ linked[o] \/ SameRow(o)
    \/ /\ o \in CardOrders /\ linked'[o] = linked[o] /\ payment[o] # "None"
       /\ payment'[o] \in {payment[o], "Processing", "Failed"}
       /\ order'[o] \in {order[o], "PaymentFailed"}

\* A request that is not moved keeps what it relies on: its order only moves
\* forward, and beside it while it opens the payment.
LEMMA OthersKeep ==
  ASSUME NEW s \in Requests, ReqOK(s), pc'[s] = pc[s], on'[s] = on[s],
         on[s] \in Orders => Forward(on[s]) /\ (pc[s] \notin OpenSteps \/ Beside(on[s]))
  PROVE  ReqOK(s)'
BY DEF ReqOK, Busy, Opening, OpenSteps, FailSteps, HandedOver, Forward, SameRow, Beside, OpenSteps, FailSteps

\* The rows of the other orders are as they were.
LEMMA OtherRowsKeep ==
  ASSUME IInv, NEW o \in Orders, OnlyRow(o), NEW q \in Orders, q # o
  PROVE  RowOK(q)' /\ EventOK(q)' /\ Forward(q) /\ SameRow(q)
BY DEF IInv, OnlyRow, RowOK, EventOK, GatewayFollows, Settled, SentOK, LoggedOK, Charged,
       Forward, SameRow

\* Requests stay alone: a slot joins an order only when it is new, when it is
\* linked, or as a callback of a card.
LEMMA AloneKeeps ==
  ASSUME IInv, NEW r \in Requests, OnlySlot(r), \A q \in Orders : Forward(q)
  PROVE  Alone'
<1>1. \A q \in Orders : linked[q] => linked'[q]
  BY DEF Forward
<1>2. ASSUME NEW s \in Requests \ {r}, on'[s] \in Orders, on'[r] = on'[s], ~linked'[on'[r]]
      PROVE  on'[r] \in CardOrders /\ (pc'[r] \notin OpenSteps \/ pc'[s] \notin OpenSteps)
  <2>1. pc'[s] = pc[s] /\ on'[s] = on[s] /\ ~linked[on[s]]
    BY <1>1, <1>2 DEF OnlySlot
  <2>2. order[on[s]] # "None"
    BY <1>2, <2>1, OrdersAssumption DEF IInv, ReqOK, Busy
  <2>3. CASE on'[r] \in {on[r], NoOrder} /\ (pc'[r] \in OpenSteps => pc[r] \in OpenSteps)
    BY <1>2, <2>1, <2>3, OrdersAssumption DEF IInv, Alone
  <2>4. CASE pc'[r] \notin OpenSteps /\ (linked[on'[r]] \/ on'[r] \in CardOrders)
    BY <1>2, <2>1, <2>4
  <2>5. QED BY <1>2, <2>1, <2>2, <2>3, <2>4 DEF OnlySlot
<1>3. ASSUME NEW s \in Requests \ {r}, NEW t \in Requests \ {r},
             on'[s] \in Orders, on'[s] = on'[t], s # t, ~linked'[on'[s]]
      PROVE  on'[s] \in CardOrders /\ (pc'[s] \notin OpenSteps \/ pc'[t] \notin OpenSteps)
  BY <1>1, <1>3 DEF IInv, Alone, OnlySlot
<1>4. QED BY <1>2, <1>3 DEF Alone

\* A step of a request on the order it holds, on a new one, or on one beside
\* whoever opens its payment.
LEMMA RequestKeeps ==
  ASSUME IInv, TypeOK', NEW r \in Requests, NEW o \in Orders,
         OnlyRow(o), OnlySlot(r), Forward(o), RowOK(o)', EventOK(o)', ReqOK(r)',
         \/ on[r] = o /\ (pc[r] \in FailSteps /\ o \in CardOrders => Beside(o))
         \/ order[o] = "None"
         \/ Beside(o)
  PROVE  IInv'
<1>1. \A q \in Orders : RowOK(q)' /\ EventOK(q)' /\ Forward(q)
  BY OtherRowsKeep
<1>2. ASSUME NEW s \in Requests, s # r PROVE ReqOK(s)'
  <2>1. ReqOK(s) /\ pc'[s] = pc[s] /\ on'[s] = on[s]
    BY <1>2 DEF IInv, OnlySlot
  <2>2. on[s] = o => pc[s] \notin OpenSteps \/ Beside(o)
    <3>1. CASE on[r] = o /\ pc[r] \notin FailSteps
      <4>1. pc[r] \in OpenSteps \/ linked[o]
        BY <3>1, OrdersAssumption DEF IInv, ReqOK, Busy, HandedOver
      <4>2. QED BY <1>2, <3>1, <4>1 DEF IInv, Alone, Beside
    <3>2. CASE on[r] = o /\ o \notin CardOrders
      BY <1>2, <3>2 DEF IInv, Alone, Beside
    <3>3. CASE order[o] = "None"  BY <2>1, <3>3, OrdersAssumption DEF ReqOK, Busy, OpenSteps
    <3>4. QED BY <3>1, <3>2, <3>3
  <2>3. on[s] \in Orders => pc[s] \notin OpenSteps \/ Beside(on[s])
    BY <2>2, OtherRowsKeep DEF Beside
  <2>4. QED BY <1>1, <2>1, <2>3, OthersKeep
<1>3. Alone'
  BY <1>1, AloneKeeps
<1>4. QED BY <1>1, <1>2, <1>3 DEF IInv

\* A step of a webhook, of the kitchen or of the gateway: it touches no slot,
\* and writes the status only of an order that is linked.
LEMMA RowKeeps ==
  ASSUME IInv, TypeOK', NEW o \in Orders, UNCHANGED reqVars,
         OnlyRow(o), Forward(o), RowOK(o)', EventOK(o)',
         linked[o] \/ SameRow(o), linked'[o] = linked[o]
  PROVE  IInv'
<1>1. \A q \in Orders : /\ RowOK(q)' /\ EventOK(q)' /\ Forward(q)
                        /\ linked[q] \/ SameRow(q)
  BY OtherRowsKeep
<1>2. \A s \in Requests : ReqOK(s)'
  BY <1>1, OthersKeep DEF IInv, reqVars, Beside
<1>3. Alone'
  BY <1>1 DEF IInv, Alone, Forward, reqVars
<1>4. QED BY <1>1, <1>2, <1>3 DEF IInv

\* A step that writes no row: only the slot's own next step is at stake.
LEMMA SlotKeeps ==
  ASSUME IInv, TypeOK', NEW r \in Requests, OnlySlot(r), ReqOK(r)',
         UNCHANGED <<dbVars, gateVars, log, job>>
  PROVE  IInv'
<1>1. \A o \in Orders : RowOK(o)' /\ EventOK(o)' /\ Forward(o) /\ SameRow(o)
  BY DEF IInv, RowOK, EventOK, GatewayFollows, Settled, SentOK, LoggedOK, Charged,
         Forward, SameRow, dbVars, gateVars
<1>2. \A s \in Requests : ReqOK(s)'
  BY <1>1, OthersKeep DEF IInv, OnlySlot, OpenSteps, Beside
<1>3. Alone'
  BY <1>1, AloneKeeps
<1>4. QED BY <1>1, <1>2, <1>3 DEF IInv

\* The webhook's handlers, run for an event that has a job.
LEMMA ProcessEventKeeps ==
  ASSUME IInv, NEW o \in Orders, NEW e \in Events, job[o][e] # "none",
         ProcessEvent(o, e), UNCHANGED gateVars
  PROVE  Forward(o) /\ RowOK(o)' /\ (linked[o] \/ SameRow(o)) /\ linked' = linked
<1>1. RowTypes /\ RowOK(o) /\ SentOK(o, e) /\ e \in sent[o]
  BY DEF IInv, TypeOK, EventOK, SentOK
<1>2. CASE UNCHANGED <<order, payment, announced>>
  BY <1>1, <1>2 DEF ProcessEvent, gateVars, RowOK, GatewayFollows, Settled, Charged, Forward, SameRow
<1>3. CASE e \in CompletedEvents /\ HandleCompleted(o, e) /\ linked[o]
  BY <1>1, <1>2, <1>3 DEF ProcessEvent, HandleCompleted, gateVars, RowTypes, RowOK, GatewayFollows,
     Settled, SentOK, Charged, Forward, PaymentAccepts, PaymentCanMove, PaymentMoves, SetPayment,
     SetOrder, Confirmed
<1>4. CASE HandleFailed(o, e) /\ linked[o]
  BY <1>1, <1>4 DEF ProcessEvent, HandleFailed, OrderFollows, gateVars, RowTypes, RowOK, GatewayFollows,
     Settled, Charged, Forward, SetPayment, SetOrder, Confirmed, PaymentOver, PaymentStatus
<1>5. CASE e = "payment.refunded" /\ HandleRefunded(o, e) /\ linked[o]
  BY <1>1, <1>5 DEF ProcessEvent, HandleRefunded, gateVars, RowTypes, RowOK, GatewayFollows,
     Settled, SentOK, Charged, Forward, SetOrder, Confirmed
<1>6. QED BY <1>2, <1>3, <1>4, <1>5 DEF ProcessEvent, CompletedEvents, FailedEvents

\* Checkout: the new order is in no other hands, and has no payment yet.
LEMMA CheckoutStep ==
  ASSUME IInv, NEW r \in Requests, NEW o \in Orders, Checkout(r, o)
  PROVE  IInv'
<1>1. TypeOK /\ ReqOK(r) /\ RowOK(o) /\ EventOK(o)
  BY DEF IInv
<1>2. TypeOK'
  <2>1. RowTypes'
    BY <1>1 DEF TypeOK, RowTypes, dbVars, Checkout, SetOrder, OrderStatus
  <2>2. ReqTypes'
    BY <1>1, BeginTyped DEF TypeOK, Checkout, Steps, DbSteps, ApiSteps, Replies
  <2>3. GateTypes' /\ HookTypes' /\ FaultTypes'
    BY <1>1 DEF TypeOK, GateTypes, HookTypes, FaultTypes, gateVars, hookVars, faultVars,
       Checkout
  <2>4. QED BY <2>1, <2>2, <2>3 DEF TypeOK
<1>3. OnlyRow(o) /\ OnlySlot(r)
  BY <1>1 DEF TypeOK, RowTypes, GateTypes, HookTypes, ReqTypes, OnlyRow, OnlySlot, OpenSteps, Checkout,
     Begin, SetOrder, dbVars, gateVars, hookVars, reqVars, faultVars
<1>4. Forward(o) /\ RowOK(o)'
  BY <1>1 DEF TypeOK, RowTypes, GateTypes, HookTypes, ReqTypes, ReqOK, Busy, Opening, OpenSteps, FailSteps,
     HandedOver, RowOK, GatewayFollows, Settled, Charged, Forward, Confirmed, Checkout,
     Begin, SetOrder, dbVars, gateVars, hookVars, reqVars, faultVars
<1>5. EventOK(o)'
  BY <1>1 DEF TypeOK, RowTypes, GateTypes, HookTypes, ReqTypes, ReqOK, Busy, Opening, OpenSteps, FailSteps,
     HandedOver, RowOK, GatewayFollows, Settled, Charged, EventOK, SentOK, LoggedOK,
     PaymentOver, CompletedEvents, FailedEvents, Checkout, Begin, SetOrder, dbVars,
     gateVars, hookVars, reqVars, faultVars
<1>6. ReqOK(r)' /\ order[o] = "None"
  BY <1>1, OrdersAssumption DEF TypeOK, RowTypes, GateTypes, HookTypes, ReqTypes, ReqOK,
     Busy, Opening, OpenSteps, FailSteps, HandedOver, RowOK, GatewayFollows, Settled, Charged, Checkout, Begin,
     SetOrder, dbVars, gateVars, hookVars, reqVars, faultVars
<1>7. QED BY <1>1, <1>2, <1>3, <1>4, <1>5, <1>6, RequestKeeps

\* PaymentService::initiate: the payment is created Pending and not linked.
LEMMA InitiateStep ==
  ASSUME IInv, NEW r \in Requests, Initiate(r)
  PROVE  IInv'
<1>1. PICK o \in Orders : o = on[r] /\ pc[r] \notin FailSteps
  BY DEF IInv, FailSteps, ReqOK, Busy, Initiate
<1>2. TypeOK /\ ReqOK(r) /\ RowOK(o) /\ EventOK(o)
  BY DEF IInv
<1>3. TypeOK'
  <2>1. RowTypes'
    BY <1>1, <1>2 DEF TypeOK, RowTypes, dbVars, Initiate, SetPayment, PaymentStatus
  <2>2. ReqTypes'
    BY <1>1, <1>2, GotoTyped DEF TypeOK, Initiate, Steps, DbSteps, ApiSteps, Replies
  <2>3. GateTypes' /\ HookTypes' /\ FaultTypes'
    BY <1>1, <1>2 DEF TypeOK, GateTypes, HookTypes, FaultTypes, gateVars, hookVars, faultVars,
       Initiate
  <2>4. QED BY <2>1, <2>2, <2>3 DEF TypeOK
<1>4. OnlyRow(o) /\ OnlySlot(r)
  BY <1>1, <1>2 DEF TypeOK, RowTypes, GateTypes, HookTypes, ReqTypes, OnlyRow, OnlySlot, OpenSteps,
     Initiate, SetPayment, Goto, dbVars, gateVars, hookVars, reqVars, faultVars
<1>5. Forward(o) /\ RowOK(o)'
  BY <1>1, <1>2 DEF TypeOK, RowTypes, GateTypes, HookTypes, ReqTypes, ReqOK, Busy, Opening, OpenSteps, FailSteps,
     HandedOver, RowOK, GatewayFollows, Settled, Charged, Forward, Confirmed, Initiate,
     SetPayment, Goto, dbVars, gateVars, hookVars, reqVars, faultVars
<1>6. EventOK(o)'
  BY <1>1, <1>2 DEF TypeOK, RowTypes, GateTypes, HookTypes, ReqTypes, ReqOK, Busy, Opening, OpenSteps, FailSteps,
     HandedOver, RowOK, GatewayFollows, Settled, Charged, EventOK, SentOK, LoggedOK,
     PaymentOver, CompletedEvents, FailedEvents, Initiate, SetPayment, Goto, dbVars,
     gateVars, hookVars, reqVars, faultVars
<1>7. ReqOK(r)'
  BY <1>1, <1>2, OrdersAssumption DEF TypeOK, RowTypes, GateTypes, HookTypes, ReqTypes,
     ReqOK, Busy, Opening, OpenSteps, FailSteps, HandedOver, RowOK, GatewayFollows, Settled, Charged, Initiate,
     SetPayment, Goto, dbVars, gateVars, hookVars, reqVars, faultVars
<1>8. QED BY <1>1, <1>3, <1>4, <1>5, <1>6, <1>7, RequestKeeps

\* POST /payments: the gateway knows the payment, and has charged nothing.
LEMMA CreateStep ==
  ASSUME IInv, NEW r \in Requests, Create(r)
  PROVE  IInv'
<1>1. PICK o \in Orders : o = on[r] /\ pc[r] \notin FailSteps
  BY DEF IInv, FailSteps, ReqOK, Busy, Create
<1>2. TypeOK /\ ReqOK(r) /\ RowOK(o) /\ EventOK(o)
  BY DEF IInv
<1>3. TypeOK'
  <2>1. GateTypes'
    BY <1>1, <1>2, GatewayTyped, ApiFailsGateTyped DEF TypeOK, GateTypes, gateVars, Create,
       GatewayStates
  <2>2. ReqTypes'
    BY <1>1, <1>2, ApiFailsTyped, GotoTyped DEF TypeOK, Create, Steps, DbSteps, ApiSteps,
       Replies
  <2>3. FaultTypes'
    BY <1>1, <1>2, BoundsAssumption, ApiFailsTyped DEF TypeOK, FaultTypes, faultVars, Create
  <2>4. RowTypes' /\ HookTypes'
    BY <1>1, <1>2 DEF TypeOK, RowTypes, HookTypes, dbVars, hookVars, Create
  <2>5. QED BY <2>1, <2>2, <2>3, <2>4 DEF TypeOK
<1>4. OnlyRow(o) /\ OnlySlot(r)
  BY <1>1, <1>2 DEF TypeOK, RowTypes, GateTypes, HookTypes, ReqTypes, OnlyRow, OnlySlot, OpenSteps,
     Create, SetGateway, EventOf, ApiFails, Goto, dbVars, gateVars, hookVars, reqVars,
     faultVars
<1>5. Forward(o) /\ RowOK(o)'
  BY <1>1, <1>2 DEF TypeOK, RowTypes, GateTypes, HookTypes, ReqTypes, ReqOK, Busy, Opening, OpenSteps, FailSteps,
     HandedOver, RowOK, GatewayFollows, Settled, Charged, Forward, Confirmed, Create,
     SetGateway, EventOf, ApiFails, Goto, dbVars, gateVars, hookVars, reqVars, faultVars
<1>6. EventOK(o)'
  BY <1>1, <1>2 DEF TypeOK, RowTypes, GateTypes, HookTypes, ReqTypes, ReqOK, Busy, Opening, OpenSteps, FailSteps,
     HandedOver, RowOK, GatewayFollows, Settled, Charged, EventOK, SentOK, LoggedOK,
     PaymentOver, CompletedEvents, FailedEvents, Create, SetGateway, EventOf, ApiFails,
     Goto, dbVars, gateVars, hookVars, reqVars, faultVars
<1>7. ReqOK(r)'
  BY <1>1, <1>2, OrdersAssumption DEF TypeOK, RowTypes, GateTypes, HookTypes, ReqTypes,
     ReqOK, Busy, Opening, OpenSteps, FailSteps, HandedOver, RowOK, GatewayFollows, Settled, Charged, Create,
     SetGateway, EventOf, ApiFails, Goto, dbVars, gateVars, hookVars, reqVars, faultVars
<1>8. QED BY <1>1, <1>3, <1>4, <1>5, <1>6, <1>7, RequestKeeps

\* PayPay execution: the gateway waits for the customer, and has charged nothing.
LEMMA ExecutePayPayStep ==
  ASSUME IInv, NEW r \in Requests, ExecutePayPay(r)
  PROVE  IInv'
<1>1. PICK o \in Orders : o = on[r] /\ pc[r] \notin FailSteps
  BY DEF IInv, FailSteps, ReqOK, Busy, ExecutePayPay
<1>2. TypeOK /\ ReqOK(r) /\ RowOK(o) /\ EventOK(o)
  BY DEF IInv
<1>3. TypeOK'
  <2>1. GateTypes'
    BY <1>1, <1>2, GatewayTyped, ApiFailsGateTyped DEF TypeOK, GateTypes, gateVars,
       ExecutePayPay, GatewayStates
  <2>2. ReqTypes'
    BY <1>1, <1>2, ApiFailsTyped, GotoTyped DEF TypeOK, ExecutePayPay, Steps, DbSteps,
       ApiSteps, Replies
  <2>3. FaultTypes'
    BY <1>1, <1>2, BoundsAssumption, ApiFailsTyped DEF TypeOK, FaultTypes, faultVars,
       ExecutePayPay
  <2>4. RowTypes' /\ HookTypes'
    BY <1>1, <1>2 DEF TypeOK, RowTypes, HookTypes, dbVars, hookVars, ExecutePayPay
  <2>5. QED BY <2>1, <2>2, <2>3, <2>4 DEF TypeOK
<1>4. OnlyRow(o) /\ OnlySlot(r)
  BY <1>1, <1>2 DEF TypeOK, RowTypes, GateTypes, HookTypes, ReqTypes, OnlyRow, OnlySlot, OpenSteps,
     ExecutePayPay, SetGateway, EventOf, ApiFails, Goto, dbVars, gateVars, hookVars,
     reqVars, faultVars
<1>5. Forward(o) /\ RowOK(o)'
  BY <1>1, <1>2 DEF TypeOK, RowTypes, GateTypes, HookTypes, ReqTypes, ReqOK, Busy, Opening, OpenSteps, FailSteps,
     HandedOver, RowOK, GatewayFollows, Settled, Charged, Forward, Confirmed, ExecutePayPay,
     SetGateway, EventOf, ApiFails, Goto, dbVars, gateVars, hookVars, reqVars, faultVars
<1>6. EventOK(o)'
  BY <1>1, <1>2 DEF TypeOK, RowTypes, GateTypes, HookTypes, ReqTypes, ReqOK, Busy, Opening, OpenSteps, FailSteps,
     HandedOver, RowOK, GatewayFollows, Settled, Charged, EventOK, SentOK, LoggedOK,
     PaymentOver, CompletedEvents, FailedEvents, ExecutePayPay, SetGateway, EventOf,
     ApiFails, Goto, dbVars, gateVars, hookVars, reqVars, faultVars
<1>7. ReqOK(r)'
  BY <1>1, <1>2, OrdersAssumption DEF TypeOK, RowTypes, GateTypes, HookTypes, ReqTypes,
     ReqOK, Busy, Opening, OpenSteps, FailSteps, HandedOver, RowOK, GatewayFollows, Settled, Charged,
     ExecutePayPay, SetGateway, EventOf, ApiFails, Goto, dbVars, gateVars, hookVars,
     reqVars, faultVars
<1>8. QED BY <1>1, <1>3, <1>4, <1>5, <1>6, <1>7, RequestKeeps

\* The id is stored: from here on any request or webhook may work on the order.
LEMMA SaveStep ==
  ASSUME IInv, NEW r \in Requests, Save(r)
  PROVE  IInv'
<1>1. PICK o \in Orders : o = on[r] /\ pc[r] \notin FailSteps
  BY DEF IInv, FailSteps, ReqOK, Busy, Save
<1>2. TypeOK /\ ReqOK(r) /\ RowOK(o) /\ EventOK(o)
  BY DEF IInv
<1>3. TypeOK'
  <2>1. RowTypes'
    BY <1>1, <1>2 DEF TypeOK, RowTypes, dbVars, Save, PaymentAccepts, PaymentCanMove,
       PaymentMoves, SetPayment, PaymentStatus
  <2>2. ReqTypes'
    BY <1>1, <1>2, FinishTyped DEF TypeOK, Save, Steps, DbSteps, ApiSteps, Replies
  <2>3. GateTypes' /\ HookTypes' /\ FaultTypes'
    BY <1>1, <1>2 DEF TypeOK, GateTypes, HookTypes, FaultTypes, gateVars, hookVars, faultVars,
       Save
  <2>4. QED BY <2>1, <2>2, <2>3 DEF TypeOK
<1>4. OnlyRow(o) /\ OnlySlot(r)
  BY <1>1, <1>2 DEF TypeOK, RowTypes, GateTypes, HookTypes, ReqTypes, OnlyRow, OnlySlot, OpenSteps,
     Save, PaymentAccepts, PaymentCanMove, PaymentMoves, SetPayment, Finish, dbVars,
     gateVars, hookVars, reqVars, faultVars
<1>5. Forward(o) /\ RowOK(o)'
  BY <1>1, <1>2 DEF TypeOK, RowTypes, GateTypes, HookTypes, ReqTypes, ReqOK, Busy, Opening, OpenSteps, FailSteps,
     HandedOver, RowOK, GatewayFollows, Settled, Charged, Forward, Confirmed, Save,
     PaymentAccepts, PaymentCanMove, PaymentMoves, SetPayment, Finish, dbVars, gateVars,
     hookVars, reqVars, faultVars
<1>6. EventOK(o)'
  BY <1>1, <1>2 DEF TypeOK, RowTypes, GateTypes, HookTypes, ReqTypes, ReqOK, Busy, Opening, OpenSteps, FailSteps,
     HandedOver, RowOK, GatewayFollows, Settled, Charged, EventOK, SentOK, LoggedOK,
     PaymentOver, CompletedEvents, FailedEvents, Save, PaymentAccepts, PaymentCanMove,
     PaymentMoves, SetPayment, Finish, dbVars, gateVars, hookVars, reqVars, faultVars
<1>7. ReqOK(r)'
  BY <1>1, <1>2, OrdersAssumption DEF TypeOK, RowTypes, GateTypes, HookTypes, ReqTypes,
     ReqOK, Busy, Opening, OpenSteps, FailSteps, HandedOver, RowOK, GatewayFollows, Settled, Charged, Save,
     PaymentAccepts, PaymentCanMove, PaymentMoves, SetPayment, Finish, dbVars, gateVars,
     hookVars, reqVars, faultVars
<1>8. QED BY <1>1, <1>3, <1>4, <1>5, <1>6, <1>7, RequestKeeps

\* finalizePayment without a token begins only on a linked, unfinished payment.
LEMMA FinalizeConfirmStep ==
  ASSUME IInv, NEW r \in Requests, NEW o \in Orders, FinalizeConfirm(r, o)
  PROVE  IInv'
<1>1. TypeOK /\ ReqOK(r) /\ RowOK(o) /\ EventOK(o)
  BY DEF IInv
<1>2. UNCHANGED <<dbVars, gateVars, log, job>>
  BY <1>1 DEF FinalizeConfirm, Begin, Refuse, Finish, dbVars, gateVars, hookVars, reqVars,
     faultVars
<1>3. TypeOK'
  <2>1. ReqTypes'
    BY <1>1, BeginTyped, FinishTyped DEF TypeOK, FinalizeConfirm, Refuse, Steps, DbSteps,
       ApiSteps, Replies
  <2>2. RowTypes' /\ GateTypes' /\ HookTypes' /\ FaultTypes'
    BY <1>1 DEF TypeOK, RowTypes, GateTypes, HookTypes, FaultTypes, dbVars, gateVars,
       hookVars, faultVars, FinalizeConfirm
  <2>3. QED BY <2>1, <2>2 DEF TypeOK
<1>4. OnlySlot(r)
  BY <1>1 DEF TypeOK, ReqTypes, OnlySlot, OpenSteps, FinalizeConfirm, Begin, Refuse, Finish, dbVars,
     gateVars, hookVars, reqVars, faultVars
<1>5. ReqOK(r)'
  BY <1>1, <1>2 DEF TypeOK, RowTypes, GateTypes, HookTypes, ReqTypes, ReqOK, Busy, Opening, OpenSteps, FailSteps,
     HandedOver, RowOK, GatewayFollows, Settled, Charged, FinalizeConfirm, Begin, Refuse,
     Finish, dbVars, gateVars, hookVars, reqVars, faultVars
<1>6. QED BY <1>2, <1>3, <1>4, <1>5, SlotKeeps

\* finalizePayment with a card begins only on a linked card payment.
LEMMA FinalizeCardStep ==
  ASSUME IInv, NEW r \in Requests, NEW o \in Orders, FinalizeCard(r, o)
  PROVE  IInv'
<1>1. TypeOK /\ ReqOK(r) /\ RowOK(o) /\ EventOK(o)
  BY DEF IInv
<1>2. UNCHANGED <<dbVars, gateVars, log, job>>
  BY <1>1 DEF FinalizeCard, Begin, Refuse, Finish, dbVars, gateVars, hookVars, reqVars,
     faultVars
<1>3. TypeOK'
  <2>1. ReqTypes'
    BY <1>1, BeginTyped, FinishTyped DEF TypeOK, FinalizeCard, Refuse, Steps, DbSteps,
       ApiSteps, Replies
  <2>2. RowTypes' /\ GateTypes' /\ HookTypes' /\ FaultTypes'
    BY <1>1 DEF TypeOK, RowTypes, GateTypes, HookTypes, FaultTypes, dbVars, gateVars,
       hookVars, faultVars, FinalizeCard
  <2>3. QED BY <2>1, <2>2 DEF TypeOK
<1>4. OnlySlot(r)
  BY <1>1 DEF TypeOK, ReqTypes, OnlySlot, OpenSteps, FinalizeCard, Begin, Refuse, Finish, dbVars,
     gateVars, hookVars, reqVars, faultVars
<1>5. ReqOK(r)'
  BY <1>1, <1>2 DEF TypeOK, RowTypes, GateTypes, HookTypes, ReqTypes, ReqOK, Busy, Opening, OpenSteps, FailSteps,
     HandedOver, RowOK, GatewayFollows, Settled, Charged, FinalizeCard, Begin, Refuse,
     Finish, dbVars, gateVars, hookVars, reqVars, faultVars
<1>6. QED BY <1>2, <1>3, <1>4, <1>5, SlotKeeps

\* A card that cannot be saved ends the request before it has done anything.
LEMMA CardNotSavedStep ==
  ASSUME IInv, NEW r \in Requests, CardNotSaved(r)
  PROVE  IInv'
<1>1. PICK o \in Orders : o = on[r]
  BY DEF IInv, ReqOK, Busy, CardNotSaved
<1>2. TypeOK /\ ReqOK(r) /\ RowOK(o) /\ EventOK(o)
  BY DEF IInv
<1>3. UNCHANGED <<dbVars, gateVars, log, job>>
  BY <1>1, <1>2 DEF CardNotSaved, Finish, dbVars, gateVars, hookVars, reqVars, faultVars
<1>4. TypeOK'
  <2>1. ReqTypes'
    BY <1>1, <1>2, FinishTyped DEF TypeOK, CardNotSaved, Steps, DbSteps, ApiSteps, Replies
  <2>2. RowTypes' /\ GateTypes' /\ HookTypes' /\ FaultTypes'
    BY <1>1, <1>2 DEF TypeOK, RowTypes, GateTypes, HookTypes, FaultTypes, dbVars, gateVars,
       hookVars, faultVars, CardNotSaved
  <2>3. QED BY <2>1, <2>2 DEF TypeOK
<1>5. OnlySlot(r)
  BY <1>1, <1>2 DEF TypeOK, ReqTypes, OnlySlot, OpenSteps, CardNotSaved, Finish, dbVars, gateVars,
     hookVars, reqVars, faultVars
<1>6. ReqOK(r)'
  BY <1>1, <1>2, <1>3 DEF TypeOK, RowTypes, GateTypes, HookTypes, ReqTypes, ReqOK, Busy,
     Opening, OpenSteps, FailSteps, HandedOver, RowOK, GatewayFollows, Settled, Charged, CardNotSaved, Finish,
     dbVars, gateVars, hookVars, reqVars, faultVars
<1>7. QED BY <1>3, <1>4, <1>5, <1>6, SlotKeeps

\* The payment leaves Pending before the gateway is asked to charge it.
LEMMA MarkProcessingStep ==
  ASSUME IInv, NEW r \in Requests, MarkProcessing(r)
  PROVE  IInv'
<1>1. PICK o \in Orders : o = on[r] /\ pc[r] \notin FailSteps
  BY DEF IInv, FailSteps, ReqOK, Busy, MarkProcessing
<1>2. TypeOK /\ ReqOK(r) /\ RowOK(o) /\ EventOK(o)
  BY DEF IInv
<1>3. TypeOK'
  <2>1. RowTypes'
    BY <1>1, <1>2 DEF TypeOK, RowTypes, dbVars, MarkProcessing, PaymentAccepts,
       PaymentCanMove, PaymentMoves, SetPayment, PaymentStatus
  <2>2. ReqTypes'
    BY <1>1, <1>2, FinishTyped, GotoTyped DEF TypeOK, MarkProcessing, Steps, DbSteps,
       ApiSteps, Replies
  <2>3. GateTypes' /\ HookTypes' /\ FaultTypes'
    BY <1>1, <1>2 DEF TypeOK, GateTypes, HookTypes, FaultTypes, gateVars, hookVars, faultVars,
       MarkProcessing
  <2>4. QED BY <2>1, <2>2, <2>3 DEF TypeOK
<1>4. OnlyRow(o) /\ OnlySlot(r)
  BY <1>1, <1>2 DEF TypeOK, RowTypes, GateTypes, HookTypes, ReqTypes, OnlyRow, OnlySlot, OpenSteps,
     MarkProcessing, PaymentAccepts, PaymentCanMove, PaymentMoves, SetPayment, Finish, Goto,
     dbVars, gateVars, hookVars, reqVars, faultVars
<1>5. Forward(o) /\ RowOK(o)'
  BY <1>1, <1>2 DEF TypeOK, RowTypes, GateTypes, HookTypes, ReqTypes, ReqOK, Busy, Opening, OpenSteps, FailSteps,
     HandedOver, RowOK, GatewayFollows, Settled, Charged, Forward, Confirmed,
     MarkProcessing, PaymentAccepts, PaymentCanMove, PaymentMoves, SetPayment, Finish, Goto,
     dbVars, gateVars, hookVars, reqVars, faultVars
<1>6. EventOK(o)'
  BY <1>1, <1>2 DEF TypeOK, RowTypes, GateTypes, HookTypes, ReqTypes, ReqOK, Busy, Opening, OpenSteps, FailSteps,
     HandedOver, RowOK, GatewayFollows, Settled, Charged, EventOK, SentOK, LoggedOK,
     PaymentOver, CompletedEvents, FailedEvents, MarkProcessing, PaymentAccepts,
     PaymentCanMove, PaymentMoves, SetPayment, Finish, Goto, dbVars, gateVars, hookVars,
     reqVars, faultVars
<1>7. ReqOK(r)'
  BY <1>1, <1>2, OrdersAssumption DEF TypeOK, RowTypes, GateTypes, HookTypes, ReqTypes,
     ReqOK, Busy, Opening, OpenSteps, FailSteps, HandedOver, RowOK, GatewayFollows, Settled, Charged,
     MarkProcessing, PaymentAccepts, PaymentCanMove, PaymentMoves, SetPayment, Finish, Goto,
     dbVars, gateVars, hookVars, reqVars, faultVars
<1>8. QED BY <1>1, <1>3, <1>4, <1>5, <1>6, <1>7, RequestKeeps

\* The card execution asks for 3DS, and has charged nothing.
LEMMA ExecuteCardStep ==
  ASSUME IInv, NEW r \in Requests, ExecuteCard(r)
  PROVE  IInv'
<1>1. PICK o \in Orders : o = on[r] /\ pc[r] \notin FailSteps
  BY DEF IInv, FailSteps, ReqOK, Busy, ExecuteCard
<1>2. TypeOK /\ ReqOK(r) /\ RowOK(o) /\ EventOK(o)
  BY DEF IInv
<1>3. TypeOK'
  <2>1. GateTypes'
    BY <1>1, <1>2, GatewayTyped, ApiFailsGateTyped DEF TypeOK, GateTypes, gateVars,
       ExecuteCard, GatewayStates
  <2>2. ReqTypes'
    BY <1>1, <1>2, ApiFailsTyped, GotoTyped, FinishTyped DEF TypeOK, ExecuteCard, Steps,
       DbSteps, ApiSteps, Replies
  <2>3. FaultTypes'
    BY <1>1, <1>2, BoundsAssumption, ApiFailsTyped DEF TypeOK, FaultTypes, faultVars,
       ExecuteCard
  <2>4. RowTypes' /\ HookTypes'
    BY <1>1, <1>2 DEF TypeOK, RowTypes, HookTypes, dbVars, hookVars, ExecuteCard
  <2>5. QED BY <2>1, <2>2, <2>3, <2>4 DEF TypeOK
<1>4. OnlyRow(o) /\ OnlySlot(r)
  BY <1>1, <1>2 DEF TypeOK, RowTypes, GateTypes, HookTypes, ReqTypes, OnlyRow, OnlySlot, OpenSteps,
     ExecuteCard, SetGateway, EventOf, ApiFails, Goto, Finish, dbVars, gateVars, hookVars,
     reqVars, faultVars
<1>5. Forward(o) /\ RowOK(o)'
  BY <1>1, <1>2 DEF TypeOK, RowTypes, GateTypes, HookTypes, ReqTypes, ReqOK, Busy, Opening, OpenSteps, FailSteps,
     HandedOver, RowOK, GatewayFollows, Settled, Charged, Forward, Confirmed, ExecuteCard,
     SetGateway, EventOf, ApiFails, Goto, Finish, dbVars, gateVars, hookVars, reqVars,
     faultVars
<1>6. EventOK(o)'
  BY <1>1, <1>2 DEF TypeOK, RowTypes, GateTypes, HookTypes, ReqTypes, ReqOK, Busy, Opening, OpenSteps, FailSteps,
     HandedOver, RowOK, GatewayFollows, Settled, Charged, EventOK, SentOK, LoggedOK,
     PaymentOver, CompletedEvents, FailedEvents, ExecuteCard, SetGateway, EventOf, ApiFails,
     Goto, Finish, dbVars, gateVars, hookVars, reqVars, faultVars
<1>7. ReqOK(r)'
  BY <1>1, <1>2, OrdersAssumption DEF TypeOK, RowTypes, GateTypes, HookTypes, ReqTypes,
     ReqOK, Busy, Opening, OpenSteps, FailSteps, HandedOver, RowOK, GatewayFollows, Settled, Charged, ExecuteCard,
     SetGateway, EventOf, ApiFails, Goto, Finish, dbVars, gateVars, hookVars, reqVars,
     faultVars
<1>8. QED BY <1>1, <1>3, <1>4, <1>5, <1>6, <1>7, RequestKeeps

\* A PayPay request goes on to confirm only if it saw the charge.
LEMMA GetPaymentStep ==
  ASSUME IInv, NEW r \in Requests, GetPayment(r)
  PROVE  IInv'
<1>1. PICK o \in Orders : o = on[r]
  BY DEF IInv, ReqOK, Busy, GetPayment
<1>2. TypeOK /\ ReqOK(r) /\ RowOK(o) /\ EventOK(o)
  BY DEF IInv
<1>3. UNCHANGED <<dbVars, gateVars, log, job>>
  BY <1>1, <1>2 DEF GetPayment, SetGateway, EventOf, ApiFails, Goto, Finish, dbVars,
     gateVars, hookVars, reqVars, faultVars
<1>4. TypeOK'
  <2>1. ReqTypes'
    BY <1>1, <1>2, ApiFailsTyped, GotoTyped, FinishTyped DEF TypeOK, GetPayment, Steps,
       DbSteps, ApiSteps, Replies
  <2>2. FaultTypes'
    BY <1>1, <1>2, BoundsAssumption, ApiFailsTyped DEF TypeOK, FaultTypes, faultVars,
       GetPayment
  <2>3. RowTypes' /\ GateTypes' /\ HookTypes'
    BY <1>2, <1>3 DEF TypeOK, RowTypes, GateTypes, HookTypes, dbVars, gateVars, hookVars, GetPayment
  <2>4. QED BY <2>1, <2>2, <2>3 DEF TypeOK
<1>5. OnlySlot(r)
  BY <1>1, <1>2 DEF TypeOK, ReqTypes, OnlySlot, OpenSteps, GetPayment, SetGateway, EventOf, ApiFails,
     Goto, Finish, dbVars, gateVars, hookVars, reqVars, faultVars
<1>6. ReqOK(r)'
  BY <1>1, <1>2, <1>3 DEF TypeOK, RowTypes, GateTypes, HookTypes, ReqTypes, ReqOK, Busy,
     Opening, OpenSteps, FailSteps, HandedOver, RowOK, GatewayFollows, Settled, Charged, GetPayment, SetGateway,
     EventOf, ApiFails, Goto, Finish, dbVars, gateVars, hookVars, reqVars, faultVars
<1>7. QED BY <1>3, <1>4, <1>5, <1>6, SlotKeeps

\* The 3DS callback moves the payment on, or answers from what it finds.
LEMMA CallbackStep ==
  ASSUME IInv, NEW r \in Requests, NEW o \in Orders, NEW step \in {"auth", "authResult"}, Callback(r, o, step)
  PROVE  IInv'
<1>1. TypeOK /\ ReqOK(r) /\ RowOK(o) /\ EventOK(o)
  BY DEF IInv
<1>2. TypeOK'
  <2>1. RowTypes'
    BY <1>1 DEF TypeOK, RowTypes, dbVars, Callback, SetPayment, Refuse, PaymentOver,
       PaymentStatus
  <2>2. ReqTypes'
    BY <1>1, BeginTyped, FinishTyped DEF TypeOK, Callback, Refuse, Steps, DbSteps, ApiSteps,
       Replies
  <2>3. GateTypes' /\ HookTypes' /\ FaultTypes'
    BY <1>1 DEF TypeOK, GateTypes, HookTypes, FaultTypes, gateVars, hookVars, faultVars,
       Callback
  <2>4. QED BY <2>1, <2>2, <2>3 DEF TypeOK
<1>3. OnlyRow(o) /\ OnlySlot(r)
  BY <1>1 DEF TypeOK, RowTypes, GateTypes, HookTypes, ReqTypes, OnlyRow, OnlySlot, OpenSteps, Callback,
     SetPayment, Begin, Refuse, Finish, PaymentOver, dbVars, gateVars, hookVars, reqVars,
     faultVars
<1>4. Forward(o) /\ RowOK(o)'
  BY <1>1 DEF TypeOK, RowTypes, GateTypes, HookTypes, ReqTypes, ReqOK, Busy, Opening, OpenSteps, FailSteps,
     HandedOver, RowOK, GatewayFollows, Settled, Charged, Forward, Confirmed, Callback,
     SetPayment, Begin, Refuse, Finish, PaymentOver, dbVars, gateVars, hookVars, reqVars,
     faultVars
<1>5. EventOK(o)'
  BY <1>1 DEF TypeOK, RowTypes, GateTypes, HookTypes, ReqTypes, ReqOK, Busy, Opening, OpenSteps, FailSteps,
     HandedOver, RowOK, GatewayFollows, Settled, Charged, EventOK, SentOK, LoggedOK,
     PaymentOver, CompletedEvents, FailedEvents, Callback, SetPayment, Begin, Refuse,
     Finish, dbVars, gateVars, hookVars, reqVars, faultVars
<1>6. ReqOK(r)'
  BY <1>1, OrdersAssumption DEF TypeOK, RowTypes, GateTypes, HookTypes, ReqTypes, ReqOK,
     Busy, Opening, OpenSteps, FailSteps, HandedOver, RowOK, GatewayFollows, Settled, Charged, Callback,
     SetPayment, Begin, Refuse, Finish, PaymentOver, dbVars, gateVars, hookVars, reqVars,
     faultVars
<1>7. Beside(o)
  BY <1>1 DEF TypeOK, RowTypes, Beside, SameRow, Callback, SetPayment, Refuse
<1>8. QED BY <1>1, <1>2, <1>3, <1>4, <1>5, <1>6, <1>7, RequestKeeps

\* The authentication call leads to a challenge, a capture or a rejection.
LEMMA AuthenticateStep ==
  ASSUME IInv, NEW r \in Requests, Authenticate(r)
  PROVE  IInv'
<1>1. PICK o \in Orders : o = on[r] /\ pc[r] \notin FailSteps
  BY DEF IInv, FailSteps, ReqOK, Busy, Authenticate
<1>2. TypeOK /\ ReqOK(r) /\ RowOK(o) /\ EventOK(o)
  BY DEF IInv
<1>3. TypeOK'
  <2>1. GateTypes'
    BY <1>1, <1>2, GatewayTyped, ApiFailsGateTyped DEF TypeOK, GateTypes, gateVars,
       Authenticate, GatewayStates
  <2>2. ReqTypes'
    BY <1>1, <1>2, ApiFailsTyped, GotoTyped, FinishTyped DEF TypeOK, Authenticate, Steps,
       DbSteps, ApiSteps, Replies
  <2>3. FaultTypes'
    BY <1>1, <1>2, BoundsAssumption, ApiFailsTyped DEF TypeOK, FaultTypes, faultVars,
       Authenticate
  <2>4. RowTypes' /\ HookTypes'
    BY <1>1, <1>2 DEF TypeOK, RowTypes, HookTypes, dbVars, hookVars, Authenticate
  <2>5. QED BY <2>1, <2>2, <2>3, <2>4 DEF TypeOK
<1>4. OnlyRow(o) /\ OnlySlot(r)
  BY <1>1, <1>2 DEF TypeOK, RowTypes, GateTypes, HookTypes, ReqTypes, OnlyRow, OnlySlot, OpenSteps,
     Authenticate, SetGateway, EventOf, ApiFails, Goto, Finish, dbVars, gateVars, hookVars,
     reqVars, faultVars
<1>5. Forward(o) /\ RowOK(o)'
  BY <1>1, <1>2 DEF TypeOK, RowTypes, GateTypes, HookTypes, ReqTypes, ReqOK, Busy, Opening, OpenSteps, FailSteps,
     HandedOver, RowOK, GatewayFollows, Settled, Charged, Forward, Confirmed, Authenticate,
     SetGateway, EventOf, ApiFails, Goto, Finish, dbVars, gateVars, hookVars, reqVars,
     faultVars
<1>6. EventOK(o)'
  BY <1>1, <1>2 DEF TypeOK, RowTypes, GateTypes, HookTypes, ReqTypes, ReqOK, Busy, Opening, OpenSteps, FailSteps,
     HandedOver, RowOK, GatewayFollows, Settled, Charged, EventOK, SentOK, LoggedOK,
     PaymentOver, CompletedEvents, FailedEvents, Authenticate, SetGateway, EventOf,
     ApiFails, Goto, Finish, dbVars, gateVars, hookVars, reqVars, faultVars
<1>7. ReqOK(r)'
  BY <1>1, <1>2, OrdersAssumption DEF TypeOK, RowTypes, GateTypes, HookTypes, ReqTypes,
     ReqOK, Busy, Opening, OpenSteps, FailSteps, HandedOver, RowOK, GatewayFollows, Settled, Charged,
     Authenticate, SetGateway, EventOf, ApiFails, Goto, Finish, dbVars, gateVars, hookVars,
     reqVars, faultVars
<1>8. QED BY <1>1, <1>3, <1>4, <1>5, <1>6, <1>7, RequestKeeps

\* The result of the challenge leads to a capture or a rejection.
LEMMA AuthenticationResultStep ==
  ASSUME IInv, NEW r \in Requests, AuthenticationResult(r)
  PROVE  IInv'
<1>1. PICK o \in Orders : o = on[r]
  BY DEF IInv, ReqOK, Busy, AuthenticationResult
<1>2. TypeOK /\ ReqOK(r) /\ RowOK(o) /\ EventOK(o)
  BY DEF IInv
<1>3. UNCHANGED <<dbVars, gateVars, log, job>>
  BY <1>1, <1>2 DEF AuthenticationResult, SetGateway, EventOf, ApiFails, Goto, dbVars,
     gateVars, hookVars, reqVars, faultVars
<1>4. TypeOK'
  <2>1. ReqTypes'
    BY <1>1, <1>2, ApiFailsTyped, GotoTyped DEF TypeOK, AuthenticationResult, Steps, DbSteps,
       ApiSteps, Replies
  <2>2. FaultTypes'
    BY <1>1, <1>2, BoundsAssumption, ApiFailsTyped DEF TypeOK, FaultTypes, faultVars,
       AuthenticationResult
  <2>3. RowTypes' /\ GateTypes' /\ HookTypes'
    BY <1>2, <1>3 DEF TypeOK, RowTypes, GateTypes, HookTypes, dbVars, gateVars, hookVars, AuthenticationResult
  <2>4. QED BY <2>1, <2>2, <2>3 DEF TypeOK
<1>5. OnlySlot(r)
  BY <1>1, <1>2 DEF TypeOK, ReqTypes, OnlySlot, OpenSteps, AuthenticationResult, SetGateway, EventOf,
     ApiFails, Goto, dbVars, gateVars, hookVars, reqVars, faultVars
<1>6. ReqOK(r)'
  BY <1>1, <1>2, <1>3 DEF TypeOK, RowTypes, GateTypes, HookTypes, ReqTypes, ReqOK, Busy,
     Opening, OpenSteps, FailSteps, HandedOver, RowOK, GatewayFollows, Settled, Charged, AuthenticationResult,
     SetGateway, EventOf, ApiFails, Goto, dbVars, gateVars, hookVars, reqVars, faultVars
<1>7. QED BY <1>3, <1>4, <1>5, <1>6, SlotKeeps

\* A capture goes on to complete only if it saw the charge.
LEMMA CaptureStep ==
  ASSUME IInv, NEW r \in Requests, Capture(r)
  PROVE  IInv'
<1>1. PICK o \in Orders : o = on[r] /\ pc[r] \notin FailSteps
  BY DEF IInv, FailSteps, ReqOK, Busy, Capture
<1>2. TypeOK /\ ReqOK(r) /\ RowOK(o) /\ EventOK(o)
  BY DEF IInv
<1>3. TypeOK'
  <2>1. GateTypes'
    BY <1>1, <1>2, GatewayTyped, ApiFailsGateTyped DEF TypeOK, GateTypes, gateVars, Capture,
       GatewayStates
  <2>2. ReqTypes'
    BY <1>1, <1>2, ApiFailsTyped, GotoTyped DEF TypeOK, Capture, Steps, DbSteps, ApiSteps,
       Replies
  <2>3. FaultTypes'
    BY <1>1, <1>2, BoundsAssumption, ApiFailsTyped DEF TypeOK, FaultTypes, faultVars, Capture
  <2>4. RowTypes' /\ HookTypes'
    BY <1>1, <1>2 DEF TypeOK, RowTypes, HookTypes, dbVars, hookVars, Capture
  <2>5. QED BY <2>1, <2>2, <2>3, <2>4 DEF TypeOK
<1>4. OnlyRow(o) /\ OnlySlot(r)
  BY <1>1, <1>2 DEF TypeOK, RowTypes, GateTypes, HookTypes, ReqTypes, OnlyRow, OnlySlot, OpenSteps,
     Capture, SetGateway, EventOf, ApiFails, Goto, dbVars, gateVars, hookVars, reqVars,
     faultVars
<1>5. Forward(o) /\ RowOK(o)'
  BY <1>1, <1>2 DEF TypeOK, RowTypes, GateTypes, HookTypes, ReqTypes, ReqOK, Busy, Opening, OpenSteps, FailSteps,
     HandedOver, RowOK, GatewayFollows, Settled, Charged, Forward, Confirmed, Capture,
     SetGateway, EventOf, ApiFails, Goto, dbVars, gateVars, hookVars, reqVars, faultVars
<1>6. EventOK(o)'
  BY <1>1, <1>2 DEF TypeOK, RowTypes, GateTypes, HookTypes, ReqTypes, ReqOK, Busy, Opening, OpenSteps, FailSteps,
     HandedOver, RowOK, GatewayFollows, Settled, Charged, EventOK, SentOK, LoggedOK,
     PaymentOver, CompletedEvents, FailedEvents, Capture, SetGateway, EventOf, ApiFails,
     Goto, dbVars, gateVars, hookVars, reqVars, faultVars
<1>7. ReqOK(r)'
  BY <1>1, <1>2, OrdersAssumption DEF TypeOK, RowTypes, GateTypes, HookTypes, ReqTypes,
     ReqOK, Busy, Opening, OpenSteps, FailSteps, HandedOver, RowOK, GatewayFollows, Settled, Charged, Capture,
     SetGateway, EventOf, ApiFails, Goto, dbVars, gateVars, hookVars, reqVars, faultVars
<1>8. QED BY <1>1, <1>3, <1>4, <1>5, <1>6, <1>7, RequestKeeps

\* Payment and order are confirmed together, for a charge the request has seen.
LEMMA SettleStep ==
  ASSUME IInv, NEW r \in Requests, Complete(r) \/ Confirm(r)
  PROVE  IInv'
<1>1. PICK o \in Orders : o = on[r] /\ pc[r] \notin FailSteps
  BY DEF IInv, FailSteps, ReqOK, Busy, Settle, Complete, Confirm
<1>2. TypeOK /\ ReqOK(r) /\ RowOK(o) /\ EventOK(o)
  BY DEF IInv
<1>3. TypeOK'
  <2>1. RowTypes'
    BY <1>1, <1>2 DEF TypeOK, RowTypes, dbVars, Settle, PaymentAccepts, PaymentCanMove,
       PaymentMoves, SetPayment, OrderCanMove, OrderMoves, SetOrder, Complete, Confirm,
       OrderStatus, PaymentStatus
  <2>2. ReqTypes'
    BY <1>1, <1>2, FinishTyped DEF TypeOK, Settle, Complete, Confirm, Steps, DbSteps,
       ApiSteps, Replies
  <2>3. GateTypes' /\ HookTypes' /\ FaultTypes'
    BY <1>1, <1>2 DEF TypeOK, GateTypes, HookTypes, FaultTypes, gateVars, hookVars, faultVars,
       Settle, Complete, Confirm
  <2>4. QED BY <2>1, <2>2, <2>3 DEF TypeOK
<1>4. OnlyRow(o) /\ OnlySlot(r)
  BY <1>1, <1>2 DEF TypeOK, RowTypes, GateTypes, HookTypes, ReqTypes, OnlyRow, OnlySlot, OpenSteps,
     Settle, PaymentAccepts, PaymentCanMove, PaymentMoves, SetPayment, OrderCanMove,
     OrderMoves, SetOrder, Finish, Complete, Confirm, dbVars, gateVars, hookVars, reqVars,
     faultVars
<1>5. Forward(o) /\ RowOK(o)'
  BY <1>1, <1>2 DEF TypeOK, RowTypes, GateTypes, HookTypes, ReqTypes, ReqOK, Busy, Opening, OpenSteps, FailSteps,
     HandedOver, RowOK, GatewayFollows, Settled, Charged, Forward, Confirmed, Settle,
     PaymentAccepts, PaymentCanMove, PaymentMoves, SetPayment, OrderCanMove, OrderMoves,
     SetOrder, Finish, Complete, Confirm, dbVars, gateVars, hookVars, reqVars, faultVars
<1>6. EventOK(o)'
  BY <1>1, <1>2 DEF TypeOK, RowTypes, GateTypes, HookTypes, ReqTypes, ReqOK, Busy, Opening, OpenSteps, FailSteps,
     HandedOver, RowOK, GatewayFollows, Settled, Charged, EventOK, SentOK, LoggedOK,
     PaymentOver, CompletedEvents, FailedEvents, Settle, PaymentAccepts, PaymentCanMove,
     PaymentMoves, SetPayment, OrderCanMove, OrderMoves, SetOrder, Finish, Complete,
     Confirm, dbVars, gateVars, hookVars, reqVars, faultVars
<1>7. ReqOK(r)'
  BY <1>1, <1>2, OrdersAssumption DEF TypeOK, RowTypes, GateTypes, HookTypes, ReqTypes,
     ReqOK, Busy, Opening, OpenSteps, FailSteps, HandedOver, RowOK, GatewayFollows, Settled, Charged, Settle,
     PaymentAccepts, PaymentCanMove, PaymentMoves, SetPayment, OrderCanMove, OrderMoves,
     SetOrder, Finish, Complete, Confirm, dbVars, gateVars, hookVars, reqVars, faultVars
<1>8. QED BY <1>1, <1>3, <1>4, <1>5, <1>6, <1>7, RequestKeeps

\* Payment and order fail together, or neither moves.
LEMMA RejectBothStep ==
  ASSUME IInv, NEW r \in Requests, Reject(r) \/ Deny(r) \/ RefuseSavedCard(r)
  PROVE  IInv'
<1>1. PICK o \in Orders : o = on[r] /\ pc[r] \notin FailSteps
  BY DEF IInv, FailSteps, ReqOK, Busy, RejectBoth, Reject, Deny, RefuseSavedCard
<1>2. TypeOK /\ ReqOK(r) /\ RowOK(o) /\ EventOK(o)
  BY DEF IInv
<1>3. TypeOK'
  <2>1. RowTypes'
    BY <1>1, <1>2 DEF TypeOK, RowTypes, dbVars, RejectBoth, PaymentAccepts, PaymentCanMove,
       PaymentMoves, SetPayment, OrderCanMove, OrderMoves, SetOrder, Reject, Deny, RefuseSavedCard,
       OrderStatus, PaymentStatus
  <2>2. ReqTypes'
    BY <1>1, <1>2, FinishTyped DEF TypeOK, RejectBoth, Reject, Deny, RefuseSavedCard, Steps, DbSteps, ApiSteps,
       Replies
  <2>3. GateTypes' /\ HookTypes' /\ FaultTypes'
    BY <1>1, <1>2 DEF TypeOK, GateTypes, HookTypes, FaultTypes, gateVars, hookVars, faultVars,
       RejectBoth, Reject, Deny, RefuseSavedCard
  <2>4. QED BY <2>1, <2>2, <2>3 DEF TypeOK
<1>4. OnlyRow(o) /\ OnlySlot(r)
  BY <1>1, <1>2 DEF TypeOK, RowTypes, GateTypes, HookTypes, ReqTypes, OnlyRow, OnlySlot, OpenSteps,
     RejectBoth, PaymentAccepts, PaymentCanMove, PaymentMoves, SetPayment, OrderCanMove,
     OrderMoves, SetOrder, Finish, Reject, Deny, RefuseSavedCard, dbVars, gateVars, hookVars, reqVars,
     faultVars
<1>5. Forward(o) /\ RowOK(o)'
  BY <1>1, <1>2 DEF TypeOK, RowTypes, GateTypes, HookTypes, ReqTypes, ReqOK, Busy, Opening, OpenSteps, FailSteps,
     HandedOver, RowOK, GatewayFollows, Settled, Charged, Forward, Confirmed, RejectBoth,
     PaymentAccepts, PaymentCanMove, PaymentMoves, SetPayment, OrderCanMove, OrderMoves,
     SetOrder, Finish, Reject, Deny, RefuseSavedCard, dbVars, gateVars, hookVars, reqVars, faultVars
<1>6. EventOK(o)'
  BY <1>1, <1>2 DEF TypeOK, RowTypes, GateTypes, HookTypes, ReqTypes, ReqOK, Busy, Opening, OpenSteps, FailSteps,
     HandedOver, RowOK, GatewayFollows, Settled, Charged, EventOK, SentOK, LoggedOK,
     PaymentOver, CompletedEvents, FailedEvents, RejectBoth, PaymentAccepts, PaymentCanMove,
     PaymentMoves, SetPayment, OrderCanMove, OrderMoves, SetOrder, Finish, Reject, Deny, RefuseSavedCard,
     dbVars, gateVars, hookVars, reqVars, faultVars
<1>7. ReqOK(r)'
  BY <1>1, <1>2, OrdersAssumption DEF TypeOK, RowTypes, GateTypes, HookTypes, ReqTypes,
     ReqOK, Busy, Opening, OpenSteps, FailSteps, HandedOver, RowOK, GatewayFollows, Settled, Charged, RejectBoth,
     PaymentAccepts, PaymentCanMove, PaymentMoves, SetPayment, OrderCanMove, OrderMoves,
     SetOrder, Finish, Reject, Deny, RefuseSavedCard, dbVars, gateVars, hookVars, reqVars, faultVars
<1>8. QED BY <1>1, <1>3, <1>4, <1>5, <1>6, <1>7, RequestKeeps

\* markPaymentAndOrderAsFailed: a payment or order with a verdict keeps it.
LEMMA FailStep ==
  ASSUME IInv, NEW r \in Requests, Fail(r)
  PROVE  IInv'
<1>1. PICK o \in Orders : o = on[r]
  BY DEF IInv, ReqOK, Busy, Fail
<1>2. TypeOK /\ ReqOK(r) /\ RowOK(o) /\ EventOK(o)
  BY DEF IInv
<1>3. TypeOK'
  <2>1. RowTypes'
    BY <1>1, <1>2 DEF TypeOK, RowTypes, dbVars, Fail, PaymentAccepts, PaymentCanMove,
       PaymentMoves, SetPayment, OrderFollows, SetOrder, OrderStatus, PaymentStatus
  <2>2. ReqTypes'
    BY <1>1, <1>2, FinishTyped, GotoTyped DEF TypeOK, Fail, Steps, DbSteps, ApiSteps, Replies
  <2>3. GateTypes' /\ HookTypes' /\ FaultTypes'
    BY <1>1, <1>2 DEF TypeOK, GateTypes, HookTypes, FaultTypes, gateVars, hookVars, faultVars,
       Fail
  <2>4. QED BY <2>1, <2>2, <2>3 DEF TypeOK
<1>4. OnlyRow(o) /\ OnlySlot(r)
  BY <1>1, <1>2 DEF TypeOK, RowTypes, GateTypes, HookTypes, ReqTypes, OnlyRow, OnlySlot, OpenSteps,
     Fail, PaymentAccepts, PaymentCanMove, PaymentMoves, SetPayment, OrderFollows, SetOrder,
     Finish, Goto, dbVars, gateVars, hookVars, reqVars, faultVars
<1>5. Forward(o) /\ RowOK(o)'
  BY <1>1, <1>2 DEF TypeOK, RowTypes, GateTypes, HookTypes, ReqTypes, ReqOK, Busy, Opening, OpenSteps, FailSteps,
     HandedOver, RowOK, GatewayFollows, Settled, Charged, Forward, Confirmed, Fail,
     PaymentAccepts, PaymentCanMove, PaymentMoves, SetPayment, OrderFollows, SetOrder,
     Finish, Goto, dbVars, gateVars, hookVars, reqVars, faultVars
<1>6. EventOK(o)'
  BY <1>1, <1>2 DEF TypeOK, RowTypes, GateTypes, HookTypes, ReqTypes, ReqOK, Busy, Opening, OpenSteps, FailSteps,
     HandedOver, RowOK, GatewayFollows, Settled, Charged, EventOK, SentOK, LoggedOK,
     PaymentOver, CompletedEvents, FailedEvents, Fail, PaymentAccepts, PaymentCanMove,
     PaymentMoves, SetPayment, OrderFollows, SetOrder, Finish, Goto, dbVars, gateVars,
     hookVars, reqVars, faultVars
<1>7. ReqOK(r)'
  BY <1>1, <1>2, OrdersAssumption DEF TypeOK, RowTypes, GateTypes, HookTypes, ReqTypes,
     ReqOK, Busy, Opening, OpenSteps, FailSteps, HandedOver, RowOK, GatewayFollows, Settled, Charged, Fail,
     PaymentAccepts, PaymentCanMove, PaymentMoves, SetPayment, OrderFollows, SetOrder,
     Finish, Goto, dbVars, gateVars, hookVars, reqVars, faultVars
<1>8. o \in CardOrders => Beside(o)
  BY <1>1, <1>2 DEF Beside, SameRow, TypeOK, RowTypes, GateTypes, HookTypes, ReqTypes, ReqOK, Busy, Opening, OpenSteps, FailSteps,
     HandedOver, RowOK, GatewayFollows, Settled, Charged, Forward, Confirmed, Fail,
     PaymentAccepts, PaymentCanMove, PaymentMoves, SetPayment, OrderFollows, SetOrder,
     Finish, Goto, dbVars, gateVars, hookVars, reqVars, faultVars
<1>9. QED BY <1>1, <1>3, <1>4, <1>5, <1>6, <1>7, <1>8, RequestKeeps

\* The first fallback fails the payment alone, unless it has a verdict.
LEMMA FallbackPaymentStep ==
  ASSUME IInv, NEW r \in Requests, FallbackPayment(r)
  PROVE  IInv'
<1>1. PICK o \in Orders : o = on[r]
  BY DEF IInv, ReqOK, Busy, FallbackPayment
<1>2. TypeOK /\ ReqOK(r) /\ RowOK(o) /\ EventOK(o)
  BY DEF IInv
<1>3. TypeOK'
  <2>1. RowTypes'
    BY <1>1, <1>2 DEF TypeOK, RowTypes, dbVars, FallbackPayment, SetPayment, PaymentOver,
       PaymentStatus
  <2>2. ReqTypes'
    BY <1>1, <1>2, GotoTyped DEF TypeOK, FallbackPayment, Steps, DbSteps, ApiSteps, Replies
  <2>3. GateTypes' /\ HookTypes' /\ FaultTypes'
    BY <1>1, <1>2 DEF TypeOK, GateTypes, HookTypes, FaultTypes, gateVars, hookVars, faultVars,
       FallbackPayment
  <2>4. QED BY <2>1, <2>2, <2>3 DEF TypeOK
<1>4. OnlyRow(o) /\ OnlySlot(r)
  BY <1>1, <1>2 DEF TypeOK, RowTypes, GateTypes, HookTypes, ReqTypes, OnlyRow, OnlySlot, OpenSteps,
     FallbackPayment, SetPayment, Goto, PaymentOver, dbVars, gateVars, hookVars, reqVars,
     faultVars
<1>5. Forward(o) /\ RowOK(o)'
  BY <1>1, <1>2 DEF TypeOK, RowTypes, GateTypes, HookTypes, ReqTypes, ReqOK, Busy, Opening, OpenSteps, FailSteps,
     HandedOver, RowOK, GatewayFollows, Settled, Charged, Forward, Confirmed,
     FallbackPayment, SetPayment, Goto, PaymentOver, dbVars, gateVars, hookVars, reqVars,
     faultVars
<1>6. EventOK(o)'
  BY <1>1, <1>2 DEF TypeOK, RowTypes, GateTypes, HookTypes, ReqTypes, ReqOK, Busy, Opening, OpenSteps, FailSteps,
     HandedOver, RowOK, GatewayFollows, Settled, Charged, EventOK, SentOK, LoggedOK,
     PaymentOver, CompletedEvents, FailedEvents, FallbackPayment, SetPayment, Goto, dbVars,
     gateVars, hookVars, reqVars, faultVars
<1>7. ReqOK(r)'
  BY <1>1, <1>2, OrdersAssumption DEF TypeOK, RowTypes, GateTypes, HookTypes, ReqTypes,
     ReqOK, Busy, Opening, OpenSteps, FailSteps, HandedOver, RowOK, GatewayFollows, Settled, Charged,
     FallbackPayment, SetPayment, Goto, PaymentOver, dbVars, gateVars, hookVars, reqVars,
     faultVars
<1>8. o \in CardOrders => Beside(o)
  BY <1>1, <1>2 DEF Beside, SameRow, TypeOK, RowTypes, GateTypes, HookTypes, ReqTypes, ReqOK, Busy, Opening, OpenSteps, FailSteps,
     HandedOver, RowOK, GatewayFollows, Settled, Charged, Forward, Confirmed,
     FallbackPayment, SetPayment, Goto, PaymentOver, dbVars, gateVars, hookVars, reqVars,
     faultVars
<1>9. QED BY <1>1, <1>3, <1>4, <1>5, <1>6, <1>7, <1>8, RequestKeeps

\* The second fallback fails the order alone, if it still waits.
LEMMA FallbackOrderStep ==
  ASSUME IInv, NEW r \in Requests, FallbackOrder(r)
  PROVE  IInv'
<1>1. PICK o \in Orders : o = on[r]
  BY DEF IInv, ReqOK, Busy, FallbackOrder
<1>2. TypeOK /\ ReqOK(r) /\ RowOK(o) /\ EventOK(o)
  BY DEF IInv
<1>3. TypeOK'
  <2>1. RowTypes'
    BY <1>1, <1>2 DEF TypeOK, RowTypes, dbVars, FallbackOrder, OrderFollows, SetOrder,
       OrderStatus
  <2>2. ReqTypes'
    BY <1>1, <1>2, FinishTyped DEF TypeOK, FallbackOrder, Steps, DbSteps, ApiSteps, Replies
  <2>3. GateTypes' /\ HookTypes' /\ FaultTypes'
    BY <1>1, <1>2 DEF TypeOK, GateTypes, HookTypes, FaultTypes, gateVars, hookVars, faultVars,
       FallbackOrder
  <2>4. QED BY <2>1, <2>2, <2>3 DEF TypeOK
<1>4. OnlyRow(o) /\ OnlySlot(r)
  BY <1>1, <1>2 DEF TypeOK, RowTypes, GateTypes, HookTypes, ReqTypes, OnlyRow, OnlySlot, OpenSteps,
     FallbackOrder, OrderFollows, SetOrder, Finish, dbVars, gateVars, hookVars, reqVars,
     faultVars
<1>5. Forward(o) /\ RowOK(o)'
  BY <1>1, <1>2 DEF TypeOK, RowTypes, GateTypes, HookTypes, ReqTypes, ReqOK, Busy, Opening, OpenSteps, FailSteps,
     HandedOver, RowOK, GatewayFollows, Settled, Charged, Forward, Confirmed, FallbackOrder,
     OrderFollows, SetOrder, Finish, dbVars, gateVars, hookVars, reqVars, faultVars
<1>6. EventOK(o)'
  BY <1>1, <1>2 DEF TypeOK, RowTypes, GateTypes, HookTypes, ReqTypes, ReqOK, Busy, Opening, OpenSteps, FailSteps,
     HandedOver, RowOK, GatewayFollows, Settled, Charged, EventOK, SentOK, LoggedOK,
     PaymentOver, CompletedEvents, FailedEvents, FallbackOrder, OrderFollows, SetOrder,
     Finish, dbVars, gateVars, hookVars, reqVars, faultVars
<1>7. ReqOK(r)'
  BY <1>1, <1>2, OrdersAssumption DEF TypeOK, RowTypes, GateTypes, HookTypes, ReqTypes,
     ReqOK, Busy, Opening, OpenSteps, FailSteps, HandedOver, RowOK, GatewayFollows, Settled, Charged,
     FallbackOrder, OrderFollows, SetOrder, Finish, dbVars, gateVars, hookVars, reqVars,
     faultVars
<1>8. o \in CardOrders => Beside(o)
  BY <1>1, <1>2 DEF Beside, SameRow, TypeOK, RowTypes, GateTypes, HookTypes, ReqTypes, ReqOK, Busy, Opening, OpenSteps, FailSteps,
     HandedOver, RowOK, GatewayFollows, Settled, Charged, Forward, Confirmed, FallbackOrder,
     OrderFollows, SetOrder, Finish, dbVars, gateVars, hookVars, reqVars, faultVars
<1>9. QED BY <1>1, <1>3, <1>4, <1>5, <1>6, <1>7, <1>8, RequestKeeps

\* An aborted transaction writes nothing; the request goes to its next fallback.
LEMMA DbErrorStep ==
  ASSUME IInv, NEW r \in Requests, DbError(r)
  PROVE  IInv'
<1>1. PICK o \in Orders : o = on[r]
  BY DEF IInv, ReqOK, Busy, DbError, DbSteps
<1>2. TypeOK /\ ReqOK(r) /\ RowOK(o) /\ EventOK(o)
  BY DEF IInv
<1>3. UNCHANGED <<dbVars, gateVars, log, job>>
  BY <1>1, <1>2 DEF DbError, DbSteps, Goto, Finish, dbVars, gateVars, hookVars, reqVars,
     faultVars
<1>4. TypeOK'
  <2>1. ReqTypes'
    BY <1>1, <1>2, GotoTyped, FinishTyped DEF TypeOK, DbError, DbSteps, Steps, ApiSteps,
       Replies
  <2>2. FaultTypes'
    BY <1>1, <1>2, BoundsAssumption DEF TypeOK, FaultTypes, faultVars, DbError, DbSteps
  <2>3. RowTypes' /\ GateTypes' /\ HookTypes'
    BY <1>1, <1>2 DEF TypeOK, RowTypes, GateTypes, HookTypes, dbVars, gateVars, hookVars,
       DbError
  <2>4. QED BY <2>1, <2>2, <2>3 DEF TypeOK
<1>5. OnlySlot(r)
  BY <1>1, <1>2 DEF TypeOK, ReqTypes, OnlySlot, OpenSteps, DbError, DbSteps, Goto, Finish, dbVars,
     gateVars, hookVars, reqVars, faultVars
<1>6. ReqOK(r)'
  BY <1>1, <1>2, <1>3 DEF TypeOK, RowTypes, GateTypes, HookTypes, ReqTypes, ReqOK, Busy,
     Opening, OpenSteps, FailSteps, HandedOver, RowOK, GatewayFollows, Settled, Charged, DbError, DbSteps, Goto,
     Finish, dbVars, gateVars, hookVars, reqVars, faultVars
<1>7. QED BY <1>3, <1>4, <1>5, <1>6, SlotKeeps

\* A dead process leaves the rows as they are and frees its slot.
LEMMA CrashStep ==
  ASSUME IInv, NEW r \in Requests, Crash(r)
  PROVE  IInv'
<1>1. PICK o \in Orders : o = on[r]
  BY DEF IInv, ReqOK, Busy, Crash
<1>2. TypeOK /\ ReqOK(r) /\ RowOK(o) /\ EventOK(o)
  BY DEF IInv
<1>3. UNCHANGED <<dbVars, gateVars, log, job>>
  BY <1>1, <1>2 DEF Crash, Finish, dbVars, gateVars, hookVars, reqVars, faultVars
<1>4. TypeOK'
  <2>1. ReqTypes'
    BY <1>1, <1>2, FinishTyped DEF TypeOK, Crash, Steps, DbSteps, ApiSteps, Replies
  <2>2. FaultTypes'
    BY <1>1, <1>2, BoundsAssumption DEF TypeOK, FaultTypes, faultVars, Crash
  <2>3. RowTypes' /\ GateTypes' /\ HookTypes'
    BY <1>1, <1>2 DEF TypeOK, RowTypes, GateTypes, HookTypes, dbVars, gateVars, hookVars,
       Crash
  <2>4. QED BY <2>1, <2>2, <2>3 DEF TypeOK
<1>5. OnlySlot(r)
  BY <1>1, <1>2 DEF TypeOK, ReqTypes, OnlySlot, OpenSteps, Crash, Finish, dbVars, gateVars, hookVars,
     reqVars, faultVars
<1>6. ReqOK(r)'
  BY <1>1, <1>2, <1>3 DEF TypeOK, RowTypes, GateTypes, HookTypes, ReqTypes, ReqOK, Busy,
     Opening, OpenSteps, FailSteps, HandedOver, RowOK, GatewayFollows, Settled, Charged, Crash, Finish, dbVars,
     gateVars, hookVars, reqVars, faultVars
<1>7. QED BY <1>3, <1>4, <1>5, <1>6, SlotKeeps

\* A log row is written only for an event that was sent.
LEMMA ReceiveStep ==
  ASSUME IInv, NEW o \in Orders, NEW e \in Events, Receive(o, e)
  PROVE  IInv'
<1>1. TypeOK /\ RowOK(o) /\ EventOK(o)
  BY DEF IInv
<1>2. TypeOK'
  <2>1. HookTypes'
    BY <1>1 DEF TypeOK, HookTypes, hookVars, Receive, SetLog, SetJob
  <2>2. RowTypes' /\ GateTypes' /\ ReqTypes' /\ FaultTypes'
    BY <1>1 DEF TypeOK, RowTypes, GateTypes, ReqTypes, FaultTypes, dbVars, gateVars, reqVars,
       faultVars, Receive
  <2>3. QED BY <2>1, <2>2 DEF TypeOK
<1>3. OnlyRow(o) /\ UNCHANGED reqVars
  BY <1>1 DEF TypeOK, RowTypes, GateTypes, HookTypes, ReqTypes, OnlyRow, Receive, SetLog,
     SetJob, dbVars, gateVars, hookVars, reqVars, faultVars
<1>4. Forward(o) /\ RowOK(o)' /\ (linked[o] \/ SameRow(o)) /\ linked'[o] = linked[o]
  BY <1>1 DEF TypeOK, RowTypes, GateTypes, HookTypes, RowOK, GatewayFollows, Settled,
     EventOK, SentOK, Charged, Forward, SameRow, Confirmed, Receive, SetLog, SetJob, dbVars,
     gateVars, hookVars, reqVars, faultVars
<1>5. EventOK(o)'
  BY <1>1 DEF TypeOK, RowTypes, GateTypes, HookTypes, RowOK, GatewayFollows, Settled,
     EventOK, SentOK, Charged, LoggedOK, PaymentOver, CompletedEvents, FailedEvents,
     Receive, SetLog, SetJob, dbVars, gateVars, hookVars, reqVars, faultVars
<1>6. QED BY <1>2, <1>3, <1>4, <1>5, RowKeeps

\* A job is queued only for an event with a log row.
LEMMA DispatchStep ==
  ASSUME IInv, NEW o \in Orders, NEW e \in Events, Dispatch(o, e)
  PROVE  IInv'
<1>1. TypeOK /\ RowOK(o) /\ EventOK(o)
  BY DEF IInv
<1>2. TypeOK'
  <2>1. HookTypes'
    BY <1>1 DEF TypeOK, HookTypes, hookVars, Dispatch, SetJob
  <2>2. RowTypes' /\ GateTypes' /\ ReqTypes' /\ FaultTypes'
    BY <1>1 DEF TypeOK, RowTypes, GateTypes, ReqTypes, FaultTypes, dbVars, gateVars, reqVars,
       faultVars, Dispatch
  <2>3. QED BY <2>1, <2>2 DEF TypeOK
<1>3. OnlyRow(o) /\ UNCHANGED reqVars
  BY <1>1 DEF TypeOK, RowTypes, GateTypes, HookTypes, ReqTypes, OnlyRow, Dispatch, SetJob,
     dbVars, gateVars, hookVars, reqVars, faultVars
<1>4. Forward(o) /\ RowOK(o)' /\ (linked[o] \/ SameRow(o)) /\ linked'[o] = linked[o]
  BY <1>1 DEF TypeOK, RowTypes, GateTypes, HookTypes, RowOK, GatewayFollows, Settled,
     EventOK, SentOK, Charged, Forward, SameRow, Confirmed, Dispatch, SetJob, dbVars,
     gateVars, hookVars, reqVars, faultVars
<1>5. EventOK(o)'
  BY <1>1 DEF TypeOK, RowTypes, GateTypes, HookTypes, RowOK, GatewayFollows, Settled,
     EventOK, SentOK, Charged, LoggedOK, PaymentOver, CompletedEvents, FailedEvents,
     Dispatch, SetJob, dbVars, gateVars, hookVars, reqVars, faultVars
<1>6. QED BY <1>2, <1>3, <1>4, <1>5, RowKeeps

\* A dispatch that is lost leaves the log row without a job.
LEMMA LoseDispatchStep ==
  ASSUME IInv, NEW o \in Orders, NEW e \in Events, LoseDispatch(o, e)
  PROVE  IInv'
<1>1. TypeOK /\ RowOK(o) /\ EventOK(o)
  BY DEF IInv
<1>2. TypeOK'
  <2>1. HookTypes'
    BY <1>1 DEF TypeOK, HookTypes, hookVars, LoseDispatch, SetJob
  <2>2. FaultTypes'
    BY <1>1, BoundsAssumption DEF TypeOK, FaultTypes, faultVars, LoseDispatch
  <2>3. RowTypes' /\ GateTypes' /\ ReqTypes'
    BY <1>1 DEF TypeOK, RowTypes, GateTypes, ReqTypes, dbVars, gateVars, reqVars, LoseDispatch
  <2>4. QED BY <2>1, <2>2, <2>3 DEF TypeOK
<1>3. OnlyRow(o) /\ UNCHANGED reqVars
  BY <1>1 DEF TypeOK, RowTypes, GateTypes, HookTypes, ReqTypes, OnlyRow, LoseDispatch,
     SetJob, dbVars, gateVars, hookVars, reqVars, faultVars
<1>4. Forward(o) /\ RowOK(o)' /\ (linked[o] \/ SameRow(o)) /\ linked'[o] = linked[o]
  BY <1>1 DEF TypeOK, RowTypes, GateTypes, HookTypes, RowOK, GatewayFollows, Settled,
     EventOK, SentOK, Charged, Forward, SameRow, Confirmed, LoseDispatch, SetJob, dbVars,
     gateVars, hookVars, reqVars, faultVars
<1>5. EventOK(o)'
  BY <1>1 DEF TypeOK, RowTypes, GateTypes, HookTypes, RowOK, GatewayFollows, Settled,
     EventOK, SentOK, Charged, LoggedOK, PaymentOver, CompletedEvents, FailedEvents,
     LoseDispatch, SetJob, dbVars, gateVars, hookVars, reqVars, faultVars
<1>6. QED BY <1>2, <1>3, <1>4, <1>5, RowKeeps

\* A job that succeeds has done what its event asks for, and says so.
LEMMA RunJobStep ==
  ASSUME IInv, NEW o \in Orders, NEW e \in Events, RunJob(o, e)
  PROVE  IInv'
<1>1. TypeOK /\ RowOK(o) /\ EventOK(o)
  BY DEF IInv
<1>2. TypeOK'
  <2>1. RowTypes'
    BY <1>1, ProcessEventTyped DEF RunJob
  <2>2. HookTypes'
    BY <1>1, TriesAssumption, ProcessEventTyped DEF TypeOK, HookTypes, RunJob, CanAttempt, SetJob
  <2>3. GateTypes' /\ ReqTypes' /\ FaultTypes'
    BY <1>1 DEF TypeOK, GateTypes, ReqTypes, FaultTypes, gateVars, reqVars, faultVars, RunJob,
       ProcessEvent
  <2>4. QED BY <2>1, <2>2, <2>3 DEF TypeOK
<1>3. OnlyRow(o) /\ UNCHANGED reqVars
  BY <1>1 DEF TypeOK, RowTypes, GateTypes, HookTypes, ReqTypes, OnlyRow, RunJob, SetJob,
     CanAttempt, ProcessEvent, HandleCompleted, HandleFailed, HandleRefunded, OrderFollows,
     SetOrder, SetLog, CompletedEvents, FailedEvents, PaymentAccepts, PaymentCanMove,
     PaymentMoves, SetPayment, dbVars, gateVars, hookVars, reqVars, faultVars
<1>4. Forward(o) /\ RowOK(o)' /\ (linked[o] \/ SameRow(o)) /\ linked'[o] = linked[o]
  BY ProcessEventKeeps DEF RunJob, CanAttempt
<1>5. EventOK(o)'
  BY <1>1 DEF TypeOK, RowTypes, GateTypes, HookTypes, RowOK, GatewayFollows, Settled,
     EventOK, SentOK, Charged, LoggedOK, PaymentOver, CompletedEvents, FailedEvents, RunJob,
     SetJob, CanAttempt, ProcessEvent, HandleCompleted, HandleFailed, HandleRefunded,
     OrderFollows, SetOrder, SetLog, PaymentAccepts, PaymentCanMove, PaymentMoves,
     SetPayment, dbVars, gateVars, hookVars, reqVars, faultVars
<1>6. QED BY <1>2, <1>3, <1>4, <1>5, RowKeeps

\* A job that fails is released with nothing written but its attempt.
LEMMA RetryJobStep ==
  ASSUME IInv, NEW o \in Orders, NEW e \in Events, RetryJob(o, e)
  PROVE  IInv'
<1>1. TypeOK /\ RowOK(o) /\ EventOK(o)
  BY DEF IInv
<1>2. TypeOK'
  <2>1. HookTypes'
    BY <1>1, TriesAssumption DEF TypeOK, HookTypes, hookVars, RetryJob, UseAttempt, CanAttempt
  <2>2. FaultTypes'
    BY <1>1, BoundsAssumption DEF TypeOK, FaultTypes, faultVars, RetryJob, CanAttempt
  <2>3. RowTypes' /\ GateTypes' /\ ReqTypes'
    BY <1>1 DEF TypeOK, RowTypes, GateTypes, ReqTypes, dbVars, gateVars, reqVars, RetryJob
  <2>4. QED BY <2>1, <2>2, <2>3 DEF TypeOK
<1>3. OnlyRow(o) /\ UNCHANGED reqVars
  BY <1>1 DEF TypeOK, RowTypes, GateTypes, HookTypes, ReqTypes, OnlyRow, RetryJob,
     UseAttempt, CanAttempt, dbVars, gateVars, hookVars, reqVars, faultVars
<1>4. Forward(o) /\ RowOK(o)' /\ (linked[o] \/ SameRow(o)) /\ linked'[o] = linked[o]
  BY <1>1 DEF TypeOK, RowTypes, GateTypes, HookTypes, RowOK, GatewayFollows, Settled,
     EventOK, SentOK, Charged, Forward, SameRow, Confirmed, RetryJob, UseAttempt,
     CanAttempt, dbVars, gateVars, hookVars, reqVars, faultVars
<1>5. EventOK(o)'
  BY <1>1 DEF TypeOK, RowTypes, GateTypes, HookTypes, RowOK, GatewayFollows, Settled,
     EventOK, SentOK, Charged, LoggedOK, PaymentOver, CompletedEvents, FailedEvents,
     RetryJob, UseAttempt, CanAttempt, dbVars, gateVars, hookVars, reqVars, faultVars
<1>6. QED BY <1>2, <1>3, <1>4, <1>5, RowKeeps

\* A job killed after its commit has done its work and runs again.
LEMMA RepeatJobStep ==
  ASSUME IInv, NEW o \in Orders, NEW e \in Events, RepeatJob(o, e)
  PROVE  IInv'
<1>1. TypeOK /\ RowOK(o) /\ EventOK(o)
  BY DEF IInv
<1>2. TypeOK'
  <2>1. RowTypes'
    BY <1>1, ProcessEventTyped DEF RepeatJob
  <2>2. HookTypes'
    <3>1. PICK s \in {"processed", "failed"} : log' = [log EXCEPT ![o][e] = s]
      BY <1>1, ProcessEventTyped DEF RepeatJob
    <3>2. tries[o][e] + 1 \in 0..Tries
      BY <1>1, TriesAssumption DEF TypeOK, HookTypes, RepeatJob, CanAttempt
    <3>3. QED BY <1>1, <3>1, <3>2 DEF TypeOK, HookTypes, RepeatJob, UseAttempt
  <2>3. FaultTypes'
    BY <1>1, BoundsAssumption DEF TypeOK, FaultTypes, faultVars, RepeatJob, CanAttempt,
       CompletedEvents, FailedEvents
  <2>4. GateTypes' /\ ReqTypes'
    BY <1>1 DEF TypeOK, GateTypes, ReqTypes, gateVars, reqVars, RepeatJob, ProcessEvent
  <2>5. QED BY <2>1, <2>2, <2>3, <2>4 DEF TypeOK
<1>3. OnlyRow(o) /\ UNCHANGED reqVars
  BY <1>1 DEF TypeOK, RowTypes, GateTypes, HookTypes, ReqTypes, OnlyRow, RepeatJob,
     UseAttempt, CanAttempt, ProcessEvent, HandleCompleted, HandleFailed, HandleRefunded,
     OrderFollows, SetOrder, SetLog, CompletedEvents, FailedEvents, PaymentAccepts,
     PaymentCanMove, PaymentMoves, SetPayment, dbVars, gateVars, hookVars, reqVars,
     faultVars
<1>4. Forward(o) /\ RowOK(o)' /\ (linked[o] \/ SameRow(o)) /\ linked'[o] = linked[o]
  BY ProcessEventKeeps DEF RepeatJob, CanAttempt
<1>5. EventOK(o)'
  BY <1>1 DEF TypeOK, RowTypes, GateTypes, HookTypes, RowOK, GatewayFollows, Settled,
     EventOK, SentOK, Charged, LoggedOK, PaymentOver, CompletedEvents, FailedEvents,
     RepeatJob, UseAttempt, CanAttempt, ProcessEvent, HandleCompleted, HandleFailed,
     HandleRefunded, OrderFollows, SetOrder, SetLog, PaymentAccepts, PaymentCanMove,
     PaymentMoves, SetPayment, dbVars, gateVars, hookVars, reqVars, faultVars
<1>6. QED BY <1>2, <1>3, <1>4, <1>5, RowKeeps

\* After the last attempt the row says failed, and nothing else moves.
LEMMA GiveUpStep ==
  ASSUME IInv, NEW o \in Orders, NEW e \in Events, GiveUp(o, e)
  PROVE  IInv'
<1>1. TypeOK /\ RowOK(o) /\ EventOK(o)
  BY DEF IInv
<1>2. TypeOK'
  <2>1. HookTypes'
    BY <1>1 DEF TypeOK, HookTypes, hookVars, GiveUp, SetLog, SetJob
  <2>2. RowTypes' /\ GateTypes' /\ ReqTypes' /\ FaultTypes'
    BY <1>1 DEF TypeOK, RowTypes, GateTypes, ReqTypes, FaultTypes, dbVars, gateVars, reqVars,
       faultVars, GiveUp
  <2>3. QED BY <2>1, <2>2 DEF TypeOK
<1>3. OnlyRow(o) /\ UNCHANGED reqVars
  BY <1>1 DEF TypeOK, RowTypes, GateTypes, HookTypes, ReqTypes, OnlyRow, GiveUp, SetLog,
     SetJob, dbVars, gateVars, hookVars, reqVars, faultVars
<1>4. Forward(o) /\ RowOK(o)' /\ (linked[o] \/ SameRow(o)) /\ linked'[o] = linked[o]
  BY <1>1 DEF TypeOK, RowTypes, GateTypes, HookTypes, RowOK, GatewayFollows, Settled,
     EventOK, SentOK, Charged, Forward, SameRow, Confirmed, GiveUp, SetLog, SetJob, dbVars,
     gateVars, hookVars, reqVars, faultVars
<1>5. EventOK(o)'
  BY <1>1 DEF TypeOK, RowTypes, GateTypes, HookTypes, RowOK, GatewayFollows, Settled,
     EventOK, SentOK, Charged, LoggedOK, PaymentOver, CompletedEvents, FailedEvents, GiveUp,
     SetLog, SetJob, dbVars, gateVars, hookVars, reqVars, faultVars
<1>6. QED BY <1>2, <1>3, <1>4, <1>5, RowKeeps

\* The kitchen moves only an order that is already confirmed.
LEMMA KitchenStep ==
  ASSUME IInv, NEW o \in Orders, NEW s \in KitchenStatus, Kitchen(o, s)
  PROVE  IInv'
<1>1. TypeOK /\ RowOK(o) /\ EventOK(o)
  BY DEF IInv
<1>2. TypeOK'
  <2>1. RowTypes'
    BY <1>1 DEF TypeOK, RowTypes, dbVars, Kitchen, KitchenStatus, OrderCanMove, OrderMoves,
       SetOrder, OrderStatus
  <2>2. GateTypes' /\ HookTypes' /\ ReqTypes' /\ FaultTypes'
    BY <1>1 DEF TypeOK, GateTypes, HookTypes, ReqTypes, FaultTypes, gateVars, hookVars,
       reqVars, faultVars, Kitchen
  <2>3. QED BY <2>1, <2>2 DEF TypeOK
<1>3. OnlyRow(o) /\ UNCHANGED reqVars
  BY <1>1 DEF TypeOK, RowTypes, GateTypes, HookTypes, ReqTypes, OnlyRow, Kitchen,
     KitchenStatus, OrderCanMove, OrderMoves, SetOrder, dbVars, gateVars, hookVars, reqVars,
     faultVars
<1>4. Forward(o) /\ RowOK(o)' /\ (linked[o] \/ SameRow(o)) /\ linked'[o] = linked[o]
  BY <1>1 DEF TypeOK, RowTypes, GateTypes, HookTypes, RowOK, GatewayFollows, Settled,
     EventOK, SentOK, Charged, Forward, SameRow, Confirmed, Kitchen, KitchenStatus,
     OrderCanMove, OrderMoves, SetOrder, dbVars, gateVars, hookVars, reqVars, faultVars
<1>5. EventOK(o)'
  BY <1>1 DEF TypeOK, RowTypes, GateTypes, HookTypes, RowOK, GatewayFollows, Settled,
     EventOK, SentOK, Charged, LoggedOK, PaymentOver, CompletedEvents, FailedEvents,
     Kitchen, KitchenStatus, OrderCanMove, OrderMoves, SetOrder, dbVars, gateVars, hookVars,
     reqVars, faultVars
<1>6. QED BY <1>2, <1>3, <1>4, <1>5, RowKeeps

\* The customer answers the 3DS challenge at the bank; no row moves.
LEMMA AnswerChallengeStep ==
  ASSUME IInv, NEW o \in Orders, AnswerChallenge(o)
  PROVE  IInv'
<1>1. TypeOK /\ RowOK(o) /\ EventOK(o)
  BY DEF IInv
<1>2. TypeOK'
  <2>1. GateTypes'
    BY <1>1, GatewayTyped DEF TypeOK, GateTypes, gateVars, AnswerChallenge, GatewayOnly,
       GatewayStates
  <2>2. RowTypes' /\ HookTypes' /\ ReqTypes' /\ FaultTypes'
    BY <1>1 DEF TypeOK, RowTypes, HookTypes, ReqTypes, FaultTypes, dbVars, hookVars, reqVars,
       faultVars, AnswerChallenge, GatewayOnly
  <2>3. QED BY <2>1, <2>2 DEF TypeOK
<1>3. OnlyRow(o) /\ UNCHANGED reqVars
  BY <1>1 DEF TypeOK, RowTypes, GateTypes, HookTypes, ReqTypes, OnlyRow, AnswerChallenge,
     SetGateway, EventOf, GatewayOnly, dbVars, gateVars, hookVars, reqVars, faultVars
<1>4. Forward(o) /\ RowOK(o)' /\ (linked[o] \/ SameRow(o)) /\ linked'[o] = linked[o]
  BY <1>1 DEF TypeOK, RowTypes, GateTypes, HookTypes, RowOK, GatewayFollows, Settled,
     EventOK, SentOK, Charged, Forward, SameRow, Confirmed, AnswerChallenge, SetGateway,
     EventOf, GatewayOnly, dbVars, gateVars, hookVars, reqVars, faultVars
<1>5. EventOK(o)'
  BY <1>1 DEF TypeOK, RowTypes, GateTypes, HookTypes, RowOK, GatewayFollows, Settled,
     EventOK, SentOK, Charged, LoggedOK, PaymentOver, CompletedEvents, FailedEvents,
     AnswerChallenge, SetGateway, EventOf, GatewayOnly, dbVars, gateVars, hookVars, reqVars,
     faultVars
<1>6. QED BY <1>2, <1>3, <1>4, <1>5, RowKeeps

\* PayPay ends with or without a charge, of a payment that has left Pending.
LEMMA EndPayPayStep ==
  ASSUME IInv, NEW o \in Orders, EndPayPay(o)
  PROVE  IInv'
<1>1. TypeOK /\ RowOK(o) /\ EventOK(o)
  BY DEF IInv
<1>2. TypeOK'
  <2>1. GateTypes'
    BY <1>1, GatewayTyped DEF TypeOK, GateTypes, gateVars, EndPayPay, GatewayOnly,
       GatewayStates
  <2>2. RowTypes' /\ HookTypes' /\ ReqTypes' /\ FaultTypes'
    BY <1>1 DEF TypeOK, RowTypes, HookTypes, ReqTypes, FaultTypes, dbVars, hookVars, reqVars,
       faultVars, EndPayPay, GatewayOnly
  <2>3. QED BY <2>1, <2>2 DEF TypeOK
<1>3. OnlyRow(o) /\ UNCHANGED reqVars
  BY <1>1 DEF TypeOK, RowTypes, GateTypes, HookTypes, ReqTypes, OnlyRow, EndPayPay,
     SetGateway, EventOf, GatewayOnly, dbVars, gateVars, hookVars, reqVars, faultVars
<1>4. Forward(o) /\ RowOK(o)' /\ (linked[o] \/ SameRow(o)) /\ linked'[o] = linked[o]
  BY <1>1 DEF TypeOK, RowTypes, GateTypes, HookTypes, RowOK, GatewayFollows, Settled,
     EventOK, SentOK, Charged, Forward, SameRow, Confirmed, EndPayPay, SetGateway, EventOf,
     GatewayOnly, dbVars, gateVars, hookVars, reqVars, faultVars
<1>5. EventOK(o)'
  BY <1>1 DEF TypeOK, RowTypes, GateTypes, HookTypes, RowOK, GatewayFollows, Settled,
     EventOK, SentOK, Charged, LoggedOK, PaymentOver, CompletedEvents, FailedEvents,
     EndPayPay, SetGateway, EventOf, GatewayOnly, dbVars, gateVars, hookVars, reqVars,
     faultVars
<1>6. QED BY <1>2, <1>3, <1>4, <1>5, RowKeeps

\* Money goes back only for a payment that was charged.
LEMMA RefundStep ==
  ASSUME IInv, NEW o \in Orders, Refund(o)
  PROVE  IInv'
<1>1. TypeOK /\ RowOK(o) /\ EventOK(o)
  BY DEF IInv
<1>2. TypeOK'
  <2>1. GateTypes'
    BY <1>1, GatewayTyped DEF TypeOK, GateTypes, gateVars, Refund, GatewayOnly, GatewayStates
  <2>2. RowTypes' /\ HookTypes' /\ ReqTypes' /\ FaultTypes'
    BY <1>1 DEF TypeOK, RowTypes, HookTypes, ReqTypes, FaultTypes, dbVars, hookVars, reqVars,
       faultVars, Refund, GatewayOnly
  <2>3. QED BY <2>1, <2>2 DEF TypeOK
<1>3. OnlyRow(o) /\ UNCHANGED reqVars
  BY <1>1 DEF TypeOK, RowTypes, GateTypes, HookTypes, ReqTypes, OnlyRow, Refund, SetGateway,
     EventOf, GatewayOnly, dbVars, gateVars, hookVars, reqVars, faultVars
<1>4. Forward(o) /\ RowOK(o)' /\ (linked[o] \/ SameRow(o)) /\ linked'[o] = linked[o]
  BY <1>1 DEF TypeOK, RowTypes, GateTypes, HookTypes, RowOK, GatewayFollows, Settled,
     EventOK, SentOK, Charged, Forward, SameRow, Confirmed, Refund, SetGateway, EventOf,
     GatewayOnly, dbVars, gateVars, hookVars, reqVars, faultVars
<1>5. EventOK(o)'
  BY <1>1 DEF TypeOK, RowTypes, GateTypes, HookTypes, RowOK, GatewayFollows, Settled,
     EventOK, SentOK, Charged, LoggedOK, PaymentOver, CompletedEvents, FailedEvents, Refund,
     SetGateway, EventOf, GatewayOnly, dbVars, gateVars, hookVars, reqVars, faultVars
<1>6. QED BY <1>2, <1>3, <1>4, <1>5, RowKeeps

-----------------------------------------------------------------------------
(* The invariant holds initially and every step keeps it                   *)

\* With no order, no request and no event the invariant holds.
LEMMA InitOK == Init => IInv
<1> SUFFICES ASSUME Init PROVE IInv
  OBVIOUS
<1>1. TypeOK
  BY TriesAssumption, BoundsAssumption DEF Init, TypeOK, RowTypes, GateTypes, HookTypes, ReqTypes,
     FaultTypes, GatewayStates, Steps, Replies
<1>2. Alone /\ \A r \in Requests : ReqOK(r)
  BY OrdersAssumption DEF Init, Alone, ReqOK, Busy, Opening, OpenSteps, FailSteps, HandedOver
<1>3. \A o \in Orders : RowOK(o) /\ EventOK(o)
  BY DEF Init, RowOK, GatewayFollows, Settled, Charged, Confirmed, EventOK, SentOK, LoggedOK
<1>4. QED BY <1>1, <1>2, <1>3 DEF IInv

\* It speaks of the variables of PaymentFlow only.
LEMMA StutterOK == IInv /\ UNCHANGED vars => IInv'
BY DEF IInv, vars, dbVars, gateVars, hookVars, reqVars, faultVars, TypeOK, RowTypes, GateTypes,
   HookTypes, ReqTypes, FaultTypes, Alone, ReqOK, Busy, Opening, OpenSteps, FailSteps, HandedOver, RowOK,
   GatewayFollows, Settled, Charged, EventOK, SentOK, LoggedOK

\* The steps that take up an order keep the invariant.
LEMMA EntryOK ==
  ASSUME IInv, NEW r \in Requests, NEW o \in Orders, RequestEntry(r, o)
  PROVE  IInv'
BY CheckoutStep, FinalizeConfirmStep, FinalizeCardStep, CallbackStep DEF RequestEntry

\* The steps of a request under way keep the invariant.
LEMMA RequestOK ==
  ASSUME IInv, NEW r \in Requests, RequestStep(r)
  PROVE  IInv'
BY InitiateStep, CreateStep, ExecutePayPayStep, SaveStep, CardNotSavedStep,
   MarkProcessingStep, ExecuteCardStep, GetPaymentStep, AuthenticateStep,
   AuthenticationResultStep, CaptureStep, SettleStep, RejectBothStep, FailStep,
   FallbackPaymentStep, FallbackOrderStep DEF RequestStep

\* Every step of the system keeps the invariant.
LEMMA NextOK == IInv /\ [Next]_vars => IInv'
<1> SUFFICES ASSUME IInv, [Next]_vars PROVE IInv'
  OBVIOUS
<1>1. CASE \E r \in Requests : \/ \E o \in Orders : RequestEntry(r, o)
                              \/ RequestStep(r) \/ DbError(r) \/ Crash(r)
  BY <1>1, EntryOK, RequestOK, DbErrorStep, CrashStep
<1>2. CASE \E o \in Orders, e \in Events : WebhookStep(o, e) \/ Fault(o, e)
  BY <1>2, ReceiveStep, DispatchStep, RunJobStep, GiveUpStep, LoseDispatchStep, RetryJobStep,
     RepeatJobStep DEF WebhookStep, Fault
<1>3. CASE \E o \in Orders : \/ \E s \in KitchenStatus : Kitchen(o, s)
                            \/ AnswerChallenge(o) \/ EndPayPay(o) \/ Refund(o)
  BY <1>3, KitchenStep, AnswerChallengeStep, EndPayPayStep, RefundStep
<1>4. CASE UNCHANGED vars
  BY <1>4, StutterOK
<1>5. QED BY <1>1, <1>2, <1>3, <1>4 DEF Next

\* In every reachable state, whatever overlaps or fails, the invariant holds.
THEOREM Inductive == Spec => []IInv
BY InitOK, NextOK, PTL DEF Spec

\* What the invariant says, in the terms the runs check.
LEMMA IInvImplies ==
  IInv => NothingUnpaid /\ NoEarlyCapture /\ AnnouncedOnce /\ ProcessedIsDone /\ RefundedIsRefunded
BY DEF IInv, RowOK, GatewayFollows, Settled, Charged, EventOK, LoggedOK, NothingUnpaid,
   NoEarlyCapture, AnnouncedOnce, ProcessedIsDone, RefundedIsRefunded

\* Every variable keeps its type.
THEOREM TypeCorrect == Spec => []TypeOK
BY Inductive, PTL DEF IInv

\* Nothing reaches the kitchen, and no order is refunded, unpaid.
THEOREM NeverUnpaid == Spec => []NothingUnpaid
BY Inductive, IInvImplies, PTL

\* fincode never holds money for a payment whose row still says Pending.
THEOREM NeverEarly == Spec => []NoEarlyCapture
BY Inductive, IInvImplies, PTL

\* PaymentCompleted is fired at most once for an order, however many requests
\* and webhooks complete its payment.
THEOREM NeverAnnouncedTwice == Spec => []AnnouncedOnce
BY Inductive, IInvImplies, PTL

\* A webhook log row marked processed has had its effect on payment and order.
THEOREM ProcessedTellsTruth == Spec => []ProcessedIsDone
BY Inductive, IInvImplies, PTL

\* An order is shown as refunded only after fincode gave the money back.
THEOREM NeverRefundedEarly == Spec => []RefundedIsRefunded
BY Inductive, IInvImplies, PTL

-----------------------------------------------------------------------------
(* A job that runs again                                                   *)

\* Once its log row says processed, the event finds the rows as it left them,
\* or further: handlePaymentCompleted and handlePaymentFailed write nothing.
LEMMA ProcessedIsFinal ==
  ASSUME IInv, NEW o \in Orders, NEW e \in CompletedEvents \cup FailedEvents,
         log[o][e] = "processed", ProcessEvent(o, e)
  PROVE  UNCHANGED dbVars
<1>1. /\ e \in CompletedEvents => payment[o] = "Completed" /\ order[o] \notin {"PendingPayment", "Paid"}
      /\ e \in FailedEvents => payment[o] \in PaymentOver /\ order[o] # "PendingPayment"
      /\ RowTypes /\ e \in Events
  BY IInvImplies DEF ProcessedIsDone, IInv, TypeOK, Events, CompletedEvents, FailedEvents
<1>2. CASE UNCHANGED <<order, payment, announced>>
  BY <1>2 DEF ProcessEvent, dbVars
<1>3. CASE e \in CompletedEvents /\ HandleCompleted(o, e)
  <2>1. payment[o] = "Completed" /\ UNCHANGED order
    BY <1>1, <1>3 DEF HandleCompleted
  <2>2. UNCHANGED payment
    BY <1>1, <1>3, <2>1 DEF HandleCompleted, SetPayment, RowTypes
  <2>3. announced[o] + 0 = announced[o] /\ announced = [announced EXCEPT ![o] = announced[o]]
    BY <1>1 DEF RowTypes
  <2>4. UNCHANGED announced
    BY <1>3, <2>1, <2>3 DEF HandleCompleted
  <2>5. QED BY <2>1, <2>2, <2>4 DEF ProcessEvent, dbVars
<1>4. CASE e \in FailedEvents /\ HandleFailed(o, e)
  <2>1. UNCHANGED <<order, payment, announced>>
    BY <1>1, <1>4 DEF HandleFailed, OrderFollows
  <2>2. QED BY <2>1 DEF ProcessEvent, dbVars
<1>5. QED
  BY <1>2, <1>3, <1>4 DEF ProcessEvent, CompletedEvents, FailedEvents

\* A completed or failed event that runs again after its first run committed
\* changes nothing, however often the queue hands its job out and wherever the
\* kitchen has moved the order meanwhile (ProcessPaymentWebhookJob).
THEOREM RepeatsChangeNothing == Spec => RepeatIsHarmless
<1> DEFINE Harmless(o, e) ==
        log[o][e] = "processed" /\ hookVars # hookVars' /\ <<tries[o][e], job[o][e]>> # <<tries'[o][e], job'[o][e]>>
          => UNCHANGED dbVars
           AllHarmless == \A o \in Orders, e \in CompletedEvents \cup FailedEvents : Harmless(o, e)
<1>1. ASSUME IInv, [Next]_vars, NEW o \in Orders, NEW e \in CompletedEvents \cup FailedEvents PROVE Harmless(o, e)
  <2>1. CASE UNCHANGED <<tries, job>>
    BY <2>1
  <2>2. CASE UNCHANGED dbVars
    BY <2>2
  <2>3. ASSUME NEW p \in Orders, NEW f \in Events, RunJob(p, f) \/ RepeatJob(p, f) PROVE Harmless(o, e)
    <3>1. CASE p = o /\ f = e
      BY <1>1, <2>3, <3>1, ProcessedIsFinal DEF RunJob, RepeatJob
    <3>2. CASE ~(p = o /\ f = e)
      <4>1. e \in Events /\ HookTypes
        BY <1>1 DEF IInv, TypeOK, Events, CompletedEvents, FailedEvents
      <4>2. tries'[o][e] = tries[o][e] /\ job'[o][e] = job[o][e]
        BY <2>3, <3>2, <4>1 DEF RunJob, RepeatJob, SetJob, UseAttempt, HookTypes
      <4>3. QED BY <4>2
    <3>3. QED BY <3>1, <3>2
  <2>4. \/ UNCHANGED <<tries, job>>
        \/ UNCHANGED dbVars
        \/ \E p \in Orders, f \in Events : RunJob(p, f) \/ RepeatJob(p, f)
    <3>1. CASE UNCHANGED vars
      BY <3>1 DEF vars, dbVars
    <3>2. CASE \E r \in Requests : \/ \E p \in Orders : RequestEntry(r, p)
                                  \/ RequestStep(r) \/ DbError(r) \/ Crash(r)
      BY <3>2 DEF RequestEntry, Checkout, FinalizeConfirm, FinalizeCard, Callback, RequestStep, Initiate,
         RefuseSavedCard, Create, ExecutePayPay, Save, CardNotSaved, MarkProcessing, ExecuteCard, GetPayment,
         Authenticate, AuthenticationResult, Capture, Complete, Confirm, Reject, Deny, RejectBoth, Settle, Fail,
         FallbackPayment, FallbackOrder, DbError, Crash, hookVars
    <3>3. CASE \E p \in Orders, f \in Events : WebhookStep(p, f) \/ Fault(p, f)
      BY <3>3 DEF WebhookStep, Fault, Receive, Dispatch, GiveUp, LoseDispatch, RetryJob
    <3>4. CASE \E p \in Orders : \/ \E s \in KitchenStatus : Kitchen(p, s)
                                \/ AnswerChallenge(p) \/ EndPayPay(p) \/ Refund(p)
      BY <3>4 DEF Kitchen, AnswerChallenge, EndPayPay, Refund, GatewayOnly, hookVars
    <3>5. QED BY <1>1, <3>1, <3>2, <3>3, <3>4 DEF Next
  <2>5. QED BY <2>1, <2>2, <2>3, <2>4
<1>2. IInv /\ [Next]_vars => [AllHarmless]_vars
  BY <1>1
<1>3. QED BY <1>2, Inductive, PTL DEF Spec, RepeatIsHarmless
=============================================================================
