----------------------------- MODULE CartStore -----------------------------
(***************************************************************************)
(* The cart in the browser: one zustand store for every page, changed first *)
(* and sent afterwards.  Quantities are collected per item and sent in      *)
(* batches, one batch at a time; removals, clearing and additions are sent  *)
(* at once; a refused change is taken back, unless something newer happened *)
(* to the item.  Fetches and additions answer with the cart as it was on    *)
(* the server when they were served.                                       *)
(*                                                                         *)
(* One cart of one restaurant.  An item is its quantity, 0 when it is not   *)
(* in the cart; subtotals and counts are computed from the quantities       *)
(* (recalculateCart), and positions in the list are left out.               *)
(***************************************************************************)
EXTENDS Naturals, FiniteSets

CONSTANTS
    Items,      \* cart_items rows, each added at most once
    AtFirst,    \* those in the cart at the start, one of each
    Fetches,    \* slots for fetchCarts calls that overlap
    MaxQuantity,\* MAX_ITEM_QUANTITY
    MaxActs,    \* bound: what the customer does
    MaxFails    \* bound: requests that fail, or whose answer is lost

ASSUME AtFirstAssumption == AtFirst \subseteq Items
ASSUME CountsAssumption  == MaxQuantity \in Nat \ {0} /\ MaxActs \in Nat /\ MaxFails \in Nat

VARIABLES
    server, unborn,         \* cart_items.quantity; rows nobody has added yet
    shown, listed, loading, \* state.carts, and whether the cart is among them; isLoading
    seq,                    \* quantityOperationSeq
    queued, timer,          \* pendingQuantityUpdates, quantityFlushTimer
    flushing, again,        \* isFlushingQuantityUpdates, shouldFlushQuantityUpdates
    sent,                   \* the PATCH of each item in the batch under way
    removal, clearing, addition, fetch, \* the other requests
    away,                   \* logged out
    visit,                  \* router.visit of the checkout page: asked for, or arriving
    quote, hurried, ordered,\* the checkout page: see below
    choice, doubt,          \* history: the last quantity asked for; see Agrees
    acts, fails

storeVars == <<shown, listed, loading>>
queueVars == <<seq, queued, timer, flushing, again>>
otherVars == <<removal, clearing, addition, fetch>>
pastVars  == <<choice, doubt>>
serverVars == <<server, unborn>>
paying     == <<visit, quote, hurried, ordered>>
vars == <<serverVars, storeVars, queueVars, sent, otherVars, away, paying, pastVars, acts, fails>>

Quantity == 0 .. MaxQuantity
Empty    == [i \in Items |-> 0]

\* A quantity update: what was asked, and the QuantityRollbackContext, whose
\* before is 0 when the item was not in the list.
NoUpdate == [pc |-> "none", quantity |-> 0, op |-> 0, before |-> 0]
\* Any other request: what it takes back, or the cart it was answered with.
NoRequest == [pc |-> "none", cart |-> Empty]

Init ==
    /\ server = [i \in Items |-> IF i \in AtFirst THEN 1 ELSE 0]
    /\ unborn = Items \ AtFirst
    /\ shown = Empty /\ listed = FALSE /\ loading = FALSE
    /\ seq = Empty
    /\ queued = [i \in Items |-> NoUpdate] /\ sent = [i \in Items |-> NoUpdate]
    /\ timer = FALSE /\ flushing = FALSE /\ again = FALSE
    /\ removal  = [i \in Items |-> NoRequest]
    /\ addition = [i \in Items |-> NoRequest]
    /\ fetch    = [f \in Fetches |-> NoRequest]
    /\ clearing = NoRequest
    /\ away = FALSE
    /\ visit = "none" /\ quote = Empty /\ hurried = FALSE /\ ordered = "nothing"
    /\ choice = Empty /\ doubt = FALSE
    /\ acts = 0 /\ fails = 0

\* No change is under way, and none is waiting to be.
NoChange ==
    /\ \A i \in Items : /\ queued[i].pc = "none" /\ sent[i].pc = "none"
                        /\ removal[i].pc = "none" /\ addition[i].pc = "none"
    /\ clearing.pc = "none"
Quiet == NoChange /\ \A f \in Fetches : fetch[f].pc = "none"

\* What the customer does, at most MaxActs times, away from the checkout page
\* (which takes the place of the cart only when it has arrived).
Acts  == ~away /\ (quote = Empty \/ visit = "arriving") /\ acts < MaxActs /\ acts' = acts + 1
\* A change of the cart: too late for a checkout page that is rendered.
Changes == /\ Acts /\ hurried' = (hurried \/ visit = "arriving")
           /\ UNCHANGED <<visit, quote, ordered>>
Fails == fails < MaxFails /\ fails' = fails + 1

\* The page of the cart hides its sections while it is loading, and offers the
\* checkout for a cart with something in it.
CartShown     == ~loading /\ listed
OffersToOrder == CartShown /\ shown # Empty

-----------------------------------------------------------------------------
\* Quantities.

\* applyOptimisticQuantityUpdate: only what is in the list changes.
Adjusted(i, quantity) == [shown EXCEPT ![i] = IF @ > 0 THEN quantity ELSE 0]

\* Mutant: an update that waits already stays as it is.
JoinedFirst(i, quantity) ==
    IF queued[i].pc = "queued" THEN queued[i]
    ELSE [pc |-> "queued", quantity |-> quantity, op |-> seq[i] + 1, before |-> shown[i]]

\* An update joins the one that waits for this item, whose value to go back
\* to it keeps.
Joined(i, quantity) ==
    [pc |-> "queued", quantity |-> quantity, op |-> seq[i] + 1,
     before |-> IF queued[i].pc = "queued" /\ queued[i].before > 0 THEN queued[i].before ELSE shown[i]]

\* updateQuantity: the list changes, and the debounce starts anew.
UpdateQuantity(i, quantity) ==
    /\ seq' = [seq EXCEPT ![i] = @ + 1]
    /\ shown' = Adjusted(i, quantity)
    /\ queued' = [queued EXCEPT ![i] = Joined(i, quantity)]
    /\ timer' = TRUE
    /\ choice' = [choice EXCEPT ![i] = quantity]

\* QuantityControl: one more or one less, within the limits.
Step(i) ==
    /\ Changes /\ CartShown /\ shown[i] > 0
    /\ \/ shown[i] < MaxQuantity /\ UpdateQuantity(i, shown[i] + 1)
       \/ shown[i] > 1 /\ UpdateQuantity(i, shown[i] - 1)
    /\ UNCHANGED <<serverVars, listed, loading, flushing, again, sent, otherVars, away, doubt, fails>>

\* One turn of the loop: everything that waits becomes the next batch.
TakeBatch(waiting) ==
    /\ sent' = [i \in Items |->
                  IF waiting[i].pc = "queued" THEN [waiting[i] EXCEPT !.pc = "sent"] ELSE NoUpdate]
    /\ queued' = [i \in Items |-> NoUpdate]

\* flushQuantityUpdates when the timer fires.
Flush ==
    /\ timer /\ timer' = FALSE
    /\ IF flushing THEN again' = TRUE /\ UNCHANGED <<queued, flushing, sent>>
       ELSE IF \A i \in Items : queued[i].pc = "none" THEN UNCHANGED <<queued, flushing, again, sent>>
       ELSE TakeBatch(queued) /\ flushing' = TRUE /\ UNCHANGED again
    /\ UNCHANGED <<serverVars, storeVars, seq, otherVars, away, paying, pastVars, acts, fails>>

\* The server sets the quantity of a row that exists, for its owner.
ServeUpdate(i) ==
    /\ sent[i].pc = "sent"
    /\ IF server[i] > 0 /\ ~away
       THEN /\ server' = [server EXCEPT ![i] = sent[i].quantity]
            /\ sent' = [sent EXCEPT ![i].pc = "done"]
       ELSE sent' = [sent EXCEPT ![i].pc = "refused"] /\ UNCHANGED server
    /\ UNCHANGED <<unborn, storeVars, queueVars, otherVars, away, paying, pastVars, acts, fails>>

FailUpdate(i) ==
    /\ sent[i].pc \in {"sent", "done"} /\ Fails
    /\ doubt' = (doubt \/ sent[i].pc = "done")
    /\ sent' = [sent EXCEPT ![i].pc = "refused"]
    /\ UNCHANGED <<serverVars, storeVars, queueVars, otherVars, away, paying, choice, acts>>

\* Mutant: whatever has happened since.
TakenBackBlindly(i) == [shown EXCEPT ![i] = sent[i].before]

\* rollbackOptimisticQuantityUpdate: only the newest operation is taken back,
\* and only from the value it had set.
TakenBack(i) ==
    IF seq[i] = sent[i].op /\ listed /\ shown[i] > 0 /\ shown[i] = sent[i].quantity /\ sent[i].before > 0
    THEN [shown EXCEPT ![i] = sent[i].before] ELSE shown

\* Mutant: no finally.
EndFlushKeepsFlag == UNCHANGED <<flushing, again>> /\ timer' = (timer \/ again)

\* The loop ends, and starts the timer if somebody asked meanwhile.
EndFlush == flushing' = FALSE /\ again' = FALSE /\ timer' = (timer \/ again)

\* An answer, and, with the last one of the batch, the next batch or the end.
SettleUpdate(i) ==
    LET last == \A j \in Items \ {i} : sent[j].pc = "none"
        more == \E j \in Items : queued[j].pc = "queued"
    IN /\ sent[i].pc \in {"done", "refused"}
       /\ shown' = IF sent[i].pc = "refused" THEN TakenBack(i) ELSE shown
       /\ IF last /\ more THEN TakeBatch(queued) /\ UNCHANGED <<timer, flushing, again>>
          ELSE /\ sent' = [sent EXCEPT ![i] = NoUpdate]
               /\ UNCHANGED queued
               /\ IF last THEN EndFlush ELSE UNCHANGED <<timer, flushing, again>>
       /\ UNCHANGED <<serverVars, listed, loading, seq, otherVars, away, paying, pastVars, acts, fails>>

-----------------------------------------------------------------------------
\* Removing an item and clearing the cart.

\* applyOptimisticItemRemoval, and the request whose failure it is kept for.
TakeOut(i) ==
    /\ shown' = [shown EXCEPT ![i] = 0]
    /\ removal' = [removal EXCEPT ![i] = [pc |-> "sent", cart |-> shown]]

\* The bin of CartItemCard.
RemoveItem(i) ==
    /\ Changes /\ CartShown /\ shown[i] > 0 /\ removal[i].pc = "none"
    /\ TakeOut(i)
    /\ UNCHANGED <<serverVars, listed, loading, queueVars, sent, clearing, addition, fetch,
                   away, pastVars, fails>>

ServeRemoval(i) ==
    /\ removal[i].pc = "sent"
    /\ removal' = [removal EXCEPT ![i].pc = IF server[i] > 0 /\ ~away THEN "done" ELSE "refused"]
    /\ server' = IF away THEN server ELSE [server EXCEPT ![i] = 0]
    /\ UNCHANGED <<unborn, storeVars, queueVars, sent, clearing, addition, fetch,
                   away, paying, pastVars, acts, fails>>

FailRemoval(i) ==
    /\ removal[i].pc \in {"sent", "done"} /\ Fails
    /\ doubt' = (doubt \/ removal[i].pc = "done")
    /\ removal' = [removal EXCEPT ![i].pc = "refused"]
    /\ UNCHANGED <<serverVars, storeVars, queueVars, sent, clearing, addition, fetch,
                   away, paying, choice, acts>>

\* rollbackOptimisticItemRemoval: the item comes back as it was, if its cart
\* is there and has not got it already.
SettleRemoval(i) ==
    /\ removal[i].pc \in {"done", "refused"}
    /\ shown' = IF removal[i].pc = "refused" /\ listed /\ shown[i] = 0
                THEN [shown EXCEPT ![i] = removal[i].cart[i]] ELSE shown
    /\ removal' = [removal EXCEPT ![i] = NoRequest]
    /\ UNCHANGED <<serverVars, listed, loading, queueVars, sent, clearing, addition, fetch,
                   away, paying, pastVars, acts, fails>>

\* applyOptimisticClearCart, and the request.
TakeAway == /\ listed' = FALSE /\ shown' = Empty
            /\ clearing' = [pc |-> "sent", cart |-> shown]

\* The link of CartSection, after the page's ConfirmDialog.
ClearCart ==
    /\ Changes /\ CartShown /\ clearing.pc = "none"
    /\ TakeAway
    /\ UNCHANGED <<serverVars, loading, queueVars, sent, removal, addition, fetch,
                   away, pastVars, fails>>

ServeClearing ==
    /\ clearing.pc = "sent"
    /\ clearing' = [clearing EXCEPT !.pc = IF away THEN "refused" ELSE "done"]
    /\ server' = IF away THEN server ELSE Empty
    /\ UNCHANGED <<unborn, storeVars, queueVars, sent, removal, addition, fetch,
                   away, paying, pastVars, acts, fails>>

FailClearing ==
    /\ clearing.pc \in {"sent", "done"} /\ Fails
    /\ doubt' = (doubt \/ clearing.pc = "done")
    /\ clearing' = [clearing EXCEPT !.pc = "refused"]
    /\ UNCHANGED <<serverVars, storeVars, queueVars, sent, removal, addition, fetch,
                   away, paying, choice, acts>>

\* rollbackOptimisticClearCart: nothing, if a cart has come in the meantime.
SettleClearing ==
    /\ clearing.pc \in {"done", "refused"}
    /\ IF clearing.pc = "refused" /\ ~listed THEN listed' = TRUE /\ shown' = clearing.cart
       ELSE UNCHANGED <<listed, shown>>
    /\ clearing' = NoRequest
    /\ UNCHANGED <<serverVars, loading, queueVars, sent, removal, addition, fetch,
                   away, paying, pastVars, acts, fails>>

-----------------------------------------------------------------------------
\* Answers that carry the whole cart.

\* The cart of an answer replaces what is shown, changes under way included.
\* It is as good as the server's if nothing is, and it is not old.
TakeOver(cart) ==
    /\ shown' = cart
    /\ doubt' = (doubt \/ cart # server \/ clearing.pc # "none"
                   \/ \E i \in Items : {queued[i].pc, sent[i].pc, removal[i].pc} # {"none"})

AddToCart(i) ==
    /\ Changes /\ i \in unborn /\ addition[i].pc = "none"
    /\ addition' = [addition EXCEPT ![i].pc = "sent"]
    /\ UNCHANGED <<serverVars, storeVars, queueVars, sent, removal, clearing, fetch,
                   away, pastVars, fails>>

ServeAddition(i) ==
    /\ addition[i].pc = "sent" /\ ~away
    /\ server' = [server EXCEPT ![i] = 1]
    /\ unborn' = unborn \ {i}
    /\ addition' = [addition EXCEPT ![i] = [pc |-> "done", cart |-> server']]
    /\ UNCHANGED <<storeVars, queueVars, sent, removal, clearing, fetch,
                   away, paying, pastVars, acts, fails>>

SettleAddition(i) ==
    /\ addition[i].pc = "done"
    /\ TakeOver(addition[i].cart) /\ listed' = TRUE
    /\ addition' = [addition EXCEPT ![i] = NoRequest]
    /\ UNCHANGED <<serverVars, loading, queueVars, sent, removal, clearing, fetch,
                   away, paying, choice, acts, fails>>

\* Refused, or lost on either way: only an error is shown.
FailAddition(i) ==
    /\ addition[i].pc # "none"
    /\ \/ away /\ addition[i].pc = "sent" /\ UNCHANGED <<doubt, fails>>
       \/ Fails /\ doubt' = (doubt \/ addition[i].pc = "done")
    /\ addition' = [addition EXCEPT ![i] = NoRequest]
    /\ UNCHANGED <<serverVars, storeVars, queueVars, sent, removal, clearing, fetch,
                   away, paying, choice, acts>>

\* useCart's effect: every page that shows the cart fetches it once.
FetchCarts(f) ==
    /\ Acts /\ fetch[f].pc = "none"
    /\ fetch' = [fetch EXCEPT ![f].pc = "sent"]
    /\ loading' = TRUE
    /\ UNCHANGED <<serverVars, shown, listed, queueVars, sent, removal, clearing, addition,
                   away, paying, pastVars, fails>>

ServeFetch(f) ==
    /\ fetch[f].pc = "sent" /\ ~away
    /\ fetch' = [fetch EXCEPT ![f] = [pc |-> "done", cart |-> server]]
    /\ UNCHANGED <<serverVars, storeVars, queueVars, sent, removal, clearing, addition,
                   away, paying, pastVars, acts, fails>>

SettleFetch(f) ==
    /\ fetch[f].pc = "done"
    /\ TakeOver(fetch[f].cart)
    /\ listed' = (fetch[f].cart # Empty) /\ loading' = FALSE
    /\ fetch' = [fetch EXCEPT ![f] = NoRequest]
    /\ UNCHANGED <<serverVars, queueVars, sent, removal, clearing, addition,
                   away, paying, choice, acts, fails>>

FailFetch(f) ==
    /\ fetch[f].pc # "none"
    /\ \/ away /\ fetch[f].pc = "sent" /\ UNCHANGED fails
       \/ Fails
    /\ fetch' = [fetch EXCEPT ![f] = NoRequest]
    /\ loading' = FALSE
    /\ UNCHANGED <<serverVars, shown, listed, queueVars, sent, removal, clearing, addition,
                   away, paying, pastVars, acts>>

\* handleLogout: reset() drops what waits, and what is under way comes home to
\* an empty store.
Logout ==
    /\ Acts /\ away' = TRUE
    /\ shown' = Empty /\ listed' = FALSE /\ loading' = FALSE
    /\ queued' = [i \in Items |-> NoUpdate] /\ seq' = Empty
    /\ timer' = FALSE /\ flushing' = FALSE /\ again' = FALSE
    /\ choice' = Empty
    /\ visit' = "none" /\ quote' = Empty
    /\ UNCHANGED <<serverVars, sent, otherVars, hurried, ordered, doubt, fails>>

-----------------------------------------------------------------------------
\* From the cart to the order.

\* handleCheckout of the cart page waits for nothing: the page it asks for takes
\* its time, the cart stays in use, and a second press replaces the first.
GoToCheckout ==
    /\ Acts /\ OffersToOrder
    /\ visit' = "asked" /\ quote' = Empty
    /\ UNCHANGED <<serverVars, storeVars, queueVars, sent, otherVars, away, hurried, ordered, pastVars, fails>>

\* Mutant: the checkout page shows the cart of the store.
SummaryOfStore == shown

\* CheckoutPageController renders the page from the cart the server has, or
\* goes back to the cart page if there is none.
Summary == server

ServeVisit ==
    /\ visit = "asked"
    /\ \/ /\ server # Empty
          /\ visit' = "arriving" /\ quote' = Summary
          /\ hurried' = ~NoChange /\ ordered' = "nothing"
       \/ /\ server = Empty
          /\ visit' = "none" /\ UNCHANGED <<quote, hurried, ordered>>
    /\ UNCHANGED <<serverVars, storeVars, queueVars, sent, otherVars, away, pastVars, acts, fails>>

\* The checkout page takes the place of the cart.
ShowCheckout ==
    /\ visit = "arriving" /\ visit' = "none"
    /\ UNCHANGED <<serverVars, storeVars, queueVars, sent, otherVars, away, quote, hurried, ordered,
                   pastVars, acts, fails>>

\* The visit fails on either way; the cart stays.
FailVisit ==
    /\ visit # "none" /\ visit' = "none" /\ quote' = Empty
    /\ UNCHANGED <<serverVars, storeVars, queueVars, sent, otherVars, away, hurried, ordered,
                   pastVars, acts, fails>>

\* OrderSummary has shown quote; the order takes what the cart has by now, and
\* empties it.  The store learns of it with the next fetch.
PlaceOrder ==
    /\ quote # Empty /\ visit = "none" /\ quote' = Empty
    /\ server # Empty /\ server' = Empty
    /\ ordered' = IF server = quote THEN "what was shown" ELSE "something else"
    /\ doubt' = TRUE
    /\ UNCHANGED <<unborn, storeVars, queueVars, sent, otherVars, away, visit, hurried, choice, acts, fails>>

BackToCart ==
    /\ quote # Empty /\ visit = "none" /\ quote' = Empty
    /\ UNCHANGED <<serverVars, storeVars, queueVars, sent, otherVars, away, visit, hurried, ordered,
                   pastVars, acts, fails>>

-----------------------------------------------------------------------------
Customer == \/ \E i \in Items : Step(i) \/ RemoveItem(i) \/ AddToCart(i)
            \/ \E f \in Fetches : FetchCarts(f)
            \/ ClearCart \/ Logout \/ GoToCheckout \/ ShowCheckout \/ PlaceOrder \/ BackToCart

Served == \/ \E i \in Items : ServeUpdate(i) \/ ServeRemoval(i) \/ ServeAddition(i)
          \/ \E f \in Fetches : ServeFetch(f)
          \/ ServeClearing \/ ServeVisit

Settled == \/ \E i \in Items : SettleUpdate(i) \/ SettleRemoval(i) \/ SettleAddition(i)
           \/ \E f \in Fetches : SettleFetch(f)
           \/ SettleClearing

Failed == \/ \E i \in Items : FailUpdate(i) \/ FailRemoval(i) \/ FailAddition(i)
          \/ \E f \in Fetches : FailFetch(f)
          \/ FailClearing \/ FailVisit

Next == Customer \/ Flush \/ Served \/ Settled \/ Failed

Spec == Init /\ [][Next]_vars

\* The timer fires; every request ends, at the latest with REQUEST_TIMEOUT_MS.
CartFairness == /\ WF_vars(Flush)
                /\ \A i \in Items : WF_vars(ServeUpdate(i)) /\ WF_vars(SettleUpdate(i))

-----------------------------------------------------------------------------
\* The PATCH requests of an item never overtake one another: when none is left
\* and none failed, the server has the quantity the customer chose last
\* (flushQuantityUpdates sends one batch at a time).
LastChoiceWins ==
    fails = 0 => \A i \in Items :
        queued[i].pc = "none" /\ sent[i].pc = "none" /\ choice[i] > 0 /\ server[i] > 0
            => server[i] = choice[i]

\* When nothing is under way the customer sees what the server has, even after
\* one refused change among others, unless an answer was lost after the server
\* had done its work or an answer with the whole cart overtook a change.  A
\* second refusal goes back to a value that was itself refused.
Agrees == Quiet /\ ~away /\ ~doubt /\ fails <= 1 => shown = server \/ ~listed

\* The order is what the checkout page has shown before the customer pays, if no
\* change was under way when the page was rendered, and none was made between
\* then and its arrival (OrderSummary is to be the last wall against a wrong
\* order, but nothing waits for the debounced PATCH).
ShownIsOrderedAtRest == ordered = "something else" => hurried

\* Nobody waits for ever: every quantity that is collected is sent, and every
\* promise of updateQuantity is settled, whatever timers and batches overlap.
ChangesAreSent == \A i \in Items : []<>(queued[i].pc = "none" /\ sent[i].pc = "none")
=============================================================================
