------------------------------ MODULE KdsBoard ------------------------------
(***************************************************************************)
(* The kitchen display in the browser: the cards of today's orders, kept up *)
(* to date by a poll that asks for what changed since the server time of    *)
(* the last answer, by a full poll every FullEvery times, and by the PATCH  *)
(* requests of the staff, each shown before the server has agreed and taken *)
(* back if it refuses.  Meanwhile the orders move on other devices, answers *)
(* arrive late and in any order, and requests fail.                         *)
(*                                                                         *)
(* A card carries the status it shows and whether ready_at is known, which  *)
(* is what the timer that completes ready orders looks at.  Positions,      *)
(* labels and elapsed times are left out.  The board stays open and the     *)
(* calendar day does not change.                                           *)
(***************************************************************************)
EXTENDS Statuses, Naturals

CONSTANTS
    Orders,     \* the tenant's orders of the day
    AtOpening,  \* the statuses orders may have when the board opens
    FullEvery,  \* FULL_REFRESH_INTERVAL: every so many polls ask for everything
    MaxEvents,  \* bound: what the staff does on this board and what the orders
                \* do without it
    MaxFails    \* bound: requests lost on the way there or back

ASSUME OpeningAssumption == AtOpening \subseteq {"PendingPayment", "Paid", "Accepted", "InProgress", "Ready"}
ASSUME FullAssumption  == FullEvery \in Nat \ {0}
ASSUME BoundsAssumption == MaxEvents \in Nat /\ MaxFails \in Nat

VARIABLES
    server, stamp, clock,   \* orders.status, orders.updated_at, the server's time
    card,                   \* orders: what the board shows of each order
    since, count,           \* lastServerTimeRef, pollCountRef
    expects,                \* pendingStatusUpdatesRef: the status a PATCH has set
    poll,                   \* the timer's request and the one after a PATCH
    patch,                  \* updatingOrderIdsRef and the request of each order
    intent,                 \* a reject dialog, or a finger held on the card
    auto,                   \* readyAutoCompleteSeconds is short enough to matter
    events, fails

serverVars == <<server, stamp, clock>>
boardVars  == <<card, since, count, expects>>
vars == <<serverVars, boardVars, poll, patch, intent, auto, events, fails>>

\* isActiveKdsOrderStatus, and the query's kdsVisible() scope.
Visible == {"Paid", "Accepted", "InProgress", "Ready"}
Over    == {"Completed", "Cancelled"}
Polls   == {"timer", "extra"}
None    == "none"

\* The card made from a record of the server; ready_at is set with Ready.
CardOf(status) == [status |-> status, ready |-> status = "Ready"]
Off     == [status |-> None, ready |-> FALSE]
Cards   == [status : Visible, ready : BOOLEAN] \cup {Off}
Active(o) == server[o] \in Visible
Shown(o)  == card[o] # Off

NoPoll  == [pc |-> "idle", full |-> FALSE, since |-> 0, at |-> 0,
            data |-> [o \in Orders |-> None]]
NoPatch == [pc |-> "idle", to |-> None, saved |-> [o \in Orders |-> Off]]

Init ==
    /\ server \in [Orders -> AtOpening]
    /\ stamp = [o \in Orders |-> 0] /\ clock = 0
    /\ card = [o \in Orders |-> IF Active(o) THEN CardOf(server[o]) ELSE Off]
    /\ since = 0 /\ count = 0
    /\ expects = [o \in Orders |-> None]
    /\ poll = [p \in Polls |-> NoPoll]
    /\ patch = [o \in Orders |-> NoPatch]
    /\ intent = [o \in Orders |-> None]
    /\ auto \in BOOLEAN
    /\ events = 0 /\ fails = 0

Happens == events < MaxEvents /\ events' = events + 1

-----------------------------------------------------------------------------
\* The server.

CanMove(o, to) == OrderCanMove(server[o], to)

\* KdsService::updateOrderStatus, one of the markAs... methods.  Timestamps
\* are whole seconds: a change may fall into the second of the one before it.
MoveTo(o, to) ==
    /\ server' = [server EXCEPT ![o] = to]
    /\ clock' \in {clock, clock + 1}
    /\ stamp' = [stamp EXCEPT ![o] = clock']

\* Another display, the payment or the clean-up moves the order.
Elsewhere(o) ==
    /\ Happens
    /\ \E to \in Visible \cup Over : CanMove(o, to) /\ MoveTo(o, to)
    /\ UNCHANGED <<boardVars, poll, patch, intent, auto, fails>>

-----------------------------------------------------------------------------
\* Polling: asked, answered by the server, applied.

\* fetchOrders up to its request: the count decides whether it asks for all.
Ask(p) ==
    LET full == count + 1 >= FullEvery
    IN /\ count' = IF full THEN 0 ELSE count + 1
       /\ poll' = [poll EXCEPT ![p] = [NoPoll EXCEPT !.pc = "sent", !.full = full,
                                           !.since = IF full THEN 0 ELSE since]]

\* The timer of usePollingTimer: one request after the other, for ever.
TimerPoll ==
    /\ poll["timer"].pc = "idle"
    /\ Ask("timer")
    /\ UNCHANGED <<serverVars, card, since, expects, patch, intent, auto, events, fails>>

\* Mutant: what changed in the very second asked from is left out.
ChangedAfter(p, o) == Active(o) /\ (poll[p].full \/ stamp[o] > poll[p].since)

\* KdsService::getOrders: the visible orders, or those of them that changed.
ChangedSince(p, o) == Active(o) /\ (poll[p].full \/ stamp[o] >= poll[p].since)

\* KdsController::index: those orders, and a time no later than the second of
\* the query (subSecond covers the query's own duration).
Answer(p) ==
    /\ poll[p].pc = "sent"
    /\ poll' = [poll EXCEPT
                  ![p].pc = "served", ![p].at = clock,
                  ![p].data = [o \in Orders |-> IF ChangedSince(p, o) THEN server[o] ELSE None]]
    /\ UNCHANGED <<serverVars, boardVars, patch, intent, auto, events, fails>>

\* The request or its answer is lost: the count has moved on all the same.
PollFails(p) ==
    /\ poll[p].pc # "idle"
    /\ fails < MaxFails /\ fails' = fails + 1
    /\ poll' = [poll EXCEPT ![p] = NoPoll]
    /\ UNCHANGED <<serverVars, boardVars, patch, intent, auto, events>>

\* shouldIgnoreIncomingOrder: a record older than what a PATCH has set.
Ignored(p) == {o \in Orders : /\ poll[p].data[o] # None
                              /\ expects[o] \notin {None, poll[p].data[o]}}

\* Mutant: a full answer is merged like any other.
CardMerged(p, o) ==
    IF poll[p].data[o] # None /\ o \notin Ignored(p) THEN CardOf(poll[p].data[o]) ELSE card[o]

\* What an answer makes of the card of o: replaced by mergeOrders, kept, or
\* dropped when everything is replaced.
CardAfter(p, o) ==
    IF poll[p].data[o] # None /\ o \notin Ignored(p) THEN CardOf(poll[p].data[o])
    ELSE IF poll[p].full THEN Off ELSE card[o]

\* A dialog goes with its card; the timer of a long press does not.
IntentAfter(cards) == [o \in Orders |->
    IF intent[o] = "reject" /\ cards[o] = Off THEN None ELSE intent[o]]

\* The rest of fetchOrders.
Apply(p) ==
    LET accepted(o) == poll[p].data[o] # None /\ o \notin Ignored(p)
    IN /\ poll[p].pc = "served"
       /\ card' = [o \in Orders |-> CardAfter(p, o)]
       /\ expects' = [o \in Orders |-> IF accepted(o) THEN None ELSE expects[o]]
       /\ since' = IF Ignored(p) = {} THEN poll[p].at ELSE since
       /\ poll' = [poll EXCEPT ![p] = NoPoll]
       /\ intent' = IntentAfter(card')
       /\ UNCHANGED <<serverVars, count, patch, auto, events, fails>>

\* pruneExpiredPendingStatusUpdates: five seconds have passed.
Expire(o) ==
    /\ expects[o] # None
    /\ expects' = [expects EXCEPT ![o] = None]
    /\ UNCHANGED <<serverVars, card, since, count, poll, patch, intent, auto, events, fails>>

-----------------------------------------------------------------------------
\* Changing an order.

\* updateOrderStatus up to its request: the list as it is now is kept for a
\* rollback and the card shows the new status, or goes.
Begin(o, to) ==
    /\ patch[o].pc = "idle"
    /\ patch' = [patch EXCEPT ![o] = [pc |-> "sent", to |-> to, saved |-> card]]
    /\ card' = [card EXCEPT ![o] =
                  IF to \in Over \/ ~Shown(o) THEN Off ELSE [@ EXCEPT !.status = to]]

\* getNextStatus and the buttons a card offers besides the rejection.
NextOf(status) ==
    CASE status = "Paid" -> "Accepted"
      [] status = "Accepted" -> "InProgress"
      [] status = "InProgress" -> "Ready"
      [] status = "Ready" -> "Completed"

Tap(o) ==
    /\ Happens
    /\ Shown(o)
    /\ Begin(o, NextOf(card[o].status))
    /\ intent' = IntentAfter(card')
    /\ UNCHANGED <<serverVars, since, count, expects, poll, auto, fails>>

\* handleRejectClick opens a dialog; a long press starts on an accepted card.
Intend(o) ==
    /\ Happens
    /\ intent[o] = None
    /\ \/ card[o].status = "Paid" /\ intent' = [intent EXCEPT ![o] = "reject"]
       \/ card[o].status = "Accepted" /\ intent' = [intent EXCEPT ![o] = "hold"]
    /\ UNCHANGED <<serverVars, boardVars, poll, patch, auto, fails>>

\* handleRejectConfirm, or the callback the long press closed over: neither
\* looks at the status the order has by now.
CarryOut(o) ==
    /\ intent[o] # None
    /\ IF patch[o].pc = "idle"
       THEN Begin(o, IF intent[o] = "reject" THEN "Cancelled" ELSE "InProgress")
       ELSE UNCHANGED <<patch, card>>
    /\ intent' = [IntentAfter(card') EXCEPT ![o] = None]
    /\ UNCHANGED <<serverVars, since, count, expects, poll, auto, events, fails>>

\* handleRejectCancel, or the finger lifted in time.
Desist(o) ==
    /\ intent[o] # None
    /\ intent' = [intent EXCEPT ![o] = None]
    /\ UNCHANGED <<serverVars, boardVars, poll, patch, auto, events, fails>>

\* useReadyAutoComplete: the time of a card that is known to be ready is up.
AutoComplete(o) ==
    /\ auto
    /\ card[o] = CardOf("Ready")
    /\ Begin(o, "Completed")
    /\ intent' = IntentAfter(card')
    /\ UNCHANGED <<serverVars, since, count, expects, poll, auto, events, fails>>

\* KdsController::updateStatus.
Serve(o) ==
    /\ patch[o].pc = "sent"
    /\ IF CanMove(o, patch[o].to)
       THEN MoveTo(o, patch[o].to) /\ patch' = [patch EXCEPT ![o].pc = "moved"]
       ELSE UNCHANGED serverVars /\ patch' = [patch EXCEPT ![o].pc = "refused"]
    /\ UNCHANGED <<boardVars, poll, intent, auto, events, fails>>

\* A timeout, before or after the server has done it.
PatchFails(o) ==
    /\ patch[o].pc \in {"sent", "moved"}
    /\ fails < MaxFails /\ fails' = fails + 1
    /\ patch' = [patch EXCEPT ![o].pc = "refused"]
    /\ UNCHANGED <<serverVars, boardVars, poll, intent, auto, events>>

\* Mutant: the order of the answer is not filtered.
AgreedUnfiltered(to) == CardOf(to)

\* The order of the answer, if it is one for the board.
AgreedCard(to) == IF to \in Visible THEN CardOf(to) ELSE Off

\* The answer is shown, guarded for a while, and followed by a poll of its own
\* (bound: one of these at a time).
Agreed(o) ==
    LET to == patch[o].to
    IN /\ patch[o].pc = "moved"
       /\ card' = [card EXCEPT ![o] = AgreedCard(to)]
       /\ expects' = [expects EXCEPT ![o] = to]
       /\ patch' = [patch EXCEPT ![o] = NoPatch]
       /\ IF poll["extra"].pc = "idle" THEN Ask("extra") ELSE UNCHANGED <<count, poll>>
       /\ intent' = IntentAfter(card')
       /\ UNCHANGED <<serverVars, since, auto, events, fails>>

\* The whole list goes back to what it was when the request began.
RollBack(o) ==
    /\ patch[o].pc = "refused"
    /\ card' = patch[o].saved
    /\ expects' = [expects EXCEPT ![o] = None]
    /\ patch' = [patch EXCEPT ![o] = NoPatch]
    /\ intent' = IntentAfter(card')
    /\ UNCHANGED <<serverVars, since, count, poll, auto, events, fails>>

-----------------------------------------------------------------------------
Staff(o)   == Tap(o) \/ Intend(o) \/ CarryOut(o) \/ Desist(o)
Request(o) == Serve(o) \/ PatchFails(o) \/ Agreed(o) \/ RollBack(o)
Polling(p) == Answer(p) \/ PollFails(p) \/ Apply(p)

Next ==
    \/ TimerPoll
    \/ \E p \in Polls : Polling(p)
    \/ \E o \in Orders : Elsewhere(o) \/ Staff(o) \/ AutoComplete(o) \/ Request(o) \/ Expire(o)

Spec == Init /\ [][Next]_vars

-----------------------------------------------------------------------------
PollType  == [pc : {"idle", "sent", "served"}, full : BOOLEAN, since : Nat, at : Nat,
              data : [Orders -> Visible \cup {None}]]
PatchType == [pc : {"idle", "sent", "moved", "refused"},
              to : Visible \cup Over \cup {None}, saved : [Orders -> Cards]]

\* Every variable has its type.  A card never shows an order as over, whatever
\* order the answers come in (isActiveKdsOrder filters each of the three ways
\* to the list).
BoardTypeOK ==
    /\ server \in [Orders -> OrderStatus] /\ stamp \in [Orders -> Nat] /\ clock \in Nat
    /\ card \in [Orders -> Cards] /\ since \in Nat /\ count \in 0 .. FullEvery
    /\ expects \in [Orders -> Visible \cup Over \cup {None}]
    /\ poll \in [Polls -> PollType]
    /\ patch \in [Orders -> PatchType]
    /\ intent \in [Orders -> {None, "reject", "hold"}]
    /\ auto \in BOOLEAN /\ events \in Nat /\ fails \in Nat

\* Orders the board shows wrongly and no later incremental poll will mention:
\* they last changed before the time the polls ask from.
Overlooked == {o \in Orders : /\ Active(o) /\ card[o].status # server[o]
                              /\ patch[o].pc = "idle" /\ stamp[o] < since}

\* An answer taken whole, and asked from no later a time than the cursor's.
InOrder(p) ==
    /\ poll[p].pc = "served" /\ Ignored(p) = {}
    /\ poll[p].since <= since

\* Moving the cursor to the server's time never passes over a change: a poll
\* that ignores nothing and is applied in turn adds no overlooked order
\* (fetchOrders sets lastServerTimeRef to meta.server_time and asks again with
\* updated_since, inclusive).  What is overlooked comes from a rollback, from a
\* PATCH answered after the order had moved on, or from an answer that was
\* ignored in part or overtaken.
PollLosesNothing ==
    [][\A p \in Polls : InOrder(p) /\ poll'[p].pc = "idle" => Overlooked' \subseteq Overlooked]_vars

\* The board shows the orders as they are.
Synced == card = [o \in Orders |-> IF Active(o) THEN CardOf(server[o]) ELSE Off]

\* Once nobody changes anything the full poll puts the board right for good,
\* whatever was ignored, rolled back or overtaken before (FULL_REFRESH_INTERVAL),
\* when no timer completes orders by itself.
Converges == ~auto => <>[]Synced
=============================================================================
