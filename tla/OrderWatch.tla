----------------------------- MODULE OrderWatch -----------------------------
(***************************************************************************)
(* The customer waits for an order: the page of a completed checkout and    *)
(* the page of one order ask for its status again and again, while the tab  *)
(* is visible, until the order is over, and ring when it is ready.  A tab   *)
(* that becomes visible asks at once, whether a request is under way or     *)
(* not.  The page of one order also offers to order the same things again.  *)
(*                                                                         *)
(* Intervals and the back-off after an error are left out: a timer that is  *)
(* set may fire at any time.                                               *)
(***************************************************************************)
EXTENDS Statuses, Naturals, FiniteSets

CONSTANTS
    WatchSlots, \* bound: status requests under way at the same time
    MaxHides,   \* bound: how often the tab is hidden
    MaxMisses   \* bound: requests without an answer

ASSUME WatchBounds == IsFiniteSet(WatchSlots) /\ MaxHides \in Nat /\ MaxMisses \in Nat

VARIABLES
    order,                  \* orders.status
    view,                   \* the page that is open: "closed", "order" or "complete"
    loaded,                 \* order.status in the page's props
    badge,                  \* orderStateRef: the status polled last
    rung,                   \* hasNotifiedReadyRef
    asking,                 \* the requests of runFetcher
    pollTimer, stopped,     \* timerIdRef, shouldStopRef
    visible,                \* isTabVisibleRef
    reorder,                \* useReorder: "idle", "sent", "done"
    overlapped,             \* history: two requests were under way at once
    setBack,                \* history: an older answer came after the last one
    hides, misses

watchVars == <<order, view, loaded, badge, rung, asking, pollTimer, stopped, visible,
               reorder, overlapped, setBack, hides, misses>>

watching == view # "closed"

\* isPollingInactiveOrderStatus: the page does not poll for these at all.
Inactive == {"Completed", "Cancelled", "PaymentFailed", "Refunded"}
\* Mutant: a ready order is over.
StopsAtReady(status) == status \in {"Ready", "Completed", "PaymentFailed", "Refunded", "Cancelled"}

\* shouldStopPolling: OrderStatus::isTerminal, or cancelled.
StopsPolling(status) == status \in {"Completed", "PaymentFailed", "Refunded", "Cancelled"}

\* How far an order has come.
Progress == [s \in OrderStatus |->
    CASE s = "PendingPayment" -> 0 [] s = "Paid" -> 1 [] s = "Accepted" -> 2
      [] s = "InProgress" -> 3 [] s = "Ready" -> 4 [] s = "Refunded" -> 6 [] OTHER -> 5]

NotAsking == [pc |-> "idle", status |-> "none"]
Asking    == [NotAsking EXCEPT !.pc = "sent"]
Busy(slots) == Cardinality({f \in WatchSlots : slots[f].pc # "idle"})

WatchInit ==
    /\ order \in OrderStatus
    /\ view = "closed" /\ loaded = order /\ badge = order /\ rung = FALSE
    /\ asking = [f \in WatchSlots |-> NotAsking]
    /\ pollTimer = FALSE /\ stopped = FALSE /\ visible = TRUE
    /\ reorder = "idle" /\ overlapped = FALSE /\ setBack = FALSE
    /\ hides = 0 /\ misses = 0

\* runFetcher: one more request, in a slot of its own.
Fetch(f) ==
    /\ asking[f].pc = "idle"
    /\ asking' = [asking EXCEPT ![f] = Asking]
    /\ overlapped' = (overlapped \/ Busy(asking') > 1)

\* OrderReadyNotifier: a page opens, with the order as it is, and asks at once.
Begin(shows, f) ==
    /\ ~watching /\ Busy(asking) = 0
    /\ view' = shows
    /\ loaded' = order /\ badge' = order
    /\ rung' = FALSE /\ stopped' = FALSE
    /\ IF order \in Inactive THEN UNCHANGED <<asking, overlapped>> ELSE Fetch(f)
    /\ UNCHANGED <<order, pollTimer, visible, reorder, setBack, hides, misses>>

OpenOrder(f)    == Begin("order", f)
OpenComplete(f) == Begin("complete", f)

\* The order moves on: the kitchen, a cancellation, a refund.
OrderMovesOn ==
    /\ \E to \in OrderStatus : OrderCanMove(order, to) /\ order' = to
    /\ UNCHANGED <<view, loaded, badge, rung, asking, pollTimer, stopped, visible,
                   reorder, overlapped, setBack, hides, misses>>

\* The timer of scheduleNextPoll fires.
Fire(f) ==
    /\ watching /\ pollTimer /\ pollTimer' = FALSE
    /\ Fetch(f)
    /\ UNCHANGED <<order, view, loaded, badge, rung, stopped, visible, reorder, setBack, hides, misses>>

ServeStatus(f) ==
    /\ asking[f].pc = "sent"
    /\ asking' = [asking EXCEPT ![f] = [pc |-> "served", status |-> order]]
    /\ UNCHANGED <<order, view, loaded, badge, rung, pollTimer, stopped, visible,
                   reorder, overlapped, setBack, hides, misses>>

\* Mutant: nobody sets the timer again.
ScheduleNever(ended) == UNCHANGED pollTimer

\* scheduleNextPoll replaces the timer, unless polling has ended or the tab is
\* hidden; it leaves a timer alone that another answer has set before the end.
Schedule(ended) == pollTimer' = (pollTimer \/ (~ended /\ visible))

\* hasNotifiedRef: the first answer that says so rings, on either page.
Rings(status) == rung' = (rung \/ status = "Ready")

\* The fetcher's answer: the badge follows it, whichever request it was.
SettleStatus(f) ==
    LET status == asking[f].status
    IN /\ asking[f].pc = "served"
       /\ asking' = [asking EXCEPT ![f] = NotAsking]
       /\ badge' = status
       /\ Rings(status)
       /\ stopped' = (stopped \/ StopsPolling(status))
       /\ Schedule(stopped')
       /\ setBack' = (setBack \/ (stopped /\ Progress[status] < Progress[badge]))
       /\ UNCHANGED <<order, view, loaded, visible, reorder, overlapped, hides, misses>>

\* Mutant: after an error the page shows what it was loaded with.
MissResets(f) ==
    /\ asking[f].pc # "idle"
    /\ misses < MaxMisses /\ misses' = misses + 1
    /\ asking' = [asking EXCEPT ![f] = NotAsking]
    /\ badge' = loaded
    /\ Schedule(stopped)
    /\ UNCHANGED <<order, view, loaded, rung, stopped, visible, reorder, overlapped, setBack, hides>>

\* A request fails; the badge stays.
MissStatus(f) ==
    /\ asking[f].pc # "idle"
    /\ misses < MaxMisses /\ misses' = misses + 1
    /\ asking' = [asking EXCEPT ![f] = NotAsking]
    /\ Schedule(stopped)
    /\ UNCHANGED <<order, view, loaded, badge, rung, stopped, visible, reorder, overlapped, setBack, hides>>

\* handleVisibilityChange.
HideTab ==
    /\ watching /\ loaded \notin Inactive
    /\ visible /\ visible' = FALSE /\ pollTimer' = FALSE
    /\ hides < MaxHides /\ hides' = hides + 1
    /\ UNCHANGED <<order, view, loaded, badge, rung, asking, stopped, reorder, overlapped, setBack, misses>>

ShowTab(f) ==
    /\ ~visible /\ visible' = TRUE
    /\ Fetch(f)
    /\ UNCHANGED <<order, view, loaded, badge, rung, pollTimer, stopped, reorder, setBack, hides, misses>>

\* The button of a completed order, by the status the page was loaded with, and
\* not while the request before is under way.
CanReorder == loaded = "Completed" /\ reorder = "idle"

Reorder ==
    /\ view = "order" /\ CanReorder
    /\ reorder' = "sent"
    /\ UNCHANGED <<order, view, loaded, badge, rung, asking, pollTimer, stopped, visible,
                   overlapped, setBack, hides, misses>>

\* An error leaves the button as it was; otherwise the result covers the page.
SettleReorder ==
    /\ reorder = "sent" /\ reorder' \in {"idle", "done"}
    /\ UNCHANGED <<order, view, loaded, badge, rung, asking, pollTimer, stopped, visible,
                   overlapped, setBack, hides, misses>>

CloseResult ==
    /\ reorder = "done" /\ reorder' = "idle"
    /\ view' \in {"closed", "order"} \* goToCart leaves the page
    /\ UNCHANGED <<order, loaded, badge, rung, asking, pollTimer, stopped, visible,
                   overlapped, setBack, hides, misses>>

WatchNext ==
    \/ OrderMovesOn \/ HideTab \/ Reorder \/ SettleReorder \/ CloseResult
    \/ \E f \in WatchSlots : \/ OpenOrder(f) \/ OpenComplete(f) \/ Fire(f) \/ ShowTab(f)
                             \/ ServeStatus(f) \/ SettleStatus(f) \/ MissStatus(f)

\* Requests are answered and timers fire; the order may rest, the tab may stay
\* hidden.
WatchFairness ==
    /\ WF_watchVars(\E f \in WatchSlots : Fire(f))
    /\ \A f \in WatchSlots : WF_watchVars(ServeStatus(f)) /\ WF_watchVars(SettleStatus(f))

-----------------------------------------------------------------------------
\* The badge never goes back, as long as requests do not overlap
\* (scheduleNextPoll throws the previous timer away).
BadgeNeverGoesBack ==
    [][watching /\ ~overlapped' => Progress[badge'] >= Progress[badge]]_watchVars

\* The status the page has to arrive at; a cancelled order may be refunded
\* afterwards, and the page no longer asks.
Arrived == badge = order \/ (badge = "Cancelled" /\ order = "Refunded")

\* Whoever keeps the page open and visible sees in the end what became of the
\* order, whatever failed, overlapped or was hidden in between, unless an older
\* answer comes after the last one: polling has ended then, and the older one
\* stays (shouldStopRef is never reset).
EndIsShown ==
    []<>(watching /\ order \in {"Completed", "PaymentFailed", "Refunded"}
            => Arrived \/ ~visible \/ setBack)

\* A ready order rings, for a customer who waits with the page in view.
ReadyRings ==
    []<>(watching /\ loaded \notin Inactive /\ order = "Ready" => rung \/ ~visible)
=============================================================================
