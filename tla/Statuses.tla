------------------------------ MODULE Statuses ------------------------------
(***************************************************************************)
(* The two status enumerations of the back end and the transitions each    *)
(* allows.  Every write of a status goes through one of these tables, under *)
(* a row lock (Order::transitionTo, Payment::transitionTo).                 *)
(***************************************************************************)

OrderStatus == {"PendingPayment", "Paid", "Accepted", "InProgress", "Ready",
                "Completed", "Cancelled", "PaymentFailed", "Refunded"}

PaymentStatus == {"Pending", "Processing", "Completed", "Failed"}

\* OrderStatus::canTransitionTo, as the set of allowed (from, to) pairs.
OrderMoves ==
    ({"PendingPayment"} \X {"Paid", "PaymentFailed"})
    \cup {<<"Paid", "Accepted">>, <<"Accepted", "InProgress">>,
          <<"InProgress", "Ready">>, <<"Ready", "Completed">>,
          <<"Cancelled", "Refunded">>}
    \cup ({"Paid", "Accepted", "InProgress", "Ready"} \X {"Cancelled"})

OrderCanMove(from, to) == <<from, to>> \in OrderMoves

\* PaymentStatus::canTransitionTo.
PaymentMoves ==
    {<<"Pending", "Processing">>, <<"Pending", "Failed">>,
     <<"Processing", "Completed">>, <<"Processing", "Failed">>}

PaymentCanMove(from, to) == <<from, to>> \in PaymentMoves

\* PaymentStatus::isTerminal.
PaymentOver == {"Completed", "Failed"}

\* The statuses an order can only have after its payment was confirmed.
Confirmed == {"Paid", "Accepted", "InProgress", "Ready", "Completed",
              "Cancelled", "Refunded"}
=============================================================================
