--------------------------- MODULE MCPaymentFlow ---------------------------
(* PaymentFlow and the invariants of its proofs on a small instance: request *)
(* slots are interchangeable.                                              *)
EXTENDS PaymentRefinement, TLC

SlotSymmetry == Permutations(Requests)

\* One order at a time: which of them, the customer chooses at the checkout.
OneOrder == \A o, p \in Orders : order[o] # "None" /\ order[p] # "None" => o = p

\* Callbacks come only for payments that the gateway knows.
NoStrayCallback == \A r \in Requests : pc[r] = "fail" => linked[on[r]]
=============================================================================
