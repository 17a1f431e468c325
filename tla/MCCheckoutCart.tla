-------------------------- MODULE MCCheckoutCart --------------------------
(* CheckoutCart and the invariant of its proofs on a small instance: every *)
(* name is interchangeable.                                                *)
EXTENDS CheckoutCartProofs, TLC

Symmetry == Permutations(Requests) \cup Permutations(Keys)
              \cup Permutations(Items) \cup Permutations(Orders)
=============================================================================
