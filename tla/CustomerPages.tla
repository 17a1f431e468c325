--------------------------- MODULE CustomerPages ---------------------------
(* A customer's browser shows one page at a time: the cart, the checkout and *)
(* what follows it, an order that is under way, or the saved cards, these in *)
(* two tabs.  Here the choice is made once; an order may be watched from any *)
(* point on.  The pages not shown rest in their initial states, where none   *)
(* of their fair actions is enabled.                                         *)
EXTENDS CartStore, CheckoutPage, OrderWatch, CardVault

VARIABLE onScreen  \* the page

customerVars == <<onScreen, vars, checkoutVars, watchVars, vaultVars>>

CustomerInit ==
    /\ onScreen \in {"cart", "checkout", "order", "cards"}
    /\ Init /\ CheckoutInit /\ WatchInit /\ VaultInit
    /\ onScreen # "order" => order = "Paid"

CustomerNext ==
    \/ onScreen = "cart" /\ Next /\ UNCHANGED <<onScreen, checkoutVars, watchVars, vaultVars>>
    \/ onScreen = "checkout" /\ CheckoutNext /\ UNCHANGED <<onScreen, vars, watchVars, vaultVars>>
    \/ onScreen = "order" /\ WatchNext /\ UNCHANGED <<onScreen, vars, checkoutVars, vaultVars>>
    \/ onScreen = "cards" /\ VaultNext /\ UNCHANGED <<onScreen, vars, checkoutVars, watchVars>>

CustomerSpec == /\ CustomerInit /\ [][CustomerNext]_customerVars
                /\ CartFairness /\ CheckoutFairness /\ WatchFairness
=============================================================================
