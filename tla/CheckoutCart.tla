--------------------------- MODULE CheckoutCart ---------------------------
(***************************************************************************)
(* One customer's cart at one restaurant and the checkouts that turn it    *)
(* into orders, each under an idempotency key.  A checkout is a sequence of *)
(* transactions: take the key, load the cart, validate it, place the order  *)
(* under the cart's lock, initiate the payment (PaymentFlow, one step       *)
(* here), clear the cart, store the answer under the key.  Meanwhile the    *)
(* customer edits the cart in another tab, days pass, old carts and keys    *)
(* expire, and the PHP process may die.                                     *)
(***************************************************************************)
EXTENDS Naturals, FiniteSets

CONSTANTS
    Requests,   \* slots for checkout requests that run concurrently
    NoRequest,  \* nobody will write to this key again
    Keys,       \* idempotency keys the customer's clients generate
    NoKey,      \* what an idle slot works under
    Items,      \* cart_items rows, each added at most once
    Orders,     \* orders that may be placed
    NoOrder,    \* the request has not placed one
    EditsMeanwhile, \* the customer edits the cart while a checkout runs
    MaxCarts,   \* bound: rows in carts, one after the other
    LastDay,    \* bound: days that pass
    MaxErrors,  \* bound: steps that end in a 5xx, and clears that fail twice
    MaxCrashes  \* bound: PHP processes killed half-way

ASSUME NamesAssumption == NoRequest \notin Requests /\ NoKey \notin Keys /\ NoOrder \notin Orders
ASSUME EditsAssumption == EditsMeanwhile \in BOOLEAN
ASSUME BoundsAssumption ==
    MaxCarts \in Nat /\ LastDay \in Nat /\ MaxErrors \in Nat /\ MaxCrashes \in Nat

VARIABLES
    cart, created, lastCart, items, \* the carts row, 0 if none; its updated_at; its cart_items
    added,                  \* the day each item was put into the cart
    placed, paying,         \* each order's items and what became of its payment
    record, hash, owner,    \* idempotency_keys: answer, request (its cart), who will write it
    expired,                \* its expires_at has passed
    ordersOf,               \* the orders placed since the row was created
    freed,                  \* history: orders whose payment had started when a 5xx freed the key
    kept,                   \* history: orders whose items clearItems left in the cart
    pc, key, named, saw, mine, answer, \* each request
    today, open, errors, crashes

cartVars  == <<cart, created, lastCart, items, added>>
orderVars == <<placed, paying>>
keyVars   == <<record, hash, owner, expired, ordersOf, freed>>
reqVars   == <<pc, key, named, saw, mine, answer>>
envVars   == <<today, open, errors, crashes>>
vars == <<cartVars, orderVars, keyVars, reqVars, envVars, kept>>

Never == LastDay + 1
Steps == {"idle", "load", "validate", "place", "initiate", "clear", "respond", "answer"}

\* "created" is 201; "refused" a 4xx of the handler, "error" a 5xx, and
\* "conflict" the 409 of a key that is in use or belongs to another request.
Answers == {"none", "created", "refused", "error", "conflict"}

Init ==
    /\ cart = 0 /\ created = 0 /\ lastCart = 0 /\ items = {}
    /\ added    = [i \in Items |-> Never]
    /\ placed   = [o \in Orders |-> {}]
    /\ paying   = [o \in Orders |-> "none"]
    /\ record   = [k \in Keys |-> "free"]
    /\ hash     = [k \in Keys |-> 0]
    /\ owner    = [k \in Keys |-> NoRequest]
    /\ expired  = [k \in Keys |-> FALSE]
    /\ ordersOf = [k \in Keys |-> {}]
    /\ freed    = [k \in Keys |-> {}]
    /\ kept     = {}
    /\ pc       = [r \in Requests |-> "idle"]
    /\ key      = [r \in Requests |-> NoKey]
    /\ named    = [r \in Requests |-> 0]
    /\ saw      = [r \in Requests |-> {}]
    /\ mine     = [r \in Requests |-> NoOrder]
    /\ answer   = [r \in Requests |-> "none"]
    /\ today = 0 /\ open = TRUE /\ errors = 0 /\ crashes = 0

-----------------------------------------------------------------------------
(* Helpers                                                                 *)

Goto(r, step) == pc' = [pc EXCEPT ![r] = step]

\* The handler is done; the middleware still has to store its answer.
Decide(r, result) ==
    /\ Goto(r, "answer")
    /\ answer' = [answer EXCEPT ![r] = result]

\* The slot is idle again and remembers only what it answered.
Leave(r, result) ==
    /\ Goto(r, "idle")
    /\ answer' = [answer EXCEPT ![r] = result]
    /\ key'    = [key EXCEPT ![r] = NoKey]
    /\ named'  = [named EXCEPT ![r] = 0]
    /\ saw'    = [saw EXCEPT ![r] = {}]
    /\ mine'   = [mine EXCEPT ![r] = NoOrder]

\* The slot's cart is the customer's current one (an old id finds no row).
CartIsThere(r) == cart = named[r]

SetKey(k, state, cartId, by) ==
    /\ record'   = [record EXCEPT ![k] = state]
    /\ hash'     = [hash EXCEPT ![k] = cartId]
    /\ owner'    = [owner EXCEPT ![k] = by]
    /\ expired'  = [expired EXCEPT ![k] = FALSE]
    /\ ordersOf' = [ordersOf EXCEPT ![k] = {}]

Start(r, k, c) ==
    /\ Goto(r, "load")
    /\ key'    = [key EXCEPT ![r] = k]
    /\ named'  = [named EXCEPT ![r] = c]
    /\ answer' = [answer EXCEPT ![r] = "none"]
    /\ UNCHANGED <<saw, mine>>

-----------------------------------------------------------------------------
(* EnsureIdempotencyKey, before and after the handler                      *)

\* Mutant: a row without an answer does not hold the request back.
BeginJoins(r, k, c) ==
    /\ pc[r] = "idle" /\ c \in 1..lastCart
    /\ IF record[k] = "free" \/ expired[k]
       THEN Start(r, k, c) /\ SetKey(k, "busy", c, r)
       ELSE /\ UNCHANGED <<record, hash, owner, expired, ordersOf>>
            /\ IF record[k] = "busy" THEN Start(r, k, c) ELSE Leave(r, record[k])
    /\ UNCHANGED <<cartVars, orderVars, envVars, freed, kept>>

\* getOrCreateRecord: an expired row is replaced, a live one answers for
\* itself: a 409 for another request or one that still runs, else its answer.
Begin(r, k, c) ==
    /\ pc[r] = "idle" /\ c \in 1..lastCart
    /\ IF record[k] = "free" \/ expired[k]
       THEN Start(r, k, c) /\ SetKey(k, "busy", c, r)
       ELSE /\ Leave(r, IF hash[k] # c \/ record[k] = "busy" THEN "conflict" ELSE record[k])
            /\ UNCHANGED <<record, hash, owner, expired, ordersOf>>
    /\ UNCHANGED <<cartVars, orderVars, envVars, freed, kept>>

\* persistResponse: a 5xx frees the key, any other answer is stored.
Store(r) == LET k == key[r] IN
    /\ pc[r] = "answer"
    /\ IF answer[r] = "error"
       THEN /\ SetKey(k, "free", 0, NoRequest)
            /\ freed' = [freed EXCEPT ![k] = @ \cup {o \in ordersOf[k] : paying[o] = "started"}]
       ELSE /\ record' = [record EXCEPT ![k] = answer[r]]
            /\ owner'  = [owner EXCEPT ![k] = NoRequest]
            /\ UNCHANGED <<hash, expired, ordersOf, freed>>
    /\ Leave(r, answer[r])
    /\ UNCHANGED <<cartVars, orderVars, envVars, kept>>

-----------------------------------------------------------------------------
(* CheckoutController::checkout and CheckoutOrchestrator::processCheckout  *)

\* CheckoutRequest finds the cart and loads its items, which may not be empty.
Load(r) ==
    /\ pc[r] = "load"
    /\ IF CartIsThere(r) /\ items # {}
       THEN Goto(r, "validate") /\ UNCHANGED answer
       ELSE Decide(r, "refused")
    /\ UNCHANGED <<key, named, saw, mine, cartVars, orderVars, keyVars, envVars, kept>>

\* The rest of validateForCheckout: closed, paused or inactive restaurant,
\* unavailable item.  The items are loaded again, and not looked at again.
Validate(r) ==
    /\ pc[r] = "validate"
    /\ \/ /\ open
          /\ saw' = [saw EXCEPT ![r] = IF CartIsThere(r) THEN items ELSE {}]
          /\ Goto(r, "place") /\ UNCHANGED answer
       \/ Decide(r, "refused") /\ UNCHANGED saw
    /\ UNCHANGED <<key, named, mine, cartVars, orderVars, keyVars, envVars, kept>>

\* The transaction under the locks on cart and restaurant: createFromCart
\* orders what is in the cart now.  It refuses a cart that is gone or empty, a
\* paused or inactive restaurant, an unavailable item or option.
Place(r) ==
    /\ pc[r] = "place"
    /\ \/ /\ CartIsThere(r) /\ items # {}
          /\ \E o \in Orders :
                /\ placed[o] = {}
                /\ placed'   = [placed EXCEPT ![o] = items]
                /\ mine'     = [mine EXCEPT ![r] = o]
                /\ ordersOf' = [ordersOf EXCEPT ![key[r]] = @ \cup {o}]
          /\ Goto(r, "initiate")
          /\ UNCHANGED answer
       \/ /\ Decide(r, "refused")
          /\ UNCHANGED <<placed, mine, ordersOf>>
    /\ UNCHANGED <<paying, key, named, saw, record, hash, owner, expired, freed, cartVars, envVars, kept>>

\* Mutant: the order of a payment that did not start is forgotten.
InitiateForgets(r) ==
    /\ pc[r] = "initiate"
    /\ \/ /\ paying' = [paying EXCEPT ![mine[r]] = "started"]
          /\ Goto(r, "clear") /\ UNCHANGED answer
       \/ UNCHANGED paying /\ Decide(r, "refused")
    /\ UNCHANGED <<placed, key, named, saw, mine, cartVars, keyVars, envVars, kept>>

\* PaymentService::initiate, outside the transaction (PaymentFlow has its
\* steps): a payment that does not start fails with its order, a 422.
Initiate(r) ==
    /\ pc[r] = "initiate"
    /\ \/ /\ paying' = [paying EXCEPT ![mine[r]] = "started"]
          /\ Goto(r, "clear") /\ UNCHANGED answer
       \/ /\ paying' = [paying EXCEPT ![mine[r]] = "failed"]
          /\ Decide(r, "refused")
    /\ UNCHANGED <<placed, key, named, saw, mine, cartVars, keyVars, envVars, kept>>

\* Mutants: the cart is left as it is; a failed clear fails the checkout.
ClearNot(r) ==
    /\ pc[r] = "clear"
    /\ Goto(r, "respond")
    /\ UNCHANGED <<cartVars, key, named, saw, mine, answer, orderVars, keyVars, envVars, kept>>

ClearThrows(r) ==
    /\ pc[r] = "clear"
    /\ errors < MaxErrors /\ errors' = errors + 1
    /\ Decide(r, "error")
    /\ UNCHANGED <<cartVars, key, named, saw, mine, orderVars, keyVars, today, open, crashes, kept>>

\* clearItems deletes every item of the cart, also what came in meanwhile, but
\* looks at the items loaded by validateForCheckout to see if there are any.
\* If it fails twice the checkout goes on without.
Clear(r) == LET keeps == IF CartIsThere(r) THEN {mine[r]} ELSE {} IN
    /\ pc[r] = "clear"
    /\ Goto(r, "respond")
    /\ \/ /\ CartIsThere(r) /\ saw[r] # {}
          /\ items' = {}
          /\ UNCHANGED <<errors, kept>>
       \/ /\ ~CartIsThere(r) \/ saw[r] = {}
          /\ kept' = kept \cup keeps
          /\ UNCHANGED <<errors, items>>
       \/ /\ errors < MaxErrors /\ errors' = errors + 1
          /\ kept' = kept \cup keeps
          /\ UNCHANGED items
    /\ UNCHANGED <<cart, created, lastCart, added, key, named, saw, mine, answer,
                   orderVars, keyVars, today, open, crashes>>

\* The order is read again and the 201 is built.
Respond(r) ==
    /\ pc[r] = "respond"
    /\ Decide(r, "created")
    /\ UNCHANGED <<key, named, saw, mine, cartVars, orderVars, keyVars, envVars, kept>>

\* Any other exception in the handler is a 5xx, also one of the refresh after
\* the payment has started; an open transaction is rolled back, an order
\* placed before stays behind.
HandlerError(r) ==
    /\ pc[r] \in {"load", "validate", "place", "initiate", "respond"}
    /\ errors < MaxErrors /\ errors' = errors + 1
    /\ Decide(r, "error")
    /\ UNCHANGED <<key, named, saw, mine, cartVars, orderVars, keyVars, today, open, crashes, kept>>

\* The process dies, or cannot store its answer: the row stays unanswered.
Crash(r) ==
    /\ pc[r] # "idle" /\ crashes < MaxCrashes
    /\ crashes' = crashes + 1
    /\ owner' = [owner EXCEPT ![key[r]] = NoRequest]
    /\ Leave(r, "none")
    /\ UNCHANGED <<record, hash, expired, ordersOf, freed, cartVars, orderVars, today, open, errors, kept>>

-----------------------------------------------------------------------------
(* The customer, and time                                                  *)

CanEdit == EditsMeanwhile \/ \A r \in Requests : pc[r] = "idle"

\* addItem: firstOrCreate finds the cart or creates one, and does not touch
\* the updated_at of one it found.
AddItem(i) ==
    /\ CanEdit /\ added[i] = Never
    /\ added' = [added EXCEPT ![i] = today]
    /\ items' = items \cup {i}
    /\ IF cart # 0
       THEN UNCHANGED <<cart, created, lastCart>>
       ELSE /\ lastCart < MaxCarts
            /\ lastCart' = lastCart + 1 /\ cart' = lastCart + 1 /\ created' = today
    /\ UNCHANGED <<orderVars, keyVars, reqVars, envVars, kept>>

RemoveItem(i) ==
    /\ CanEdit /\ i \in items
    /\ items' = items \ {i}
    /\ UNCHANGED <<cart, created, lastCart, added, orderVars, keyVars, reqVars, envVars, kept>>

\* The carts row and its items go.
DropCart ==
    /\ cart # 0
    /\ cart' = 0 /\ created' = 0 /\ items' = {}
    /\ UNCHANGED <<lastCart, added, orderVars, keyVars, reqVars, envVars, kept>>

ClearCart == CanEdit /\ DropCart

\* GET /cart drops a cart last touched before today; carts:clear-expired does
\* so every night if it holds items.
ViewCarts         == created < today /\ DropCart
ClearExpiredCarts == created < today /\ items # {} /\ DropCart

\* TTL_MINUTES pass, far longer than a request may run.
ExpireKey(k) ==
    /\ record[k] # "free" /\ ~expired[k] /\ owner[k] = NoRequest
    /\ expired' = [expired EXCEPT ![k] = TRUE]
    /\ UNCHANGED <<record, hash, owner, ordersOf, freed, cartVars, orderVars, reqVars, envVars, kept>>

NextDay ==
    /\ today < LastDay /\ today' = today + 1
    /\ UNCHANGED <<open, errors, crashes, cartVars, orderVars, keyVars, reqVars, kept>>

\* The restaurant opens or closes (its business hours).
OpenOrClose ==
    /\ open' = ~open
    /\ UNCHANGED <<today, errors, crashes, cartVars, orderVars, keyVars, reqVars, kept>>

-----------------------------------------------------------------------------
RequestStep(r) ==
    \/ \E k \in Keys, c \in 1..MaxCarts : Begin(r, k, c)
    \/ Load(r) \/ Validate(r) \/ Place(r) \/ Initiate(r) \/ Clear(r)
    \/ Respond(r) \/ Store(r) \/ HandlerError(r) \/ Crash(r)

Outside ==
    \/ \E i \in Items : AddItem(i) \/ RemoveItem(i)
    \/ ViewCarts \/ ClearExpiredCarts \/ ClearCart
    \/ NextDay \/ OpenOrClose

Next ==
    \/ \E r \in Requests : RequestStep(r)
    \/ \E k \in Keys : ExpireKey(k)
    \/ Outside

Spec == Init /\ [][Next]_vars

-----------------------------------------------------------------------------
(* Type invariant                                                          *)

CartTypes ==
    /\ cart \in 0..lastCart /\ lastCart \in 0..MaxCarts /\ created \in 0..LastDay
    /\ items \in SUBSET Items /\ (items # {} => cart # 0)
    /\ added \in [Items -> 0..Never]

KeyTypes ==
    /\ record   \in [Keys -> {"free", "busy", "created", "refused"}]
    /\ hash     \in [Keys -> 0..lastCart]
    /\ owner    \in [Keys -> Requests \cup {NoRequest}]
    /\ expired  \in [Keys -> BOOLEAN]
    /\ ordersOf \in [Keys -> SUBSET Orders]
    /\ freed    \in [Keys -> SUBSET Orders]

ReqTypes ==
    /\ pc     \in [Requests -> Steps]
    /\ key    \in [Requests -> Keys \cup {NoKey}]
    /\ named  \in [Requests -> 0..lastCart]
    /\ saw    \in [Requests -> SUBSET Items]
    /\ mine   \in [Requests -> Orders \cup {NoOrder}]
    /\ answer \in [Requests -> Answers]

OrderTypes ==
    /\ placed \in [Orders -> SUBSET Items]
    /\ paying \in [Orders -> {"none", "started", "failed"}]
    /\ kept \in SUBSET Orders

EnvTypes ==
    /\ today \in 0..LastDay /\ open \in BOOLEAN
    /\ errors \in 0..MaxErrors /\ crashes \in 0..MaxCrashes

TypeOK == CartTypes /\ KeyTypes /\ ReqTypes /\ OrderTypes /\ EnvTypes

-----------------------------------------------------------------------------
(* Safety                                                                  *)

\* A key runs one request at a time, whatever died or expired before.
OneRunPerKey ==
    \A r, s \in Requests : pc[r] # "idle" /\ key[r] = key[s] => r = s

\* While the row of a key lives, at most one order is placed under it: a
\* repeated request, however often and after whatever fault, adds none.
OneOrderPerKey ==
    \A k \in Keys : \A o, p \in ordersOf[k] : o = p

\* What is stored under a key is true of the order placed under it: its
\* payment has started, or, after a refusal, there is none that could.
RecordTellsTruth ==
    \A k \in Keys :
        /\ record[k] = "created" => \E o \in ordersOf[k] : paying[o] = "started"
        /\ record[k] = "refused" => \A o \in ordersOf[k] : paying[o] = "failed"

\* A 5xx frees the key even when the payment has started, and the client may
\* send the same request again.  The retry then orders nothing that the first
\* one is paying: those items have left the cart, unless clearItems failed or
\* passed over them.
RetryOrdersNothingPaid ==
    \A k \in Keys : \A o \in freed[k], p \in ordersOf[k] :
        o \notin kept => placed[o] \cap placed[p] = {}

\* Nothing is ordered twice: two orders with a started payment share no item.
\* This needs checkouts that do not overlap, a cart left alone meanwhile, and
\* no fault.
OrderedOnce ==
    \A o, p \in Orders : paying[o] = "started" /\ paying[p] = "started" /\ o # p
                           => placed[o] \cap placed[p] = {}

-----------------------------------------------------------------------------
(* What the documentation says and the code does not do                    *)

\* carts:clear-expired: only a cart nobody has used since yesterday is dropped.
OnlyOldItemsExpire ==
    [][ViewCarts \/ ClearExpiredCarts => \A i \in items : added[i] < today]_vars
=============================================================================
