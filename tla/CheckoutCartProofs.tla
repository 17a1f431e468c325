------------------------ MODULE CheckoutCartProofs ------------------------
(***************************************************************************)
(* Proofs about CheckoutCart, for every number of requests, keys, items,   *)
(* orders, days and faults.                                                *)
(*                                                                         *)
(* CInv is the inductive invariant: what a request relies on at each step  *)
(* (Running), and what holds of a key (KeyOK) and of an order (Unplaced).  *)
(* A step of a request touches its own key and its own order; that these   *)
(* belong to nobody else is Holds and Disjoint.                            *)
(*                                                                         *)
(* That nothing is ordered twice holds only where one checkout runs at a    *)
(* time and nothing fails (Alone), and has an invariant of its own, SoldInv. *)
(***************************************************************************)
EXTENDS CheckoutCart, TLAPS

\* A running request holds its key: the row has no answer and cannot expire.
Holds(r) ==
    IF pc[r] = "idle" THEN key[r] = NoKey
    ELSE /\ key[r] \in Keys
         /\ owner[key[r]] = r /\ record[key[r]] = "busy" /\ ~expired[key[r]]

\* The orders under its key, and how far their payment is.
Running(r) == LET os == ordersOf[key[r]] IN
    /\ pc[r] \in {"load", "validate", "place"} => os = {}
    /\ pc[r] \in {"initiate", "clear", "respond"} => mine[r] \in Orders /\ os = {mine[r]}
    /\ pc[r] = "initiate" => paying[mine[r]] = "none"
    /\ pc[r] \in {"clear", "respond"} => paying[mine[r]] = "started"
    /\ pc[r] = "answer" =>
          /\ answer[r] \in {"created", "refused", "error"}
          /\ answer[r] = "created" => \E o \in os : paying[o] = "started"
          /\ answer[r] = "refused" => \A o \in os : paying[o] = "failed"

\* One order at most; what is stored is true of it.
KeyOK(k) ==
    /\ \A o, p \in ordersOf[k] : o = p
    /\ \A o \in ordersOf[k] : placed[o] # {}
    /\ record[k] = "created" => \E o \in ordersOf[k] : paying[o] = "started"
    /\ record[k] = "refused" => \A o \in ordersOf[k] : paying[o] = "failed"

\* No order is under two keys.
Disjoint == \A k, l \in Keys : k # l => ordersOf[k] \cap ordersOf[l] = {}

Unplaced(o) == placed[o] = {} => paying[o] = "none"

Keeping ==
    /\ \A r \in Requests : Holds(r) /\ Running(r)
    /\ \A k \in Keys : KeyOK(k)
    /\ Disjoint
    /\ \A o \in Orders : Unplaced(o)

CInv == TypeOK /\ Keeping

-----------------------------------------------------------------------------
(* What a step of one request leaves to the others                         *)

\* A step that changes no order and no key disturbs no other request.
LEMMA SlotMoves ==
  ASSUME CInv, NEW r \in Requests, NEW step \in Steps \ {"idle"}, pc[r] # "idle", Goto(r, step),
         UNCHANGED <<placed, paying, record, owner, expired, ordersOf, key, mine>>,
         \A s \in Requests : s # r => answer'[s] = answer[s],
         Running(r)'
  PROVE  Keeping'
<1>1. \A s \in Requests : Holds(s)'
  BY DEF CInv, Keeping, Holds, Goto, TypeOK, ReqTypes
<1>2. ASSUME NEW s \in Requests, s # r PROVE Running(s)'
  <2>1. pc'[s] = pc[s] /\ answer'[s] = answer[s]
    BY <1>2 DEF Goto, CInv, TypeOK, ReqTypes
  <2>2. QED BY <2>1 DEF CInv, Keeping, Running
<1>3. QED BY <1>1, <1>2 DEF CInv, Keeping, KeyOK, Disjoint, Unplaced

\* A request that decides on an answer that is true, and changes nothing else.
LEMMA DecideKeeps ==
  ASSUME CInv, NEW r \in Requests, pc[r] # "idle", NEW result \in {"created", "refused", "error"},
         Decide(r, result),
         UNCHANGED <<placed, paying, record, owner, expired, ordersOf, key, mine>>,
         result = "created" => \E o \in ordersOf[key[r]] : paying[o] = "started",
         result = "refused" => \A o \in ordersOf[key[r]] : paying[o] = "failed"
  PROVE  Keeping'
<1>1. pc'[r] = "answer" /\ answer'[r] = result
  BY DEF Decide, Goto, CInv, TypeOK, ReqTypes
<1>2. Running(r)'
  BY <1>1 DEF Running
<1>3. \A s \in Requests : s # r => answer'[s] = answer[s]
  BY DEF Decide, CInv, TypeOK, ReqTypes
<1>4. QED BY <1>2, <1>3, SlotMoves DEF Decide, Steps

\* Loading a cart changes nothing but the step.
LEMMA LoadKeeps ==
  ASSUME CInv, NEW r \in Requests, Load(r)
  PROVE  Keeping'
<1>1. Running(r) /\ pc[r] = "load"
  BY DEF CInv, Keeping, Load
<1>2. UNCHANGED <<placed, paying, record, owner, expired, ordersOf, key, mine>>
  BY DEF Load, orderVars, keyVars
<1>3. CASE Goto(r, "validate") /\ UNCHANGED answer
  <2>1. Running(r)'
    BY <1>1, <1>2, <1>3 DEF Running, Goto, CInv, TypeOK, ReqTypes
  <2>2. QED BY <1>1, <1>2, <1>3, <2>1, SlotMoves DEF Steps
<1>4. CASE Decide(r, "refused")
  BY <1>1, <1>2, <1>4, DecideKeeps DEF Running
<1>5. QED BY <1>3, <1>4 DEF Load

\* Validation changes nothing but the step.
LEMMA ValidateKeeps ==
  ASSUME CInv, NEW r \in Requests, Validate(r)
  PROVE  Keeping'
<1>1. Running(r) /\ pc[r] = "validate"
  BY DEF CInv, Keeping, Validate
<1>2. UNCHANGED <<placed, paying, record, owner, expired, ordersOf, key, mine>>
  BY DEF Validate, orderVars, keyVars
<1>3. CASE Goto(r, "place") /\ UNCHANGED answer
  <2>1. Running(r)'
    BY <1>1, <1>2, <1>3 DEF Running, Goto, CInv, TypeOK, ReqTypes
  <2>2. QED BY <1>1, <1>2, <1>3, <2>1, SlotMoves DEF Steps
<1>4. CASE Decide(r, "refused")
  BY <1>1, <1>2, <1>4, DecideKeeps DEF Running
<1>5. QED BY <1>3, <1>4 DEF Validate

\* Whether the cart could be cleared or not, the payment is under way.
LEMMA ClearKeeps ==
  ASSUME CInv, NEW r \in Requests, Clear(r)
  PROVE  Keeping'
<1>1. Running(r) /\ pc[r] = "clear"
  BY DEF CInv, Keeping, Clear
<1>2. UNCHANGED <<placed, paying, record, owner, expired, ordersOf, key, mine, answer>> /\ Goto(r, "respond")
  BY DEF Clear, orderVars, keyVars
<1>3. Running(r)'
  BY <1>1, <1>2 DEF Running, Goto, CInv, TypeOK, ReqTypes
<1>4. QED BY <1>1, <1>2, <1>3, SlotMoves DEF Steps

\* The order of the answer has a payment that started.
LEMMA RespondKeeps ==
  ASSUME CInv, NEW r \in Requests, Respond(r)
  PROVE  Keeping'
<1>1. Running(r) /\ pc[r] = "respond"
  BY DEF CInv, Keeping, Respond
<1>2. UNCHANGED <<placed, paying, record, owner, expired, ordersOf, key, mine>>
  BY DEF Respond, orderVars, keyVars
<1>3. QED BY <1>1, <1>2, DecideKeeps DEF Running, Respond

\* An exception claims nothing of the order.
LEMMA HandlerErrorKeeps ==
  ASSUME CInv, NEW r \in Requests, HandlerError(r)
  PROVE  Keeping'
<1>1. pc[r] # "idle" /\ Decide(r, "error")
  BY DEF HandlerError
<1>2. UNCHANGED <<placed, paying, record, owner, expired, ordersOf, key, mine>>
  BY DEF HandlerError, orderVars, keyVars
<1>3. QED BY <1>1, <1>2, DecideKeeps

\* The new order is under nobody's key, so it disturbs no other key.
LEMMA PlaceKeeps ==
  ASSUME CInv, NEW r \in Requests, Place(r)
  PROVE  Keeping'
<1>1. Running(r) /\ Holds(r) /\ pc[r] = "place" /\ key[r] \in Keys
  BY DEF CInv, Keeping, Holds, Place
<1>2. UNCHANGED <<paying, record, owner, expired, key>>
  BY DEF Place
<1>3. CASE Decide(r, "refused") /\ UNCHANGED <<placed, mine, ordersOf>>
  BY <1>1, <1>2, <1>3, DecideKeeps DEF Running
<1>4. ASSUME NEW o \in Orders, placed[o] = {}, items # {}, Goto(r, "initiate"), UNCHANGED answer,
             placed' = [placed EXCEPT ![o] = items],
             mine' = [mine EXCEPT ![r] = o],
             ordersOf' = [ordersOf EXCEPT ![key[r]] = @ \cup {o}]
      PROVE  Keeping'
  <2>1. /\ placed'[o] # {} /\ \A p \in Orders : p # o => placed'[p] = placed[p]
        /\ paying[o] = "none"
        /\ ordersOf'[key[r]] = {o}
        /\ \A k \in Keys : k # key[r] => ordersOf'[k] = ordersOf[k] /\ o \notin ordersOf[k]
        /\ \A k \in Keys : ordersOf[k] \in SUBSET Orders
    BY <1>1, <1>4 DEF CInv, Keeping, KeyOK, Unplaced, Running, TypeOK, KeyTypes, OrderTypes
  <2>2. /\ pc'[r] = "initiate" /\ mine'[r] = o
        /\ \A s \in Requests : s # r => pc'[s] = pc[s] /\ mine'[s] = mine[s]
    BY <1>4 DEF Goto, CInv, TypeOK, ReqTypes
  <2>3. ASSUME NEW s \in Requests PROVE Holds(s)'
    BY <1>1, <1>2, <2>2 DEF CInv, Keeping, Holds
  <2>4. ASSUME NEW s \in Requests PROVE Running(s)'
    <3>1. CASE s = r
      BY <3>1, <1>2, <2>1, <2>2 DEF Running
    <3>2. CASE s # r /\ pc[s] # "idle"
      <4>1. key[s] \in Keys /\ key[s] # key[r] /\ Running(s)
        BY <1>1, <3>2 DEF CInv, Keeping, Holds
      <4>2. QED BY <1>2, <1>4, <2>1, <2>2, <3>2, <4>1 DEF Running
    <3>3. CASE s # r /\ pc[s] = "idle"
      BY <2>2, <3>3 DEF Running
    <3>4. QED BY <3>1, <3>2, <3>3
  <2>5. ASSUME NEW k \in Keys PROVE KeyOK(k)'
    <3>1. CASE k = key[r]
      BY <3>1, <1>1, <1>2, <2>1 DEF KeyOK, Holds
    <3>2. CASE k # key[r]
      BY <3>2, <1>2, <2>1 DEF KeyOK, CInv, Keeping
    <3>3. QED BY <3>1, <3>2
  <2>6. Disjoint'
    BY <2>1 DEF Disjoint, CInv, Keeping
  <2>7. ASSUME NEW p \in Orders PROVE Unplaced(p)'
    BY <1>2, <2>1 DEF Unplaced, CInv, Keeping
  <2>8. QED BY <2>3, <2>4, <2>5, <2>6, <2>7 DEF Keeping
<1>5. QED BY <1>3, <1>4 DEF Place

\* Only the order under the request's own key gets a payment.
LEMMA InitiateKeeps ==
  ASSUME CInv, NEW r \in Requests, Initiate(r)
  PROVE  Keeping'
<1> DEFINE o == mine[r]
<1>1. /\ Running(r) /\ Holds(r) /\ pc[r] = "initiate" /\ key[r] \in Keys
      /\ o \in Orders /\ ordersOf[key[r]] = {o}
  BY DEF CInv, Keeping, Holds, Running, Initiate
<1>2. UNCHANGED <<placed, record, owner, expired, ordersOf, key, mine>>
  BY DEF Initiate, keyVars
<1>3. PICK s \in {"started", "failed"} :
         /\ paying' = [paying EXCEPT ![o] = s]
         /\ pc'[r] = IF s = "started" THEN "clear" ELSE "answer"
         /\ s = "failed" => answer'[r] = "refused"
         /\ \A q \in Requests : q # r => pc'[q] = pc[q] /\ answer'[q] = answer[q]
  BY DEF Initiate, Goto, Decide, CInv, TypeOK, ReqTypes
<1>4. /\ paying'[o] = s /\ \A p \in Orders : p # o => paying'[p] = paying[p]
      /\ \A k \in Keys : ordersOf[k] \in SUBSET Orders /\ (k # key[r] => o \notin ordersOf[k])
      /\ placed[o] # {}
  BY <1>1, <1>3 DEF CInv, Keeping, Disjoint, KeyOK, TypeOK, KeyTypes, OrderTypes
<1>5. ASSUME NEW q \in Requests PROVE Holds(q)'
  BY <1>1, <1>2, <1>3 DEF CInv, Keeping, Holds
<1>6. ASSUME NEW q \in Requests PROVE Running(q)'
  <2>1. CASE q = r
    BY <2>1, <1>1, <1>2, <1>3, <1>4 DEF Running
  <2>2. CASE q # r /\ pc[q] # "idle"
    <3>1. key[q] \in Keys /\ key[q] # key[r] /\ Running(q)
      BY <1>1, <2>2 DEF CInv, Keeping, Holds
    <3>2. \A p \in ordersOf[key[q]] : paying'[p] = paying[p]
      BY <1>4, <3>1
    <3>3. pc[q] \in {"initiate", "clear"} => mine[q] \in ordersOf[key[q]]
      BY <3>1 DEF Running
    <3>4. QED BY <1>2, <1>3, <2>2, <3>1, <3>2, <3>3 DEF Running
  <2>3. CASE q # r /\ pc[q] = "idle"
    BY <1>3, <2>3 DEF Running
  <2>4. QED BY <2>1, <2>2, <2>3
<1>7. ASSUME NEW k \in Keys PROVE KeyOK(k)'
  <2>1. CASE k = key[r]
    BY <2>1, <1>1, <1>2, <1>4 DEF KeyOK, Holds
  <2>2. CASE k # key[r]
    BY <2>2, <1>2, <1>4 DEF KeyOK, CInv, Keeping
  <2>3. QED BY <2>1, <2>2
<1>8. Disjoint' /\ \A p \in Orders : Unplaced(p)'
  BY <1>2, <1>4 DEF Disjoint, Unplaced, CInv, Keeping
<1>9. QED BY <1>5, <1>6, <1>7, <1>8 DEF Keeping

\* A request joins or leaves its key and writes nothing to any other.
LEMMA KeyMoves ==
  ASSUME CInv, NEW r \in Requests, NEW k \in Keys,
         \A s \in Requests : s # r /\ pc[s] # "idle" => key[s] # k,
         \A s \in Requests : s # r => /\ pc'[s] = pc[s] /\ key'[s] = key[s]
                                      /\ mine'[s] = mine[s] /\ answer'[s] = answer[s],
         \A l \in Keys : l # k => /\ record'[l] = record[l] /\ owner'[l] = owner[l]
                                  /\ expired'[l] = expired[l] /\ ordersOf'[l] = ordersOf[l],
         UNCHANGED <<placed, paying>>,
         ordersOf'[k] \in SUBSET ordersOf[k],
         Holds(r)', Running(r)', KeyOK(k)'
  PROVE  Keeping'
<1>1. ASSUME NEW s \in Requests, s # r PROVE Holds(s)' /\ Running(s)'
  <2>1. CASE pc[s] = "idle"
    BY <1>1, <2>1 DEF CInv, Keeping, Holds, Running
  <2>2. CASE pc[s] # "idle"
    <3>1. key[s] \in Keys /\ key[s] # k /\ Holds(s) /\ Running(s)
      BY <1>1, <2>2 DEF CInv, Keeping, Holds
    <3>2. QED BY <1>1, <2>2, <3>1 DEF Holds, Running
  <2>3. QED BY <2>1, <2>2
<1>2. ASSUME NEW l \in Keys, l # k PROVE KeyOK(l)'
  BY <1>2 DEF CInv, Keeping, KeyOK
<1>3. Disjoint'
  BY DEF CInv, Keeping, Disjoint
<1>4. \A o \in Orders : Unplaced(o)'
  BY DEF CInv, Keeping, Unplaced
<1>5. QED BY <1>1, <1>2, <1>3, <1>4 DEF Keeping

\* Only an answered or an expired key is taken over, and those have no request.
LEMMA BeginKeeps ==
  ASSUME CInv, NEW r \in Requests, NEW k \in Keys, NEW c \in 1..MaxCarts, Begin(r, k, c)
  PROVE  Keeping'
<1>1. pc[r] = "idle" /\ key[r] = NoKey /\ UNCHANGED <<placed, paying>>
  BY DEF Begin, CInv, Keeping, Holds, orderVars
<1>2. CASE Start(r, k, c) /\ SetKey(k, "busy", c, r) /\ (record[k] = "free" \/ expired[k])
  <2>1. \A s \in Requests : s # r /\ pc[s] # "idle" => key[s] # k
    BY <1>2 DEF CInv, Keeping, Holds
  <2>2. /\ pc'[r] = "load" /\ key'[r] = k
        /\ \A s \in Requests : s # r => /\ pc'[s] = pc[s] /\ key'[s] = key[s]
                                        /\ mine'[s] = mine[s] /\ answer'[s] = answer[s]
    BY <1>2 DEF Start, Goto, CInv, TypeOK, ReqTypes
  <2>3. /\ record'[k] = "busy" /\ owner'[k] = r /\ ~expired'[k] /\ ordersOf'[k] = {}
        /\ \A l \in Keys : l # k => /\ record'[l] = record[l] /\ owner'[l] = owner[l]
                                    /\ expired'[l] = expired[l] /\ ordersOf'[l] = ordersOf[l]
    BY <1>2 DEF SetKey, CInv, TypeOK, KeyTypes
  <2>4. Holds(r)' /\ Running(r)' /\ KeyOK(k)'
    BY <2>2, <2>3 DEF Holds, Running, KeyOK
  <2>5. QED BY <1>1, <2>1, <2>2, <2>3, <2>4, KeyMoves
<1>3. ASSUME NEW result \in Answers, Leave(r, result), UNCHANGED <<record, owner, expired, ordersOf>> PROVE Keeping'
  <2>1. /\ pc'[r] = "idle" /\ key'[r] = NoKey
        /\ \A s \in Requests : s # r => /\ pc'[s] = pc[s] /\ key'[s] = key[s]
                                        /\ mine'[s] = mine[s] /\ answer'[s] = answer[s]
    BY <1>3 DEF Leave, Goto, CInv, TypeOK, ReqTypes
  <2>2. \A s \in Requests : Holds(s)' /\ Running(s)'
    BY <1>1, <1>3, <2>1 DEF CInv, Keeping, Holds, Running
  <2>3. QED BY <1>1, <1>3, <2>2 DEF CInv, Keeping, KeyOK, Disjoint, Unplaced
<1>4. QED BY <1>2, <1>3 DEF Begin, CInv, TypeOK, KeyTypes, Answers

\* The answer that is stored is true; a 5xx frees the key.
LEMMA StoreKeeps ==
  ASSUME CInv, NEW r \in Requests, Store(r)
  PROVE  Keeping'
<1>0. PICK k \in Keys : k = key[r]
  BY DEF Store, CInv, Keeping, Holds
<1>1. Running(r) /\ Holds(r) /\ KeyOK(k) /\ k = key[r] /\ pc[r] = "answer" /\ UNCHANGED <<placed, paying>>
  BY <1>0 DEF Store, CInv, Keeping, orderVars
<1>2. \A s \in Requests : s # r /\ pc[s] # "idle" => key[s] # k
  BY <1>1 DEF CInv, Keeping, Holds
<1>3. /\ pc'[r] = "idle" /\ key'[r] = NoKey
      /\ \A s \in Requests : s # r => /\ pc'[s] = pc[s] /\ key'[s] = key[s]
                                      /\ mine'[s] = mine[s] /\ answer'[s] = answer[s]
  BY DEF Store, Leave, Goto, CInv, TypeOK, ReqTypes
<1>4. Holds(r)' /\ Running(r)'
  BY <1>3 DEF Holds, Running
<1>5. \A l \in Keys : l # k => /\ record'[l] = record[l] /\ owner'[l] = owner[l]
                               /\ expired'[l] = expired[l] /\ ordersOf'[l] = ordersOf[l]
  BY <1>1 DEF Store, SetKey, CInv, TypeOK, KeyTypes
<1>6. CASE answer[r] = "error"
  <2>1. record'[k] = "free" /\ ordersOf'[k] = {}
    BY <1>1, <1>6 DEF Store, SetKey, CInv, TypeOK, KeyTypes
  <2>2. KeyOK(k)'
    BY <2>1 DEF KeyOK
  <2>3. QED BY <1>1, <1>2, <1>3, <1>4, <1>5, <2>1, <2>2, KeyMoves
<1>7. CASE answer[r] # "error"
  <2>1. record'[k] = answer[r] /\ ordersOf' = ordersOf
    BY <1>1, <1>7 DEF Store, CInv, TypeOK, KeyTypes
  <2>2. KeyOK(k)'
    BY <1>1, <2>1 DEF KeyOK, Running
  <2>3. QED BY <1>1, <1>2, <1>3, <1>4, <1>5, <2>1, <2>2, KeyMoves
<1>8. QED BY <1>6, <1>7

\* A dead request leaves a row that nobody will answer.
LEMMA CrashKeeps ==
  ASSUME CInv, NEW r \in Requests, Crash(r)
  PROVE  Keeping'
<1>0. PICK k \in Keys : k = key[r]
  BY DEF Crash, CInv, Keeping, Holds
<1>1. Holds(r) /\ KeyOK(k) /\ k = key[r] /\ UNCHANGED <<placed, paying, record, expired, ordersOf>>
  BY <1>0 DEF Crash, CInv, Keeping, orderVars
<1>2. \A s \in Requests : s # r /\ pc[s] # "idle" => key[s] # k
  BY <1>1 DEF CInv, Keeping, Holds, Crash
<1>3. /\ pc'[r] = "idle" /\ key'[r] = NoKey
      /\ \A s \in Requests : s # r => /\ pc'[s] = pc[s] /\ key'[s] = key[s]
                                      /\ mine'[s] = mine[s] /\ answer'[s] = answer[s]
  BY DEF Crash, Leave, Goto, CInv, TypeOK, ReqTypes
<1>4. Holds(r)' /\ Running(r)' /\ KeyOK(k)'
  BY <1>1, <1>3 DEF Holds, Running, KeyOK
<1>5. \A l \in Keys : l # k => owner'[l] = owner[l]
  BY <1>1 DEF Crash, CInv, TypeOK, KeyTypes
<1>6. QED BY <1>1, <1>2, <1>3, <1>4, <1>5, KeyMoves

\* A key expires only when no request runs under it.
LEMMA ExpireKeeps ==
  ASSUME CInv, NEW k \in Keys, ExpireKey(k)
  PROVE  Keeping'
<1>1. UNCHANGED <<placed, paying, record, owner, ordersOf, pc, key, mine, answer>>
      /\ \A l \in Keys : l # k => expired'[l] = expired[l]
  BY DEF ExpireKey, orderVars, reqVars, CInv, TypeOK, KeyTypes
<1>2. ASSUME NEW s \in Requests PROVE Holds(s)' /\ Running(s)'
  <2>1. pc[s] # "idle" => key[s] # k
    BY NamesAssumption DEF CInv, Keeping, Holds, ExpireKey
  <2>2. Holds(s) /\ Running(s)
    BY DEF CInv, Keeping
  <2>3. QED BY <1>1, <2>1, <2>2 DEF Holds, Running
<1>3. QED BY <1>1, <1>2 DEF CInv, Keeping, KeyOK, Disjoint, Unplaced

\* The customer, the days and the opening hours touch no key and no order.
LEMMA OutsideKeeps ==
  ASSUME CInv, UNCHANGED <<orderVars, keyVars, reqVars>>
  PROVE  Keeping'
BY DEF CInv, Keeping, Holds, Running, KeyOK, Disjoint, Unplaced, orderVars, keyVars, reqVars

-----------------------------------------------------------------------------
(* Types                                                                   *)

\* What any step of a request leaves in its slot.
LEMMA SlotTyped ==
  ASSUME TypeOK, NEW r \in Requests, RequestStep(r)
  PROVE  ReqTypes'
<1>1. CartTypes /\ KeyTypes /\ ReqTypes /\ lastCart' = lastCart
  BY DEF TypeOK, RequestStep, Begin, Load, Validate, Place, Initiate, Clear, Respond, Store, HandlerError, Crash, cartVars
<1>2. ASSUME NEW k \in Keys, NEW c \in 1..MaxCarts, Begin(r, k, c) PROVE ReqTypes'
  BY <1>1, <1>2 DEF Begin, Start, Leave, Goto, ReqTypes, KeyTypes, CartTypes, Steps, Answers
<1>3. CASE Load(r) \/ Validate(r) \/ Clear(r) \/ Respond(r) \/ HandlerError(r)
  BY <1>1, <1>3 DEF Load, Validate, Clear, Respond, HandlerError, Decide, Goto, ReqTypes, CartTypes, Steps, Answers
<1>4. CASE Place(r) \/ Initiate(r)
  BY <1>1, <1>4 DEF Place, Initiate, Decide, Goto, ReqTypes, Steps, Answers
<1>5. CASE Store(r) \/ Crash(r)
  BY <1>1, <1>5 DEF Store, Crash, Leave, Goto, ReqTypes, CartTypes, Steps, Answers
<1>6. QED BY <1>2, <1>3, <1>4, <1>5 DEF RequestStep

\* A key's row is written as a whole.
LEMMA SetKeyTyped ==
  ASSUME CartTypes, KeyTypes, UNCHANGED lastCart, NEW k \in Keys, NEW state \in {"free", "busy", "created", "refused"},
         NEW cartId \in 0..lastCart, NEW by \in Requests \cup {NoRequest}, SetKey(k, state, cartId, by),
         freed' \in [Keys -> SUBSET Orders]
  PROVE  KeyTypes'
BY DEF SetKey, KeyTypes

\* What it leaves in the rows of keys and orders, and of the cart.
LEMMA RowsTyped ==
  ASSUME CInv, NEW r \in Requests, RequestStep(r)
  PROVE  CartTypes' /\ KeyTypes' /\ OrderTypes' /\ EnvTypes'
<1>1. /\ CartTypes /\ KeyTypes /\ ReqTypes /\ OrderTypes /\ EnvTypes
      /\ pc[r] # "idle" => key[r] \in Keys
      /\ Running(r)
  BY DEF CInv, TypeOK, Keeping, Holds
<1>2. ASSUME NEW k \in Keys, NEW c \in 1..MaxCarts, Begin(r, k, c)
      PROVE  CartTypes' /\ KeyTypes' /\ OrderTypes' /\ EnvTypes'
  <2>1. CartTypes' /\ OrderTypes' /\ EnvTypes' /\ UNCHANGED <<lastCart, freed>> /\ c \in 0..lastCart
    BY <1>1, <1>2 DEF Begin, CartTypes, OrderTypes, EnvTypes, cartVars, orderVars, envVars
  <2>2. CASE SetKey(k, "busy", c, r)
    <3>1. freed' \in [Keys -> SUBSET Orders]
      BY <1>1, <2>1 DEF KeyTypes
    <3>2. QED BY <1>1, <2>1, <2>2, <3>1, SetKeyTyped
  <2>3. CASE UNCHANGED <<record, hash, owner, expired, ordersOf>>
    BY <1>1, <2>1, <2>3 DEF KeyTypes
  <2>4. QED BY <1>2, <2>1, <2>2, <2>3 DEF Begin
<1>3. CASE Load(r) \/ Validate(r) \/ Respond(r) \/ HandlerError(r)
  BY <1>1, <1>3, BoundsAssumption DEF Load, Validate, Respond, HandlerError, KeyTypes, CartTypes, OrderTypes, EnvTypes,
     cartVars, orderVars, envVars, keyVars
<1>4. CASE Place(r)
  BY <1>1, <1>4 DEF Place, KeyTypes, CartTypes, OrderTypes, EnvTypes, cartVars, envVars
<1>5. CASE Initiate(r)
  BY <1>1, <1>5 DEF Initiate, KeyTypes, CartTypes, OrderTypes, EnvTypes, cartVars, envVars, keyVars
<1>6. CASE Clear(r)
  <2>1. /\ UNCHANGED <<cart, created, lastCart, added, placed, paying, record, hash, owner, expired, ordersOf, freed,
                       today, open, crashes>>
        /\ items' \in {items, {}} /\ errors' \in {errors, errors + 1}
        /\ errors' = errors \/ errors < MaxErrors
        /\ kept' \in {kept, kept \cup {mine[r]}, kept \cup {}}
    BY <1>6 DEF Clear, orderVars, keyVars
  <2>5. mine[r] \in Orders
    BY <1>1, <1>6 DEF Clear, Running
  <2>6. errors' \in 0..MaxErrors
    BY <1>1, <2>1, BoundsAssumption DEF EnvTypes
  <2>2. CartTypes' /\ KeyTypes' /\ EnvTypes'
    BY <1>1, <2>1, <2>6 DEF KeyTypes, CartTypes, EnvTypes
  <2>3. OrderTypes'
    BY <1>1, <2>1, <2>5 DEF OrderTypes
  <2>4. QED BY <2>2, <2>3
<1>7. CASE Store(r)
  <2>1. /\ CartTypes' /\ OrderTypes' /\ EnvTypes' /\ UNCHANGED lastCart
        /\ key[r] \in Keys /\ answer[r] \in {"created", "refused", "error"}
    BY <1>1, <1>7 DEF Running, Store, CartTypes, OrderTypes, EnvTypes, cartVars, orderVars, envVars
  <2>2. CASE answer[r] = "error"
    <3>1. SetKey(key[r], "free", 0, NoRequest) /\ 0 \in 0..lastCart
      BY <1>1, <1>7, <2>2, BoundsAssumption DEF Store, CartTypes
    <3>2. freed' \in [Keys -> SUBSET Orders]
      BY <1>1, <1>7, <2>2 DEF Store, KeyTypes
    <3>3. QED BY <1>1, <2>1, <3>1, <3>2, SetKeyTyped
  <2>3. CASE answer[r] # "error"
    BY <1>1, <1>7, <2>1, <2>3 DEF Store, KeyTypes
  <2>4. QED BY <2>1, <2>2, <2>3
<1>8. CASE Crash(r)
  BY <1>1, <1>8, BoundsAssumption DEF Crash, KeyTypes, CartTypes, OrderTypes, EnvTypes, cartVars, orderVars
<1>9. QED BY <1>2, <1>3, <1>4, <1>5, <1>6, <1>7, <1>8 DEF RequestStep

\* The customer and time write the cart, the day or the opening.
LEMMA OutsideTyped ==
  ASSUME TypeOK, Outside
  PROVE  TypeOK'
<1>1. CartTypes /\ KeyTypes /\ ReqTypes /\ OrderTypes /\ EnvTypes
  BY DEF TypeOK
<1>2. UNCHANGED <<orderVars, keyVars, reqVars, kept>>
  BY DEF Outside, AddItem, RemoveItem, ViewCarts, ClearExpiredCarts, ClearCart, DropCart, NextDay, OpenOrClose
<1>3. lastCart \in Nat /\ lastCart' \in {lastCart, lastCart + 1}
  BY <1>1, BoundsAssumption DEF Outside, AddItem, RemoveItem, ViewCarts, ClearExpiredCarts, ClearCart, DropCart,
     NextDay, OpenOrClose, CartTypes, cartVars
<1>4. KeyTypes' /\ ReqTypes' /\ OrderTypes'
  BY <1>1, <1>2, <1>3 DEF KeyTypes, ReqTypes, OrderTypes, CartTypes, orderVars, keyVars, reqVars
<1>5. EnvTypes'
  <2>1. CASE NextDay
    BY <1>1, <2>1, BoundsAssumption DEF NextDay, EnvTypes
  <2>2. CASE OpenOrClose
    <3>1. open' \in BOOLEAN
      BY <2>2, Zenon DEF OpenOrClose
    <3>2. QED BY <1>1, <2>2, <3>1 DEF OpenOrClose, EnvTypes
  <2>3. CASE UNCHANGED envVars
    BY <1>1, <2>3 DEF EnvTypes, envVars
  <2>4. QED BY <2>1, <2>2, <2>3 DEF Outside, AddItem, RemoveItem, ViewCarts, ClearExpiredCarts, ClearCart, DropCart
<1>6. CartTypes'
  <2>1. ASSUME NEW i \in Items, AddItem(i) PROVE CartTypes'
    BY <1>1, <2>1, BoundsAssumption DEF AddItem, CartTypes, EnvTypes, Never
  <2>2. ASSUME NEW i \in Items, RemoveItem(i) PROVE CartTypes'
    BY <1>1, <2>2 DEF RemoveItem, CartTypes
  <2>3. CASE DropCart
    BY <1>1, <2>3, BoundsAssumption DEF DropCart, CartTypes
  <2>4. CASE NextDay \/ OpenOrClose
    BY <1>1, <2>4 DEF NextDay, OpenOrClose, CartTypes, cartVars
  <2>5. QED BY <2>1, <2>2, <2>3, <2>4 DEF Outside, ViewCarts, ClearExpiredCarts, ClearCart
<1>7. QED BY <1>4, <1>5, <1>6 DEF TypeOK

\* An expiry changes one flag.
LEMMA ExpireTyped ==
  ASSUME TypeOK, NEW k \in Keys, ExpireKey(k)
  PROVE  TypeOK'
BY DEF TypeOK, ExpireKey, CartTypes, KeyTypes, ReqTypes, OrderTypes, EnvTypes, cartVars, orderVars, reqVars, envVars

-----------------------------------------------------------------------------
(* The theorems                                                            *)

\* With no cart, no order and no key in use the invariant holds.
LEMMA InitOK == Init => CInv
<1>1. Init => TypeOK
  BY BoundsAssumption, EditsAssumption DEF Init, TypeOK, CartTypes, KeyTypes, ReqTypes, OrderTypes, EnvTypes,
     Steps, Answers, Never
<1>2. Init => Keeping
  BY DEF Init, Keeping, Holds, Running, KeyOK, Disjoint, Unplaced
<1>3. QED BY <1>1, <1>2 DEF CInv

\* Every step keeps it.
LEMMA NextOK == CInv /\ [Next]_vars => CInv'
<1> SUFFICES ASSUME CInv, [Next]_vars PROVE CInv'
  OBVIOUS
<1>1. ASSUME NEW r \in Requests, RequestStep(r) PROVE CInv'
  <2>1. Keeping'
    BY <1>1, BeginKeeps, LoadKeeps, ValidateKeeps, PlaceKeeps, InitiateKeeps, ClearKeeps, RespondKeeps,
       StoreKeeps, HandlerErrorKeeps, CrashKeeps DEF RequestStep
  <2>2. TypeOK'
    BY <1>1, SlotTyped, RowsTyped DEF CInv, TypeOK
  <2>3. QED BY <2>1, <2>2 DEF CInv
<1>2. ASSUME NEW k \in Keys, ExpireKey(k) PROVE CInv'
  BY <1>2, ExpireTyped, ExpireKeeps DEF CInv
<1>3. CASE Outside
  <2>1. UNCHANGED <<orderVars, keyVars, reqVars>>
    BY <1>3 DEF Outside, AddItem, RemoveItem, ViewCarts, ClearExpiredCarts, ClearCart, DropCart, NextDay, OpenOrClose
  <2>2. QED BY <1>3, <2>1, OutsideTyped, OutsideKeeps DEF CInv
<1>4. CASE UNCHANGED vars
  <2>1. TypeOK'
    BY <1>4 DEF CInv, TypeOK, CartTypes, KeyTypes, ReqTypes, OrderTypes, EnvTypes, vars, cartVars, keyVars,
       reqVars, orderVars, envVars
  <2>2. QED BY <1>4, <2>1, OutsideKeeps DEF CInv, vars
<1>5. QED BY <1>1, <1>2, <1>3, <1>4 DEF Next

\* In every reachable state the invariant holds.
THEOREM Inductive == Spec => []CInv
BY InitOK, NextOK, PTL DEF Spec

\* Every variable has its type.
THEOREM TypeCorrect == Spec => []TypeOK
BY Inductive, PTL DEF CInv

\* EnsureIdempotencyKey runs one request at a time under a key.
THEOREM NeverTwoRuns == Spec => []OneRunPerKey
<1>1. CInv => OneRunPerKey
  BY NamesAssumption DEF CInv, Keeping, Holds, OneRunPerKey
<1>2. QED BY <1>1, Inductive, PTL

\* However often a request is sent again, and whatever dies or expires in
\* between, at most one order is placed while the row of its key lives.
THEOREM NeverTwoOrders == Spec => []OneOrderPerKey
<1>1. CInv => OneOrderPerKey
  BY DEF CInv, Keeping, KeyOK, OneOrderPerKey
<1>2. QED BY <1>1, Inductive, PTL

\* The answer stored under a key is true of the order placed under it.
THEOREM RecordIsTrue == Spec => []RecordTellsTruth
<1>1. CInv => RecordTellsTruth
  BY DEF CInv, Keeping, KeyOK, RecordTellsTruth
<1>2. QED BY <1>1, Inductive, PTL

-----------------------------------------------------------------------------
(* A retry under a freed key                                               *)
(*                                                                         *)
(* What a started payment is for has left the cart once clearItems is past *)
(* (Emptied), unless clearItems kept it; where the cart itself went, with   *)
(* it (Gone).  An item never comes back, for it is put into the cart once   *)
(* (Afresh).  So the next order under the freed key finds other items.      *)

Left(o) == o \in kept \/ placed[o] \cap items = {}

Emptied ==
    \A r \in Requests : pc[r] \notin {"idle", "clear"}
        => \A o \in ordersOf[key[r]] : paying[o] = "started" => Left(o)

Gone ==
    \A r \in Requests : pc[r] \in {"initiate", "clear"}
        => CartIsThere(r) \/ placed[mine[r]] \cap items = {}

Afresh ==
    /\ \A i \in items : added[i] # Never
    /\ \A o \in Orders : \A i \in placed[o] : added[i] # Never

FreedLeft == \A k \in Keys : \A o \in freed[k] : placed[o] # {} /\ Left(o)

FreedInv == Emptied /\ Gone /\ Afresh /\ FreedLeft /\ RetryOrdersNothingPaid

Others(r) ==
    \A s \in Requests : s # r => UNCHANGED <<pc[s], key[s], named[s], mine[s]>>

\* A request that moves on, or ends, and touches neither cart nor order.
LEMMA SlotRests ==
  ASSUME CInv, FreedInv, NEW r \in Requests, Others(r),
         UNCHANGED <<cart, items, added, placed, paying, ordersOf, freed, kept>>,
         pc'[r] \notin {"initiate", "clear"}, pc[r] # "clear",
         pc'[r] = "idle" \/ (pc[r] # "idle" /\ key'[r] = key[r])
  PROVE  FreedInv'
<1>1. FreedLeft' /\ RetryOrdersNothingPaid' /\ Afresh'
  BY DEF FreedInv, FreedLeft, RetryOrdersNothingPaid, Afresh, Left
<1>2. Gone'
  BY DEF FreedInv, Gone, CartIsThere, Others
<1>3. Emptied'
  BY DEF FreedInv, Emptied, Left, Others
<1>4. QED BY <1>1, <1>2, <1>3 DEF FreedInv

\* What one step of a request leaves of the others.
LEMMA OthersStay ==
  ASSUME CInv, NEW r \in Requests, RequestStep(r)
  PROVE  Others(r)
BY DEF RequestStep, Begin, Start, Leave, Load, Validate, Place, Initiate, Clear, Respond, Store, HandlerError, Crash,
   Decide, Goto, Others, CInv, TypeOK, ReqTypes

\* A run starts with no order under its key; what was freed stays freed.
LEMMA BeginFrees ==
  ASSUME CInv, FreedInv, NEW r \in Requests, NEW k \in Keys, NEW c \in 1..MaxCarts, Begin(r, k, c), Others(r)
  PROVE  FreedInv'
<1>1. UNCHANGED <<cart, items, added, placed, paying, freed, kept>> /\ pc[r] = "idle"
  BY DEF Begin, cartVars, orderVars
<1>2. CASE Start(r, k, c) /\ SetKey(k, "busy", c, r) /\ (record[k] = "free" \/ expired[k])
  <2>1. /\ pc'[r] = "load" /\ key'[r] = k /\ ordersOf'[k] = {}
        /\ \A l \in Keys : ordersOf'[l] \in {ordersOf[l], {}}
    BY <1>2 DEF Start, Goto, SetKey, CInv, TypeOK, KeyTypes, ReqTypes
  <2>2. FreedLeft' /\ Afresh' /\ RetryOrdersNothingPaid'
    BY <1>1, <2>1 DEF FreedInv, FreedLeft, RetryOrdersNothingPaid, Afresh, Left
  <2>3. Gone'
    BY <1>1, <2>1 DEF FreedInv, Gone, CartIsThere, Others
  <2>4. ASSUME NEW s \in Requests, pc'[s] \notin {"idle", "clear"} PROVE \A o \in ordersOf'[key'[s]] : paying'[o] = "started" => Left(o)'
    <3>1. CASE s = r
      BY <2>1, <3>1
    <3>2. CASE s # r
      <4>1. pc[s] = pc'[s] /\ key[s] = key'[s] /\ key[s] \in Keys
        BY <2>4, <3>2 DEF Others, CInv, Keeping, Holds
      <4>2. QED BY <1>1, <2>1, <2>4, <4>1 DEF FreedInv, Emptied, Left
    <3>3. QED BY <3>1, <3>2
  <2>5. Emptied'
    BY <2>4 DEF Emptied
  <2>6. QED BY <2>2, <2>3, <2>5 DEF FreedInv
<1>3. ASSUME NEW result \in Answers, Leave(r, result), UNCHANGED <<record, hash, owner, expired, ordersOf>>
      PROVE  FreedInv'
  <2>1. pc'[r] = "idle"
    BY <1>3 DEF Leave, Goto, CInv, TypeOK, ReqTypes
  <2>2. QED BY <1>1, <1>3, <2>1, SlotRests
<1>4. QED BY <1>2, <1>3 DEF Begin, CInv, TypeOK, KeyTypes, Answers

\* The freed key takes its orders with it, emptied as they are.
LEMMA StoreFrees ==
  ASSUME CInv, FreedInv, NEW r \in Requests, Store(r), Others(r)
  PROVE  FreedInv'
<1>1. /\ UNCHANGED <<cart, items, added, placed, paying, kept>>
      /\ pc[r] = "answer" /\ pc'[r] = "idle" /\ key[r] \in Keys /\ KeyOK(key[r])
  BY DEF Store, Leave, Goto, cartVars, orderVars, CInv, Keeping, Holds, TypeOK, ReqTypes
<1>2. CASE answer[r] # "error"
  <2>1. UNCHANGED <<ordersOf, freed>>
    BY <1>2 DEF Store
  <2>2. QED BY <1>1, <2>1, SlotRests
<1>3. CASE answer[r] = "error"
  <2>1. /\ ordersOf'[key[r]] = {}
        /\ freed'[key[r]] = freed[key[r]] \cup {o \in ordersOf[key[r]] : paying[o] = "started"}
        /\ \A k \in Keys : k # key[r] => ordersOf'[k] = ordersOf[k] /\ freed'[k] = freed[k]
    BY <1>1, <1>3 DEF Store, SetKey, CInv, TypeOK, KeyTypes
  <2>2. \A o \in ordersOf[key[r]] : paying[o] = "started" => placed[o] # {} /\ Left(o)
    BY <1>1 DEF FreedInv, Emptied, KeyOK
  <2>3. FreedLeft' /\ RetryOrdersNothingPaid' /\ Afresh'
    BY <1>1, <2>1, <2>2 DEF FreedInv, FreedLeft, RetryOrdersNothingPaid, Afresh, Left
  <2>4. Gone'
    BY <1>1 DEF FreedInv, Gone, CartIsThere, Others
  <2>5. ASSUME NEW s \in Requests, pc'[s] \notin {"idle", "clear"} PROVE \A o \in ordersOf'[key'[s]] : paying'[o] = "started" => Left(o)'
    <3>1. s # r
      BY <1>1, <2>5
    <3>2. pc[s] = pc'[s] /\ key[s] = key'[s] /\ key[s] \in Keys
      BY <2>5, <3>1 DEF Others, CInv, Keeping, Holds
    <3>3. \A o \in ordersOf'[key[s]] : o \in ordersOf[key[s]]
      BY <2>1, <3>2
    <3>4. QED BY <1>1, <2>5, <3>2, <3>3 DEF FreedInv, Emptied, Left
  <2>6. Emptied'
    BY <2>5 DEF Emptied
  <2>7. QED BY <2>3, <2>4, <2>6 DEF FreedInv
<1>4. QED BY <1>2, <1>3

\* The order takes what is in the cart, and that is nothing a freed key paid.
LEMMA PlaceFrees ==
  ASSUME CInv, FreedInv, NEW r \in Requests, Place(r), Others(r)
  PROVE  FreedInv'
<1>1. /\ UNCHANGED <<cart, items, added, paying, freed, kept, key>>
      /\ pc[r] = "place" /\ key[r] \in Keys /\ Running(r)
  BY DEF Place, cartVars, CInv, Keeping, Holds
<1>2. CASE Decide(r, "refused") /\ UNCHANGED <<placed, mine, ordersOf>>
  <2>1. pc'[r] = "answer"
    BY <1>2 DEF Decide, Goto, CInv, TypeOK, ReqTypes
  <2>2. QED BY <1>1, <1>2, <2>1, SlotRests
<1>3. ASSUME NEW o \in Orders, placed[o] = {}, CartIsThere(r), items # {}, Goto(r, "initiate"),
             placed' = [placed EXCEPT ![o] = items],
             mine' = [mine EXCEPT ![r] = o],
             ordersOf' = [ordersOf EXCEPT ![key[r]] = @ \cup {o}],
             UNCHANGED named
      PROVE  FreedInv'
  <2>1. /\ placed'[o] = items /\ \A p \in Orders : p # o => placed'[p] = placed[p]
        /\ paying[o] = "none" /\ ordersOf[key[r]] = {} /\ ordersOf'[key[r]] = {o}
        /\ \A k \in Keys : k # key[r] => ordersOf'[k] = ordersOf[k]
        /\ \A k \in Keys : ordersOf[k] \in SUBSET Orders /\ freed[k] \in SUBSET Orders /\ o \notin ordersOf[k]
        /\ pc'[r] = "initiate" /\ mine'[r] = o
    BY <1>1, <1>3 DEF Goto, CInv, Keeping, KeyOK, Unplaced, Running, TypeOK, KeyTypes, OrderTypes, ReqTypes
  <2>2. \A k \in Keys : \A q \in freed[k] : q # o /\ Left(q)
    BY <1>3 DEF FreedInv, FreedLeft
  <2>3. FreedLeft' /\ Afresh'
    BY <1>1, <2>1, <2>2 DEF FreedInv, FreedLeft, Afresh, Left
  <2>4. RetryOrdersNothingPaid'
    BY <1>1, <2>1, <2>2 DEF FreedInv, RetryOrdersNothingPaid, Left
  <2>5. ASSUME NEW s \in Requests, pc'[s] \in {"initiate", "clear"} PROVE CartIsThere(s)' \/ placed'[mine'[s]] \cap items' = {}
    <3>1. CASE s = r
      BY <1>1, <1>3, <3>1 DEF CartIsThere
    <3>2. CASE s # r
      <4>1. pc[s] = pc'[s] /\ mine[s] = mine'[s] /\ named[s] = named'[s] /\ key[s] \in Keys /\ Running(s)
        BY <2>5, <3>2 DEF Others, CInv, Keeping, Holds
      <4>2. mine[s] # o /\ mine[s] \in Orders
        BY <2>1, <2>5, <4>1 DEF Running
      <4>3. QED BY <1>1, <2>1, <2>5, <4>1, <4>2 DEF FreedInv, Gone, CartIsThere
    <3>3. QED BY <3>1, <3>2
  <2>6. Gone'
    BY <2>5 DEF Gone
  <2>7. ASSUME NEW s \in Requests, pc'[s] \notin {"idle", "clear"} PROVE \A p \in ordersOf'[key'[s]] : paying'[p] = "started" => Left(p)'
    <3>1. CASE s = r
      BY <1>1, <2>1, <3>1
    <3>2. CASE s # r
      <4>1. pc[s] = pc'[s] /\ key[s] = key'[s] /\ key[s] \in Keys /\ key[s] # key[r]
        BY <1>1, <2>7, <3>2 DEF Others, CInv, Keeping, Holds
      <4>2. \A p \in ordersOf[key[s]] : placed'[p] = placed[p]
        BY <2>1, <4>1
      <4>3. QED BY <1>1, <2>1, <2>7, <4>1, <4>2 DEF FreedInv, Emptied, Left
    <3>3. QED BY <3>1, <3>2
  <2>8. Emptied'
    BY <2>7 DEF Emptied
  <2>9. QED BY <2>3, <2>4, <2>6, <2>8 DEF FreedInv
<1>4. QED BY <1>2, <1>3 DEF Place

\* A payment that starts is about to have its cart cleared.
LEMMA InitiateFrees ==
  ASSUME CInv, FreedInv, NEW r \in Requests, Initiate(r), Others(r)
  PROVE  FreedInv'
<1>1. /\ UNCHANGED <<cart, items, added, placed, ordersOf, freed, kept, key, named, mine>>
      /\ pc[r] = "initiate" /\ key[r] \in Keys /\ Running(r) /\ mine[r] \in Orders /\ ordersOf[key[r]] = {mine[r]}
  BY DEF Initiate, cartVars, keyVars, CInv, Keeping, Holds, Running
<1>2. /\ \A p \in Orders : p # mine[r] => paying'[p] = paying[p]
      /\ \/ pc'[r] = "clear"
         \/ pc'[r] = "answer" /\ paying'[mine[r]] = "failed"
  BY <1>1 DEF Initiate, Decide, Goto, CInv, TypeOK, ReqTypes, OrderTypes
<1>3. FreedLeft' /\ Afresh' /\ RetryOrdersNothingPaid'
  BY <1>1 DEF FreedInv, FreedLeft, Afresh, RetryOrdersNothingPaid, Left
<1>4. Gone'
  BY <1>1, <1>2 DEF FreedInv, Gone, CartIsThere, Others
<1>5. ASSUME NEW s \in Requests, pc'[s] \notin {"idle", "clear"} PROVE \A p \in ordersOf'[key'[s]] : paying'[p] = "started" => Left(p)'
  <2>1. CASE s = r
    BY <1>1, <1>2, <1>5, <2>1
  <2>2. CASE s # r
    <3>1. pc[s] = pc'[s] /\ key[s] = key'[s] /\ key[s] \in Keys /\ key[s] # key[r]
      BY <1>1, <1>5, <2>2 DEF Others, CInv, Keeping, Holds
    <3>2. \A p \in ordersOf[key[s]] : p \in Orders /\ p # mine[r]
      BY <1>1, <3>1 DEF CInv, Keeping, Disjoint, TypeOK, KeyTypes
    <3>3. QED BY <1>1, <1>2, <1>5, <3>1, <3>2 DEF FreedInv, Emptied, Left
  <2>3. QED BY <2>1, <2>2
<1>6. Emptied'
  BY <1>5 DEF Emptied
<1>7. QED BY <1>3, <1>4, <1>6 DEF FreedInv

\* After clearItems the order's items are out of the cart, or it is kept.
LEMMA ClearFrees ==
  ASSUME CInv, FreedInv, NEW r \in Requests, Clear(r), Others(r)
  PROVE  FreedInv'
<1>1. /\ UNCHANGED <<cart, added, placed, paying, ordersOf, freed, key, named, mine>>
      /\ pc[r] = "clear" /\ Running(r) /\ ordersOf[key[r]] = {mine[r]}
      /\ CartIsThere(r) \/ placed[mine[r]] \cap items = {}
  BY DEF Clear, orderVars, keyVars, CInv, Keeping, Running, FreedInv, Gone
<1>2. /\ pc'[r] = "respond"
      /\ items' \in {items, {}} /\ kept \subseteq kept'
      /\ items' = {} \/ (CartIsThere(r) => mine[r] \in kept')
  BY DEF Clear, Goto, CInv, TypeOK, ReqTypes
<1>3. \A o \in Orders : Left(o) => Left(o)'
  BY <1>1, <1>2 DEF Left
<1>4. FreedLeft' /\ RetryOrdersNothingPaid' /\ Afresh'
  BY <1>1, <1>2, <1>3 DEF FreedInv, FreedLeft, RetryOrdersNothingPaid, Afresh, CInv, TypeOK, KeyTypes
<1>5. Gone'
  BY <1>1, <1>2 DEF FreedInv, Gone, CartIsThere, Others
<1>6. Left(mine[r])'
  BY <1>1, <1>2 DEF Left
<1>7. ASSUME NEW s \in Requests, pc'[s] \notin {"idle", "clear"} PROVE \A p \in ordersOf'[key'[s]] : paying'[p] = "started" => Left(p)'
  <2>1. CASE s = r
    BY <1>1, <1>6, <2>1
  <2>2. CASE s # r
    <3>1. pc[s] = pc'[s] /\ key[s] \in Keys
      BY <1>7, <2>2 DEF Others, CInv, Keeping, Holds
    <3>2. \A p \in ordersOf[key[s]] : p \in Orders
      BY <3>1 DEF CInv, TypeOK, KeyTypes
    <3>3. QED BY <1>1, <1>3, <1>7, <3>1, <3>2 DEF FreedInv, Emptied
  <2>3. QED BY <2>1, <2>2
<1>8. Emptied'
  BY <1>7 DEF Emptied
<1>9. QED BY <1>4, <1>5, <1>8 DEF FreedInv

\* What the customer puts into the cart has never been in one.
LEMMA OutsideFrees ==
  ASSUME CInv, FreedInv, Outside
  PROVE  FreedInv'
<1>1. UNCHANGED <<placed, paying, ordersOf, freed, kept, pc, key, named, mine>>
  BY DEF Outside, AddItem, RemoveItem, ViewCarts, ClearExpiredCarts, ClearCart, DropCart, NextDay, OpenOrClose,
     orderVars, keyVars, reqVars
<1>2. ASSUME \A o \in Orders : placed[o] \cap items' \subseteq placed[o] \cap items, Afresh',
             cart' = cart \/ items = {} \/ items' = {}
      PROVE  FreedInv'
  <2>1. \A o \in Orders : Left(o) => Left(o)'
    BY <1>1, <1>2 DEF Left
  <2>2. FreedLeft' /\ RetryOrdersNothingPaid'
    BY <1>1, <1>2, <2>1 DEF FreedInv, FreedLeft, RetryOrdersNothingPaid, CInv, TypeOK, KeyTypes
  <2>3. ASSUME NEW r \in Requests, pc[r] \in {"initiate", "clear"}
        PROVE  CartIsThere(r)' \/ placed'[mine'[r]] \cap items' = {}
    <3>1. mine[r] \in Orders /\ (CartIsThere(r) \/ placed[mine[r]] \cap items = {})
      BY <2>3 DEF CInv, Keeping, Running, FreedInv, Gone
    <3>2. QED BY <1>1, <1>2, <3>1 DEF CartIsThere
  <2>4. Gone'
    BY <1>1, <2>3 DEF Gone
  <2>5. ASSUME NEW r \in Requests, pc[r] \notin {"idle", "clear"}
        PROVE  \A o \in ordersOf[key[r]] : paying[o] = "started" => Left(o)'
    BY <2>1, <2>5 DEF FreedInv, Emptied, CInv, Keeping, Holds, TypeOK, KeyTypes
  <2>6. Emptied'
    BY <1>1, <2>5 DEF Emptied
  <2>7. QED BY <1>2, <2>2, <2>4, <2>6 DEF FreedInv
<1>3. Afresh /\ items \in SUBSET Items /\ (items # {} => cart # 0)
  BY DEF FreedInv, CInv, TypeOK, CartTypes
<1>4. ASSUME NEW i \in Items, AddItem(i) PROVE FreedInv'
  <2>1. /\ added[i] = Never /\ added'[i] # Never /\ items' = items \cup {i}
        /\ \A j \in Items : j # i => added'[j] = added[j]
        /\ \A o \in Orders : placed[o] \in SUBSET Items
        /\ cart' = cart \/ cart = 0
    BY <1>4, BoundsAssumption DEF AddItem, CInv, TypeOK, CartTypes, OrderTypes, EnvTypes, Never
  <2>2. Afresh'
    BY <1>1, <1>3, <2>1 DEF Afresh
  <2>3. QED BY <1>2, <1>3, <2>1, <2>2 DEF Afresh
<1>5. ASSUME NEW i \in Items, RemoveItem(i) PROVE FreedInv'
  <2>1. items' = items \ {i} /\ UNCHANGED <<added, cart>>
    BY <1>5 DEF RemoveItem
  <2>2. QED BY <1>1, <1>2, <1>3, <2>1 DEF Afresh
<1>6. CASE DropCart
  <2>1. items' = {} /\ UNCHANGED added
    BY <1>6 DEF DropCart
  <2>2. QED BY <1>1, <1>2, <1>3, <2>1 DEF Afresh
<1>7. CASE NextDay \/ OpenOrClose
  <2>1. UNCHANGED <<items, added, cart>>
    BY <1>7 DEF NextDay, OpenOrClose, cartVars
  <2>2. QED BY <1>1, <1>2, <1>3, <2>1 DEF Afresh
<1>8. QED BY <1>4, <1>5, <1>6, <1>7 DEF Outside, ViewCarts, ClearExpiredCarts, ClearCart

LEMMA NextFrees == CInv /\ FreedInv /\ [Next]_vars => FreedInv'
<1> SUFFICES ASSUME CInv, FreedInv, [Next]_vars PROVE FreedInv'
  OBVIOUS
<1>1. ASSUME NEW r \in Requests, RequestStep(r) PROVE FreedInv'
  <2>1. Others(r)
    BY <1>1, OthersStay
  <2>2. CASE Load(r) \/ Validate(r) \/ Respond(r) \/ HandlerError(r)
    <3>1. /\ UNCHANGED <<cart, items, added, placed, paying, ordersOf, freed, kept, key>>
          /\ pc[r] \notin {"idle", "clear"} /\ pc'[r] \notin {"initiate", "clear"}
      BY <2>2 DEF Load, Validate, Respond, HandlerError, Decide, Goto, cartVars, orderVars, keyVars, CInv, TypeOK, ReqTypes
    <3>2. QED BY <2>1, <3>1, SlotRests
  <2>3. CASE Crash(r)
    <3>1. UNCHANGED <<cart, items, added, placed, paying, ordersOf, freed, kept>> /\ pc'[r] = "idle"
      BY <2>3 DEF Crash, Leave, Goto, cartVars, orderVars, CInv, TypeOK, ReqTypes
    <3>2. FreedLeft' /\ RetryOrdersNothingPaid' /\ Afresh' /\ Gone'
      BY <2>1, <3>1 DEF FreedInv, FreedLeft, RetryOrdersNothingPaid, Afresh, Left, Gone, CartIsThere, Others
    <3>3. Emptied'
      BY <2>1, <3>1 DEF FreedInv, Emptied, Left, Others
    <3>4. QED BY <3>2, <3>3 DEF FreedInv
  <2>4. QED BY <1>1, <2>1, <2>2, <2>3, BeginFrees, PlaceFrees, InitiateFrees, ClearFrees, StoreFrees DEF RequestStep
<1>2. ASSUME UNCHANGED <<cartVars, placed, paying, ordersOf, freed, kept, pc, key, named, mine>> PROVE FreedInv'
  BY <1>2 DEF FreedInv, FreedLeft, RetryOrdersNothingPaid, Afresh, Left, Gone, Emptied, CartIsThere, cartVars
<1>3. CASE UNCHANGED vars
  BY <1>2, <1>3 DEF vars, cartVars, orderVars, keyVars, reqVars
<1>4. ASSUME NEW k \in Keys, ExpireKey(k) PROVE FreedInv'
  BY <1>2, <1>4 DEF ExpireKey, orderVars, reqVars
<1>5. QED BY <1>1, <1>3, <1>4, OutsideFrees DEF Next

\* A 5xx may free a key whose payment has started; whoever sends the request
\* again under it orders nothing that is being paid already, unless clearItems
\* had left it in the cart.
THEOREM RetriesAreNew == Spec => []RetryOrdersNothingPaid
<1>1. Init => FreedInv
  BY DEF Init, FreedInv, Emptied, Gone, Afresh, FreedLeft, RetryOrdersNothingPaid
<1>2. FreedInv => RetryOrdersNothingPaid
  BY DEF FreedInv
<1>3. QED BY <1>1, <1>2, InitOK, NextOK, NextFrees, PTL DEF Spec

-----------------------------------------------------------------------------
(* Nothing is ordered twice                                                *)
(*                                                                         *)
(* Where one checkout runs at a time, the cart is left alone meanwhile and  *)
(* nothing fails.  OrderedOnce speaks of started payments only, and is kept *)
(* because what is ordered has left the cart (Bought) before the next       *)
(* order; the cart is emptied because the request saw what it orders        *)
(* (SeesCart), and never gets an item back (OnceAdded).                     *)

Alone == /\ \A r, s \in Requests : r = s
         /\ ~EditsMeanwhile /\ MaxErrors = 0 /\ MaxCrashes = 0

Starting(o) == \E r \in Requests : pc[r] = "initiate" /\ mine[r] = o
Clearing(o) == \E r \in Requests : pc[r] = "clear" /\ mine[r] = o

Apart ==
    \A o, p \in Orders : paying[o] = "started" /\ (paying[p] = "started" \/ Starting(p)) /\ o # p
                           => placed[o] \cap placed[p] = {}

Bought == \A o \in Orders : paying[o] = "started" => placed[o] \cap items = {} \/ Clearing(o)

OnceAdded == /\ \A i \in items : added[i] # Never
             /\ \A o \in Orders : \A i \in placed[o] : added[i] # Never

SeesCart ==
    \A r \in Requests :
        /\ pc[r] \in {"validate", "place", "initiate", "clear"} => items = {} \/ CartIsThere(r)
        /\ pc[r] \in {"place", "initiate", "clear"} => items = {} \/ saw[r] = items

SoldInv == Apart /\ Bought /\ OnceAdded /\ SeesCart

LEMMA SellingKeeps ==
  ASSUME Alone, CInv, CInv', SoldInv, NEW r \in Requests, RequestStep(r)
  PROVE  SoldInv'
<1>1. /\ \A s \in Requests : s = r
      /\ pc \in [Requests -> Steps] /\ saw \in [Requests -> SUBSET Items] /\ mine \in [Requests -> Orders \cup {NoOrder}]
      /\ named \in [Requests -> 0..lastCart] /\ answer \in [Requests -> Answers]
      /\ placed \in [Orders -> SUBSET Items] /\ paying \in [Orders -> {"none", "started", "failed"}]
      /\ Running(r) /\ Apart /\ Bought /\ OnceAdded /\ SeesCart
  BY DEF Alone, CInv, Keeping, TypeOK, ReqTypes, OrderTypes, SoldInv
<1>2. ASSUME UNCHANGED <<items, added, placed, paying>>, pc'[r] \notin {"initiate", "clear"}, pc[r] # "clear", SeesCart'
      PROVE  SoldInv'
  BY <1>1, <1>2 DEF SoldInv, Apart, Bought, OnceAdded, Starting, Clearing
<1>3. ASSUME NEW k \in Keys, NEW c \in 1..MaxCarts, Begin(r, k, c) PROVE SoldInv'
  <2>1. UNCHANGED <<items, added, placed, paying>> /\ pc[r] = "idle" /\ pc'[r] \in {"idle", "load"}
    BY <1>1, <1>3 DEF Begin, Start, Leave, Goto, cartVars, orderVars
  <2>2. SeesCart'
    BY <1>1, <2>1 DEF SeesCart
  <2>3. QED BY <1>2, <2>1, <2>2
<1>4. CASE Store(r)
  <2>1. UNCHANGED <<items, added, placed, paying>> /\ pc[r] = "answer" /\ pc'[r] = "idle"
    BY <1>1, <1>4 DEF Store, Leave, Goto, cartVars, orderVars
  <2>2. SeesCart'
    BY <1>1, <2>1 DEF SeesCart
  <2>3. QED BY <1>2, <2>1, <2>2
<1>12. CASE Respond(r)
  <2>1. UNCHANGED <<items, added, placed, paying>> /\ pc[r] = "respond" /\ pc'[r] = "answer"
    BY <1>1, <1>12 DEF Respond, Decide, Goto, cartVars, orderVars
  <2>2. SeesCart'
    BY <1>1, <2>1 DEF SeesCart
  <2>3. QED BY <1>2, <2>1, <2>2
<1>5. CASE HandlerError(r) \/ Crash(r)
  BY <1>5 DEF Alone, HandlerError, Crash, CInv, TypeOK, EnvTypes
<1>6. CASE Load(r)
  <2>1. /\ UNCHANGED <<cart, items, added, placed, paying, named>> /\ pc[r] = "load"
        /\ \/ pc'[r] = "validate" /\ CartIsThere(r)
           \/ pc'[r] = "answer"
    BY <1>1, <1>6 DEF Load, Decide, Goto, cartVars, orderVars
  <2>2. SeesCart'
    BY <1>1, <2>1 DEF SeesCart, CartIsThere
  <2>3. QED BY <1>2, <2>1, <2>2
<1>7. CASE Validate(r)
  <2>1. /\ UNCHANGED <<cart, items, added, placed, paying, named>> /\ pc[r] = "validate"
        /\ \/ pc'[r] = "place" /\ saw'[r] = IF CartIsThere(r) THEN items ELSE {}
           \/ pc'[r] = "answer"
    BY <1>1, <1>7 DEF Validate, Decide, Goto, cartVars, orderVars
  <2>2. SeesCart'
    BY <1>1, <2>1 DEF SeesCart, CartIsThere
  <2>3. QED BY <1>2, <2>1, <2>2
<1>8. CASE Place(r)
  <2>1. UNCHANGED <<cart, items, added, paying, named, saw>> /\ pc[r] = "place"
    BY <1>8 DEF Place, cartVars
  <2>2. CASE Decide(r, "refused") /\ UNCHANGED placed
    <3>1. pc'[r] = "answer"
      BY <1>1, <2>2 DEF Decide, Goto
    <3>2. SeesCart'
      BY <1>1, <3>1 DEF SeesCart
    <3>3. QED BY <1>2, <2>1, <2>2, <3>1, <3>2
  <2>3. ASSUME NEW o \in Orders, placed[o] = {}, placed' = [placed EXCEPT ![o] = items],
               mine' = [mine EXCEPT ![r] = o], Goto(r, "initiate")
        PROVE  SoldInv'
    <3>1. /\ placed'[o] = items /\ \A p \in Orders : p # o => placed'[p] = placed[p]
          /\ paying[o] = "none" /\ mine'[r] = o /\ pc'[r] = "initiate"
      BY <1>1, <2>3 DEF Goto, CInv, Keeping, Unplaced
    <3>2. \A p \in Orders : paying[p] = "started" => placed[p] \cap items = {}
      BY <1>1, <2>1 DEF Bought, Clearing
    <3>3. Apart'
      BY <1>1, <2>1, <3>1, <3>2 DEF Apart, Starting
    <3>4. Bought'
      BY <2>1, <3>1, <3>2 DEF Bought
    <3>5. OnceAdded'
      BY <1>1, <2>1, <3>1 DEF OnceAdded
    <3>6. SeesCart'
      BY <1>1, <2>1, <3>1 DEF SeesCart, CartIsThere
    <3>7. QED BY <3>3, <3>4, <3>5, <3>6 DEF SoldInv
  <2>4. QED BY <1>8, <2>2, <2>3 DEF Place
<1>9. CASE Initiate(r)
  <2>1. UNCHANGED <<cart, items, added, placed, named, saw, mine>> /\ pc[r] = "initiate" /\ mine[r] \in Orders
    BY <1>1, <1>9 DEF Initiate, Running, cartVars
  <2>2. PICK s \in {"started", "failed"} :
           /\ paying'[mine[r]] = s /\ \A p \in Orders : p # mine[r] => paying'[p] = paying[p]
           /\ pc'[r] = IF s = "started" THEN "clear" ELSE "answer"
    BY <1>1, <1>9, <2>1 DEF Initiate, Decide, Goto
  <2>3. Apart'
    BY <1>1, <2>1, <2>2 DEF Apart, Starting
  <2>4. Bought'
    BY <1>1, <2>1, <2>2 DEF Bought, Clearing
  <2>5. OnceAdded' /\ SeesCart'
    BY <1>1, <2>1, <2>2 DEF OnceAdded, SeesCart, CartIsThere
  <2>6. QED BY <2>3, <2>4, <2>5 DEF SoldInv
<1>10. CASE Clear(r)
  <2>1. UNCHANGED <<cart, added, placed, paying, named, saw, mine>> /\ pc[r] = "clear" /\ pc'[r] = "respond"
    BY <1>1, <1>10 DEF Clear, Goto, orderVars
  <2>2. items' = {}
    BY <1>1, <1>10, <2>1 DEF Clear, SeesCart, Alone, CInv, TypeOK, EnvTypes
  <2>3. QED BY <1>1, <2>1, <2>2 DEF SoldInv, Apart, Bought, OnceAdded, SeesCart, Starting, Clearing
<1>11. QED BY <1>3, <1>4, <1>5, <1>6, <1>7, <1>8, <1>9, <1>10, <1>12 DEF RequestStep

LEMMA ShoppingKeeps ==
  ASSUME Alone, CInv, SoldInv, Outside
  PROVE  SoldInv'
<1>1. UNCHANGED <<placed, paying, pc, mine, named, saw>> /\ Apart /\ Bought /\ OnceAdded /\ SeesCart
  BY DEF Outside, AddItem, RemoveItem, ViewCarts, ClearExpiredCarts, ClearCart, DropCart, NextDay, OpenOrClose,
     orderVars, reqVars, SoldInv
<1>2. Apart'
  BY <1>1 DEF Apart, Starting
<1>3. ASSUME NEW i \in Items, AddItem(i) PROVE SoldInv'
  <2>1. (\A r \in Requests : pc[r] = "idle") /\ added[i] = Never /\ items' = items \cup {i}
    BY <1>3 DEF AddItem, CanEdit, Alone
  <2>2. added'[i] # Never /\ \A j \in Items : j # i => added'[j] = added[j]
    BY <1>3, BoundsAssumption DEF AddItem, CInv, TypeOK, CartTypes, EnvTypes, Never
  <2>3. Bought'
    BY <1>1, <2>1 DEF Bought, OnceAdded, Clearing
  <2>4. OnceAdded' /\ SeesCart'
    BY <1>1, <2>1, <2>2 DEF OnceAdded, SeesCart, CInv, TypeOK, CartTypes, OrderTypes
  <2>5. QED BY <1>2, <2>3, <2>4 DEF SoldInv
<1>4. ASSUME NEW i \in Items, RemoveItem(i) PROVE SoldInv'
  <2>1. (\A r \in Requests : pc[r] = "idle") /\ items' \subseteq items /\ UNCHANGED added
    BY <1>4 DEF RemoveItem, CanEdit, Alone
  <2>2. QED BY <1>1, <1>2, <2>1 DEF SoldInv, Bought, OnceAdded, SeesCart, Clearing
<1>5. CASE DropCart
  BY <1>1, <1>2, <1>5 DEF DropCart, SoldInv, Bought, OnceAdded, SeesCart
<1>6. CASE NextDay \/ OpenOrClose
  BY <1>1, <1>2, <1>6 DEF NextDay, OpenOrClose, cartVars, SoldInv, Bought, OnceAdded, SeesCart, Clearing, CartIsThere
<1>7. QED BY <1>3, <1>4, <1>5, <1>6 DEF Outside, ViewCarts, ClearExpiredCarts, ClearCart

LEMMA NextSells ==
  ASSUME Alone
  PROVE  CInv /\ CInv' /\ SoldInv /\ [Next]_vars => SoldInv'
<1>1. SUFFICES ASSUME CInv, CInv', SoldInv, [Next]_vars PROVE SoldInv'
  OBVIOUS
<1>2. CASE UNCHANGED <<cartVars, orderVars, reqVars>>
  BY <1>1, <1>2 DEF SoldInv, Apart, Bought, OnceAdded, SeesCart, Starting, Clearing, CartIsThere, cartVars, orderVars, reqVars
<1>3. UNCHANGED vars \/ (\E k \in Keys : ExpireKey(k)) => UNCHANGED <<cartVars, orderVars, reqVars>>
  BY DEF vars, ExpireKey
<1>4. QED BY <1>1, <1>2, <1>3, SellingKeeps, ShoppingKeeps DEF Next

\* Nothing is ordered twice where checkouts do not overlap, the cart is left
\* alone meanwhile and nothing fails, however many orders, days and expired
\* carts there are (createFromCart, clearItems).
THEOREM NothingTwice ==
  ASSUME Alone
  PROVE  Spec => []OrderedOnce
<1>1. Init => SoldInv
  BY DEF Init, SoldInv, Apart, Bought, OnceAdded, SeesCart
<1>2. SoldInv => OrderedOnce
  BY DEF SoldInv, Apart, OrderedOnce
<1>3. QED BY <1>1, <1>2, InitOK, NextOK, NextSells, PTL DEF Spec
=============================================================================
