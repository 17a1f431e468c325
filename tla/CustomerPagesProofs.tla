------------------------ MODULE CustomerPagesProofs ------------------------
(***************************************************************************)
(* Proofs about the pages of a customer, for any items, quantities,         *)
(* requests and bounds.                                                    *)
(*                                                                         *)
(* The cart.  That the last choice wins is not inductive: it rests on what  *)
(* an update that waits, that is under way or that is answered will leave   *)
(* on the server (ChoiceTravels), on there being one batch at a time        *)
(* (OneBatch), and on nobody choosing for an item before it is in the cart  *)
(* (NotBornYet), which in turn is about every copy of the cart under way.   *)
(* That the customer sees what the server has once all is quiet needs more: *)
(* where each item shown, or kept for a change that may yet be taken back,  *)
(* is led by the updates under way (Right), also with one failure spent.    *)
(*                                                                         *)
(* The order that is watched.  The badge does not go back because an answer *)
(* on its way is between the badge and the order (AnswerBetween), and there *)
(* is only one while requests do not overlap (OneAsks).                     *)
(***************************************************************************)
EXTENDS CustomerPages, FiniteSetTheorems, TLAPS

-----------------------------------------------------------------------------
(* The cart                                                                *)

Amounts == [Items -> Nat]
Updates == [pc : {"none", "queued", "sent", "done", "refused"}, quantity : Nat, op : Nat, before : Nat]
Calls   == [pc : {"none", "sent", "done", "refused"}, cart : Amounts]

CartTypes ==
    /\ server \in Amounts /\ shown \in Amounts /\ seq \in Amounts /\ choice \in Amounts /\ quote \in Amounts
    /\ unborn \subseteq Items
    /\ queued \in [Items -> Updates] /\ sent \in [Items -> Updates]
    /\ \A i \in Items : queued[i].pc \in {"none", "queued"} /\ sent[i].pc # "queued"
    /\ removal \in [Items -> Calls] /\ addition \in [Items -> Calls] /\ fetch \in [Fetches -> Calls]
    /\ clearing \in Calls
    /\ fails \in Nat

\* Nobody has seen, chosen or kept a quantity of a row that nobody has added.
NotBornYet ==
    /\ \A i \in unborn :
          /\ server[i] = 0 /\ shown[i] = 0 /\ choice[i] = 0
          /\ removal[i].cart[i] = 0 /\ clearing.cart[i] = 0
          /\ \A j \in Items : addition[j].cart[i] = 0
          /\ \A f \in Fetches : fetch[f].cart[i] = 0
    /\ \A i \in Items : addition[i].pc = "sent" => i \in unborn

OneBatch == ~away /\ ~flushing => \A i \in Items : sent[i].pc = "none"

\* Where the last choice is: it waits, is under way, or has reached the server.
ChoiceTravels ==
    /\ away => choice = Empty
    /\ fails = 0 => \A i \in Items : choice[i] > 0 =>
         /\ queued[i].pc = "queued" => queued[i].quantity = choice[i]
         /\ queued[i].pc = "none" =>
              /\ sent[i].pc = "sent" => sent[i].quantity = choice[i]
              /\ sent[i].pc \in {"none", "done"} => server[i] \in {0, choice[i]}
              /\ sent[i].pc = "refused" => server[i] = 0

\* A page rendered at rest finds the cart it has shown.
QuoteStands ==
    /\ quote # Empty /\ ~hurried => NoChange /\ server = quote
    /\ ShownIsOrderedAtRest

CartInv == CartTypes /\ NotBornYet /\ OneBatch /\ ChoiceTravels /\ QuoteStands

LEMMA UpdateMoves ==
  ASSUME NEW u \in Updates, NEW pc \in {"none", "queued", "sent", "done", "refused"}
  PROVE  /\ [u EXCEPT !.pc = pc] \in Updates
         /\ [u EXCEPT !.pc = pc].pc = pc /\ [u EXCEPT !.pc = pc].quantity = u.quantity
         /\ [u EXCEPT !.pc = pc].op = u.op /\ [u EXCEPT !.pc = pc].before = u.before
BY DEF Updates

LEMMA CallMoves ==
  ASSUME NEW c \in Calls, NEW pc \in {"none", "sent", "done", "refused"}
  PROVE  /\ [c EXCEPT !.pc = pc] \in Calls
         /\ [c EXCEPT !.pc = pc].pc = pc /\ [c EXCEPT !.pc = pc].cart = c.cart
BY DEF Calls

LEMMA Nothings == /\ Empty \in Amounts /\ \A i \in Items : Empty[i] = 0
                  /\ NoUpdate \in Updates /\ NoUpdate.pc = "none"
                  /\ NoRequest \in Calls /\ NoRequest.pc = "none" /\ NoRequest.cart = Empty
BY DEF Empty, Amounts, NoUpdate, Updates, NoRequest, Calls

LEMMA CartStarts == Init => CartInv
<1> SUFFICES ASSUME Init PROVE CartInv
  OBVIOUS
<1>1. CartTypes
  BY Nothings DEF Init, CartTypes, Amounts
<1>2. NotBornYet
  BY Nothings, AtFirstAssumption DEF Init, NotBornYet
<1>3. OneBatch /\ ChoiceTravels
  BY Nothings DEF Init, OneBatch, ChoiceTravels
<1>4. QuoteStands
  BY DEF Init, QuoteStands, ShownIsOrderedAtRest
<1>5. QED BY <1>1, <1>2, <1>3, <1>4 DEF CartInv

\* What a step leaves alone it cannot break.
LEMMA ChoiceRests ==
  ASSUME CartInv, UNCHANGED <<choice, queued, sent, server, away>>, fails' = 0 => fails = 0
  PROVE  ChoiceTravels'
BY DEF CartInv, ChoiceTravels

LEMMA BatchRests ==
  ASSUME CartInv, UNCHANGED <<sent, flushing, away>>
  PROVE  OneBatch'
BY DEF CartInv, OneBatch

LEMMA QuoteRests ==
  ASSUME CartInv, UNCHANGED <<server, quote, hurried, ordered>>, quote # Empty /\ NoChange => NoChange'
  PROVE  QuoteStands'
BY DEF CartInv, QuoteStands, ShownIsOrderedAtRest

\* No checkout page is rendered, or the change comes too late for it.
LEMMA NoQuoteYet ==
  ASSUME CartInv, quote = Empty \/ hurried', hurried => hurried', UNCHANGED <<quote, ordered>>
  PROVE  QuoteStands'
BY DEF CartInv, QuoteStands, ShownIsOrderedAtRest

\* A change of the customer is one of these.
LEMMA ChangeIsLate ==
  ASSUME Changes
  PROVE  ~away /\ (quote = Empty \/ hurried') /\ (hurried => hurried') /\ UNCHANGED <<quote, ordered>>
BY DEF Changes, Acts

LEMMA FailsCount == CartInv /\ Fails => fails' \in Nat /\ fails' # 0
BY DEF CartInv, CartTypes, Fails

-----------------------------------------------------------------------------
(* Quantities                                                              *)

LEMMA StepKeeps ==
  ASSUME CartInv, NEW i \in Items, Step(i)
  PROVE  CartInv'
<1>1. PICK quantity \in Nat : quantity > 0 /\ UpdateQuantity(i, quantity)
  BY DEF Step, CartInv, CartTypes, Amounts
<1>2. /\ shown[i] > 0 /\ ~away /\ quantity > 0
      /\ (quote = Empty \/ hurried') /\ (hurried => hurried')
      /\ UNCHANGED <<serverVars, flushing, sent, otherVars, away, quote, ordered, fails>>
  BY <1>1, ChangeIsLate DEF Step, CartShown
<1> DEFINE new == Joined(i, quantity)
<1>3. new \in Updates /\ new.pc = "queued" /\ new.quantity = quantity
  BY DEF CartInv, CartTypes, Amounts, Updates, Joined
<1>4. queued' = [queued EXCEPT ![i] = new]
  BY <1>1 DEF UpdateQuantity
<1> HIDE DEF new
<1>5. CartTypes'
  <2>1. shown' \in Amounts /\ seq' \in Amounts /\ choice' \in Amounts
    BY <1>1 DEF CartInv, CartTypes, Amounts, UpdateQuantity, Adjusted
  <2>2. queued' \in [Items -> Updates] /\ \A j \in Items : queued'[j].pc \in {"none", "queued"}
    BY <1>3, <1>4 DEF CartInv, CartTypes
  <2>3. QED BY <1>2, <2>1, <2>2 DEF CartInv, CartTypes, serverVars, otherVars
<1>6. NotBornYet'
  <2>1. i \notin unborn
    BY <1>2 DEF CartInv, NotBornYet, CartTypes, Amounts
  <2>2. \A j \in unborn : shown'[j] = shown[j] /\ choice'[j] = choice[j]
    BY <1>1, <2>1 DEF CartInv, CartTypes, Amounts, UpdateQuantity, Adjusted
  <2>3. UNCHANGED <<server, unborn, removal, clearing, addition, fetch>>
    BY <1>2 DEF serverVars, otherVars
  <2>4. QED BY <2>2, <2>3 DEF CartInv, NotBornYet
<1>7. OneBatch' /\ QuoteStands'
  BY <1>2, BatchRests, NoQuoteYet
<1>8. ChoiceTravels'
  <2>1. choice'[i] = quantity /\ queued'[i].pc = "queued" /\ queued'[i].quantity = quantity
    BY <1>1, <1>3, <1>4 DEF UpdateQuantity, CartInv, CartTypes, Amounts
  <2>2. \A j \in Items \ {i} : choice'[j] = choice[j] /\ queued'[j] = queued[j]
    BY <1>1, <1>4 DEF UpdateQuantity, CartInv, CartTypes, Amounts
  <2>3. UNCHANGED <<server, sent, away, fails>> /\ ~away
    BY <1>2 DEF serverVars
  <2>4. QED BY <2>1, <2>2, <2>3 DEF CartInv, ChoiceTravels
<1>9. QED BY <1>5, <1>6, <1>7, <1>8 DEF CartInv

\* A batch is taken when no other is under way.
LEMMA BatchTaken ==
  ASSUME CartInv, TakeBatch(queued)
  PROVE  /\ queued' \in [Items -> Updates] /\ sent' \in [Items -> Updates]
         /\ \A i \in Items :
              /\ queued'[i].pc = "none"
              /\ queued[i].pc = "queued" => sent'[i].pc = "sent" /\ sent'[i].quantity = queued[i].quantity
              /\ queued[i].pc = "none" => sent'[i].pc = "none"
<1>1. \A i \in Items : /\ [queued[i] EXCEPT !.pc = "sent"] \in Updates
                       /\ [queued[i] EXCEPT !.pc = "sent"].pc = "sent"
                       /\ [queued[i] EXCEPT !.pc = "sent"].quantity = queued[i].quantity
  BY UpdateMoves DEF CartInv, CartTypes
<1>2. QED BY <1>1, Nothings DEF TakeBatch

LEMMA FlushKeeps ==
  ASSUME CartInv, Flush
  PROVE  CartInv'
<1>1. UNCHANGED <<serverVars, storeVars, seq, otherVars, away, paying, pastVars, fails>>
  BY DEF Flush
<1>2. UNCHANGED <<server, unborn, shown, seq, choice, quote, hurried, ordered, removal, clearing, addition, fetch, away, fails>>
  BY <1>1 DEF serverVars, storeVars, otherVars, paying, pastVars
<1>3. NotBornYet'
  BY <1>2 DEF CartInv, NotBornYet
<1>4. CASE UNCHANGED <<queued, flushing, sent>>
  <2>1. CartTypes'
    BY <1>2, <1>4 DEF CartInv, CartTypes
  <2>2. QuoteStands'
    BY <1>2, <1>4, QuoteRests DEF NoChange
  <2>3. QED BY <1>2, <1>3, <1>4, <2>1, <2>2, ChoiceRests, BatchRests DEF CartInv
<1>5. CASE ~flushing /\ TakeBatch(queued) /\ flushing' = TRUE /\ \E i \in Items : queued[i].pc # "none"
  <2>1. CartTypes'
    BY <1>2, <1>5, BatchTaken DEF CartInv, CartTypes
  <2>2. OneBatch'
    BY <1>5 DEF OneBatch
  <2>3. QuoteStands'
    <3>1. ~NoChange
      BY <1>5 DEF NoChange
    <3>2. QED BY <1>2, <3>1, QuoteRests
  <2>4. ChoiceTravels'
    <3>1. away => choice' = Empty
      BY <1>2 DEF CartInv, ChoiceTravels
    <3>2. SUFFICES ASSUME fails = 0, NEW i \in Items, choice[i] > 0
                   PROVE  /\ sent'[i].pc = "sent" => sent'[i].quantity = choice[i]
                          /\ sent'[i].pc \in {"none", "done"} => server[i] \in {0, choice[i]}
                          /\ sent'[i].pc = "refused" => server[i] = 0
      BY <1>2, <1>5, <3>1, BatchTaken DEF ChoiceTravels
    <3>3. ~away
      BY <3>2, Nothings DEF CartInv, ChoiceTravels
    <3>4. sent[i].pc = "none"
      BY <1>5, <3>3 DEF CartInv, OneBatch
    <3>5. CASE queued[i].pc = "queued"
      BY <1>5, <3>2, <3>5, BatchTaken DEF CartInv, ChoiceTravels
    <3>6. CASE queued[i].pc = "none"
      BY <1>5, <3>2, <3>4, <3>6, BatchTaken DEF CartInv, ChoiceTravels
    <3>7. QED BY <3>5, <3>6 DEF CartInv, CartTypes
  <2>5. QED BY <1>3, <2>1, <2>2, <2>3, <2>4 DEF CartInv
<1>6. QED BY <1>4, <1>5 DEF Flush

LEMMA UpdateServed ==
  ASSUME CartInv, NEW i \in Items, ServeUpdate(i)
  PROVE  /\ sent[i].pc = "sent"
         /\ sent' \in [Items -> Updates] /\ \A j \in Items \ {i} : sent'[j] = sent[j]
         /\ server' \in Amounts /\ \A j \in Items \ {i} : server'[j] = server[j]
         /\ sent'[i].quantity = sent[i].quantity /\ sent'[i].op = sent[i].op
         /\ \/ sent'[i].pc = "done" /\ server[i] > 0 /\ ~away /\ server'[i] = sent[i].quantity
            \/ sent'[i].pc = "refused" /\ (server[i] = 0 \/ away) /\ server'[i] = server[i]
<1> DEFINE new(pc) == [sent[i] EXCEPT !.pc = pc]
<1>1. \A pc \in {"done", "refused"} :
        new(pc) \in Updates /\ new(pc).pc = pc /\ new(pc).quantity = sent[i].quantity /\ new(pc).op = sent[i].op
  <2>1. SUFFICES ASSUME NEW pc \in {"done", "refused"}
                 PROVE  /\ new(pc) \in Updates /\ new(pc).pc = pc
                        /\ new(pc).quantity = sent[i].quantity /\ new(pc).op = sent[i].op
    OBVIOUS
  <2>2. sent[i] \in Updates /\ pc \in {"none", "queued", "sent", "done", "refused"}
    BY DEF CartInv, CartTypes
  <2>3. QED BY <2>2, UpdateMoves
<1>2. sent[i].pc = "sent"
  BY DEF ServeUpdate
<1>3. CASE server[i] > 0 /\ ~away
  <2>1. server' = [server EXCEPT ![i] = sent[i].quantity] /\ sent' = [sent EXCEPT ![i] = new("done")]
    BY <1>3 DEF ServeUpdate
  <2> HIDE DEF new
  <2>2. QED BY <1>1, <1>2, <1>3, <2>1 DEF CartInv, CartTypes, Amounts, Updates
<1>4. CASE ~(server[i] > 0 /\ ~away)
  <2>1. server' = server /\ sent' = [sent EXCEPT ![i] = new("refused")]
    BY <1>4 DEF ServeUpdate
  <2> HIDE DEF new
  <2>2. QED BY <1>1, <1>2, <1>4, <2>1 DEF CartInv, CartTypes, Amounts
<1>5. QED BY <1>3, <1>4

LEMMA ServeUpdateKeeps ==
  ASSUME CartInv, NEW i \in Items, ServeUpdate(i)
  PROVE  CartInv'
<1>1. UNCHANGED <<unborn, shown, seq, choice, queued, flushing, quote, hurried, ordered, away, fails>>
      /\ UNCHANGED <<removal, clearing, addition, fetch>>
  BY DEF ServeUpdate, storeVars, queueVars, otherVars, paying, pastVars
<1>2. /\ sent[i].pc = "sent" /\ sent'[i].pc \in {"done", "refused"}
      /\ sent' \in [Items -> Updates] /\ \A j \in Items \ {i} : sent'[j] = sent[j]
  BY UpdateServed
<1>3. /\ server' \in Amounts /\ \A j \in Items \ {i} : server'[j] = server[j]
      /\ server[i] = 0 => server'[i] = 0
      /\ sent'[i].pc = "done" => server'[i] = sent[i].quantity
      /\ sent'[i].pc = "refused" => server'[i] = 0 \/ away
  BY UpdateServed
<1>4. CartTypes'
  BY <1>1, <1>2, <1>3 DEF CartInv, CartTypes
<1>5. NotBornYet'
  BY <1>1, <1>3 DEF CartInv, NotBornYet, CartTypes
<1>6. OneBatch'
  BY <1>1, <1>2 DEF CartInv, OneBatch
<1>7. QuoteStands'
  BY <1>1, <1>2 DEF CartInv, QuoteStands, ShownIsOrderedAtRest, NoChange
<1>8. ChoiceTravels'
  <2>1. away => choice' = Empty
    BY <1>1 DEF CartInv, ChoiceTravels
  <2>2. SUFFICES ASSUME fails = 0, NEW j \in Items, choice[j] > 0
                 PROVE  /\ queued[j].pc = "queued" => queued[j].quantity = choice[j]
                        /\ queued[j].pc = "none" =>
                             /\ sent'[j].pc = "sent" => sent'[j].quantity = choice[j]
                             /\ sent'[j].pc \in {"none", "done"} => server'[j] \in {0, choice[j]}
                             /\ sent'[j].pc = "refused" => server'[j] = 0
    BY <1>1, <2>1 DEF ChoiceTravels
  <2>3. ~away
    BY <2>2, Nothings DEF CartInv, ChoiceTravels
  <2>4. CASE j = i
    BY <1>2, <1>3, <2>2, <2>3, <2>4 DEF CartInv, ChoiceTravels
  <2>5. CASE j # i
    BY <1>2, <1>3, <2>2, <2>5 DEF CartInv, ChoiceTravels
  <2>6. QED BY <2>4, <2>5
<1>9. QED BY <1>4, <1>5, <1>6, <1>7, <1>8 DEF CartInv

LEMMA FailUpdateKeeps ==
  ASSUME CartInv, NEW i \in Items, FailUpdate(i)
  PROVE  CartInv'
<1>1. UNCHANGED <<server, unborn, shown, seq, choice, queued, flushing, quote, hurried, ordered, away>>
      /\ UNCHANGED <<removal, clearing, addition, fetch>>
  BY DEF FailUpdate, serverVars, storeVars, queueVars, otherVars, paying
<1> DEFINE new == [sent[i] EXCEPT !.pc = "refused"]
<1>2. new \in Updates /\ new.pc = "refused"
  BY UpdateMoves DEF CartInv, CartTypes
<1>3. sent' = [sent EXCEPT ![i] = new] /\ sent[i].pc # "none"
  BY DEF FailUpdate
<1> HIDE DEF new
<1>4. /\ sent' \in [Items -> Updates] /\ sent'[i].pc = "refused"
      /\ \A j \in Items \ {i} : sent'[j] = sent[j]
  BY <1>2, <1>3 DEF CartInv, CartTypes
<1>5. fails' \in Nat /\ fails' # 0
  BY FailsCount DEF FailUpdate
<1>6. CartTypes'
  BY <1>1, <1>4, <1>5 DEF CartInv, CartTypes
<1>7. NotBornYet'
  BY <1>1 DEF CartInv, NotBornYet
<1>8. OneBatch'
  BY <1>1, <1>3, <1>4 DEF CartInv, OneBatch
<1>9. QuoteStands'
  BY <1>1, <1>3, QuoteRests DEF NoChange
<1>10. ChoiceTravels'
  BY <1>1, <1>5 DEF CartInv, ChoiceTravels
<1>11. QED BY <1>6, <1>7, <1>8, <1>9, <1>10 DEF CartInv

LEMMA SettleUpdateKeeps ==
  ASSUME CartInv, NEW i \in Items, SettleUpdate(i)
  PROVE  CartInv'
<1> DEFINE last == \A j \in Items \ {i} : sent[j].pc = "none"
           more == \E j \in Items : queued[j].pc = "queued"
<1>1. UNCHANGED <<server, unborn, seq, choice, quote, hurried, ordered, away, fails>>
      /\ UNCHANGED <<removal, clearing, addition, fetch>>
  BY DEF SettleUpdate, serverVars, otherVars, paying, pastVars
<1>2. sent[i].pc \in {"done", "refused"}
  BY DEF SettleUpdate
<1>3. shown' \in Amounts /\ \A j \in Items : shown[j] = 0 => shown'[j] = 0
  <2>1. TakenBack(i) \in Amounts /\ \A j \in Items : shown[j] = 0 => TakenBack(i)[j] = 0
    BY DEF TakenBack, CartInv, CartTypes, Amounts, Updates
  <2>2. shown' \in {shown, TakenBack(i)}
    BY DEF SettleUpdate
  <2>3. QED BY <2>1, <2>2 DEF CartInv, CartTypes
<1>4. NotBornYet'
  BY <1>1, <1>3 DEF CartInv, NotBornYet, CartTypes
<1>5. QuoteStands'
  <2>1. ~NoChange
    BY <1>2 DEF NoChange
  <2>2. QED BY <1>1, <2>1, QuoteRests
<1>6. CASE last /\ more
  <2>1. TakeBatch(queued) /\ flushing' = flushing
    BY <1>6 DEF SettleUpdate
  <2>2. CartTypes'
    BY <1>1, <1>3, <2>1, BatchTaken DEF CartInv, CartTypes
  <2>3. OneBatch'
    BY <1>1, <1>2, <2>1 DEF CartInv, OneBatch
  <2>4. ChoiceTravels'
    <3>1. away => choice' = Empty
      BY <1>1 DEF CartInv, ChoiceTravels
    <3>2. SUFFICES ASSUME fails = 0, NEW j \in Items, choice[j] > 0
                   PROVE  /\ sent'[j].pc = "sent" => sent'[j].quantity = choice[j]
                          /\ sent'[j].pc \in {"none", "done"} => server[j] \in {0, choice[j]}
                          /\ sent'[j].pc = "refused" => server[j] = 0
      BY <1>1, <2>1, <3>1, BatchTaken DEF ChoiceTravels
    <3>3. sent[j].pc \in {"none", "done", "refused"}
      BY <1>2, <1>6
    <3>4. CASE queued[j].pc = "queued"
      BY <2>1, <3>2, <3>4, BatchTaken DEF CartInv, ChoiceTravels
    <3>5. CASE queued[j].pc = "none"
      BY <2>1, <3>2, <3>3, <3>5, BatchTaken DEF CartInv, ChoiceTravels
    <3>6. QED BY <3>4, <3>5 DEF CartInv, CartTypes
  <2>5. QED BY <1>4, <1>5, <2>2, <2>3, <2>4 DEF CartInv
<1>7. CASE ~(last /\ more)
  <2>1. sent' = [sent EXCEPT ![i] = NoUpdate] /\ queued' = queued
    BY <1>7 DEF SettleUpdate
  <2>2. /\ sent' \in [Items -> Updates] /\ sent'[i].pc = "none"
        /\ \A j \in Items \ {i} : sent'[j] = sent[j]
    BY <2>1, Nothings DEF CartInv, CartTypes
  <2>3. CartTypes'
    BY <1>1, <1>3, <2>1, <2>2 DEF CartInv, CartTypes
  <2>4. OneBatch'
    <3>1. CASE last
      BY <2>2, <3>1 DEF OneBatch
    <3>2. CASE ~last
      <4>1. flushing' = flushing
        BY <1>7, <3>2 DEF SettleUpdate
      <4>2. QED BY <1>1, <1>2, <4>1 DEF CartInv, OneBatch
    <3>3. QED BY <3>1, <3>2
  <2>5. ChoiceTravels'
    BY <1>1, <1>2, <2>1, <2>2 DEF CartInv, ChoiceTravels
  <2>6. QED BY <1>4, <1>5, <2>3, <2>4, <2>5 DEF CartInv
<1>8. QED BY <1>6, <1>7

-----------------------------------------------------------------------------
(* Everything else in the store                                            *)

\* A step that leaves the updates alone, and on the server sets only what
\* nobody has chosen, or takes rows away.
LEMMA OthersKeep ==
  ASSUME CartInv, CartTypes', NotBornYet', fails' = 0 => fails = 0,
         UNCHANGED <<choice, queued, sent, flushing, away, quote, ordered>>, hurried => hurried',
         \A i \in Items : server'[i] \in {0, server[i]} \/ choice[i] = 0,
         quote # Empty /\ ~hurried' /\ NoChange => NoChange' /\ server' = server
  PROVE  CartInv'
<1>1. OneBatch'
  BY BatchRests
<1>2. QuoteStands'
  BY DEF CartInv, QuoteStands, ShownIsOrderedAtRest
<1>3. ChoiceTravels'
  BY DEF CartInv, ChoiceTravels
<1>4. QED BY <1>1, <1>2, <1>3 DEF CartInv

\* A call of one item changes its record, and nothing else of its kind.
LEMMA RemovalMoves ==
  ASSUME CartTypes, NEW i \in Items, NEW c \in Calls, removal' = [removal EXCEPT ![i] = c]
  PROVE  removal' \in [Items -> Calls] /\ removal'[i] = c /\ \A j \in Items \ {i} : removal'[j] = removal[j]
BY DEF CartTypes

LEMMA RemovalKeeps ==
  ASSUME CartInv, NEW i \in Items, ServeRemoval(i) \/ FailRemoval(i) \/ SettleRemoval(i)
  PROVE  CartInv'
<1>1. UNCHANGED <<unborn, choice, queued, sent, flushing, seq, away, quote, hurried, ordered, clearing, addition, fetch>>
  BY DEF ServeRemoval, FailRemoval, SettleRemoval, serverVars, queueVars, paying, pastVars
<1>2. removal[i].pc # "none" /\ removal[i] \in Calls
  BY DEF ServeRemoval, FailRemoval, SettleRemoval, CartInv, CartTypes
<1>3. /\ removal' \in [Items -> Calls] /\ (removal'[i].cart = removal[i].cart \/ removal'[i].cart = Empty)
      /\ \A j \in Items \ {i} : removal'[j] = removal[j]
  <2>1. CASE SettleRemoval(i)
    BY <2>1, Nothings, RemovalMoves DEF SettleRemoval, CartInv
  <2>2. CASE ServeRemoval(i) \/ FailRemoval(i)
    <3>1. PICK pc \in {"done", "refused"} : removal' = [removal EXCEPT ![i].pc = pc]
      BY <2>2 DEF ServeRemoval, FailRemoval
    <3> DEFINE new == [removal[i] EXCEPT !.pc = pc]
    <3>2. new \in Calls /\ new.cart = removal[i].cart
      <4>1. pc \in {"none", "sent", "done", "refused"}
        OBVIOUS
      <4>2. QED BY <1>2, <4>1, CallMoves
    <3>3. removal' = [removal EXCEPT ![i] = new]
      BY <3>1
    <3> HIDE DEF new
    <3>4. QED BY <3>2, <3>3, RemovalMoves DEF CartInv
  <2>3. QED BY <2>1, <2>2
<1>4. server' \in Amounts /\ \A j \in Items : server'[j] \in {0, server[j]}
  BY DEF ServeRemoval, FailRemoval, SettleRemoval, serverVars, CartInv, CartTypes, Amounts
<1>5. shown' \in Amounts /\ \A j \in Items : shown'[j] = shown[j] \/ shown'[j] = removal[j].cart[j]
  <2>1. shown' = shown \/ shown' = [shown EXCEPT ![i] = removal[i].cart[i]]
    BY DEF ServeRemoval, FailRemoval, SettleRemoval, storeVars
  <2>2. removal[i].cart \in Amounts /\ shown \in Amounts
    BY <1>2 DEF Calls, CartInv, CartTypes
  <2>3. QED BY <2>1, <2>2 DEF Amounts
<1>6. fails' \in Nat /\ (fails' = 0 => fails = 0)
  BY FailsCount DEF ServeRemoval, FailRemoval, SettleRemoval, CartInv, CartTypes
<1>7. CartTypes'
  BY <1>1, <1>3, <1>4, <1>5, <1>6 DEF CartInv, CartTypes
<1>8. NotBornYet'
  BY <1>1, <1>3, <1>4, <1>5, Nothings DEF CartInv, NotBornYet, CartTypes
<1>9. ~NoChange
  BY <1>2 DEF NoChange
<1>10. QED BY <1>1, <1>4, <1>6, <1>7, <1>8, <1>9, OthersKeep

LEMMA RemoveItemKeeps ==
  ASSUME CartInv, NEW i \in Items, RemoveItem(i)
  PROVE  CartInv'
<1>1. /\ (quote = Empty \/ hurried') /\ (hurried => hurried')
      /\ UNCHANGED <<server, unborn, choice, queued, sent, flushing, seq, away, quote, ordered, clearing, addition, fetch, fails>>
  BY ChangeIsLate DEF RemoveItem, serverVars, queueVars, pastVars
<1> DEFINE new == [pc |-> "sent", cart |-> shown]
<1>2. new \in Calls /\ new.cart = shown
  BY DEF Calls, CartInv, CartTypes
<1>3. removal' = [removal EXCEPT ![i] = new]
  BY DEF RemoveItem, TakeOut
<1> HIDE DEF new
<1>4. /\ removal' \in [Items -> Calls] /\ removal'[i].cart = shown
      /\ \A j \in Items \ {i} : removal'[j] = removal[j]
  BY <1>2, <1>3, RemovalMoves DEF CartInv
<1>5. shown' \in Amounts /\ \A j \in Items : shown'[j] \in {0, shown[j]}
  BY DEF RemoveItem, TakeOut, CartInv, CartTypes, Amounts
<1>6. CartTypes'
  BY <1>1, <1>4, <1>5 DEF CartInv, CartTypes
<1>7. NotBornYet'
  BY <1>1, <1>4, <1>5 DEF CartInv, NotBornYet, CartTypes
<1>8. QED BY <1>1, <1>6, <1>7, OthersKeep

LEMMA ClearingKeeps ==
  ASSUME CartInv, ServeClearing \/ FailClearing \/ SettleClearing
  PROVE  CartInv'
<1>1. UNCHANGED <<unborn, choice, queued, sent, flushing, seq, away, quote, hurried, ordered, removal, addition, fetch>>
  BY DEF ServeClearing, FailClearing, SettleClearing, serverVars, queueVars, paying, pastVars
<1>2. clearing.pc # "none" /\ clearing \in Calls
  BY DEF ServeClearing, FailClearing, SettleClearing, CartInv, CartTypes
<1>3. clearing' \in Calls /\ clearing'.cart \in {clearing.cart, Empty}
  <2>1. CASE SettleClearing
    BY <2>1, Nothings DEF SettleClearing
  <2>2. CASE ServeClearing \/ FailClearing
    <3>1. PICK pc \in {"done", "refused"} : clearing' = [clearing EXCEPT !.pc = pc]
      BY <2>2 DEF ServeClearing, FailClearing
    <3>2. pc \in {"none", "sent", "done", "refused"}
      OBVIOUS
    <3>3. QED BY <1>2, <3>1, <3>2, CallMoves
  <2>3. QED BY <2>1, <2>2
<1>4. server' \in Amounts /\ \A j \in Items : server'[j] \in {0, server[j]}
  BY Nothings DEF ServeClearing, FailClearing, SettleClearing, serverVars, CartInv, CartTypes
<1>5. shown' \in {shown, clearing.cart} /\ shown' \in Amounts
  BY <1>2 DEF ServeClearing, FailClearing, SettleClearing, storeVars, CartInv, CartTypes, Calls
<1>6. fails' \in Nat /\ (fails' = 0 => fails = 0)
  BY FailsCount DEF ServeClearing, FailClearing, SettleClearing, CartInv, CartTypes
<1>7. CartTypes'
  BY <1>1, <1>3, <1>4, <1>5, <1>6 DEF CartInv, CartTypes
<1>8. NotBornYet'
  BY <1>1, <1>3, <1>4, <1>5, Nothings DEF CartInv, NotBornYet, CartTypes
<1>9. ~NoChange
  BY <1>2 DEF NoChange
<1>10. QED BY <1>1, <1>4, <1>6, <1>7, <1>8, <1>9, OthersKeep

LEMMA ClearCartKeeps ==
  ASSUME CartInv, ClearCart
  PROVE  CartInv'
<1>1. /\ (quote = Empty \/ hurried') /\ (hurried => hurried')
      /\ UNCHANGED <<server, unborn, choice, queued, sent, flushing, seq, away, quote, ordered, removal, addition, fetch, fails>>
  BY ChangeIsLate DEF ClearCart, serverVars, queueVars, pastVars
<1>2. clearing' \in Calls /\ clearing'.cart = shown /\ shown' = Empty
  BY DEF ClearCart, TakeAway, Calls, CartInv, CartTypes
<1>3. CartTypes'
  BY <1>1, <1>2, Nothings DEF CartInv, CartTypes
<1>4. NotBornYet'
  BY <1>1, <1>2, Nothings DEF CartInv, NotBornYet, CartTypes
<1>5. QED BY <1>1, <1>3, <1>4, OthersKeep

LEMMA AdditionKeeps ==
  ASSUME CartInv, NEW i \in Items, AddToCart(i) \/ ServeAddition(i) \/ SettleAddition(i) \/ FailAddition(i)
  PROVE  CartInv'
<1>1. /\ UNCHANGED <<choice, queued, sent, flushing, seq, away, quote, ordered, removal, clearing, fetch>>
      /\ hurried => hurried'
  BY ChangeIsLate DEF AddToCart, ServeAddition, SettleAddition, FailAddition, queueVars, paying, pastVars
<1>2. addition[i] \in Calls /\ addition[i].cart \in Amounts
  BY DEF CartInv, CartTypes, Calls
<1>3. fails' \in Nat /\ (fails' = 0 => fails = 0)
  BY FailsCount DEF AddToCart, ServeAddition, SettleAddition, FailAddition, CartInv, CartTypes
<1>4. CASE ServeAddition(i)
  <2> DEFINE new == [pc |-> "done", cart |-> server']
  <2>1. i \in unborn /\ choice[i] = 0 /\ addition[i].pc = "sent"
    BY <1>4 DEF ServeAddition, CartInv, NotBornYet
  <2>2. server' \in Amounts /\ \A j \in Items \ {i} : server'[j] = server[j]
    BY <1>4 DEF ServeAddition, CartInv, CartTypes, Amounts
  <2>3. new \in Calls /\ new.pc = "done" /\ new.cart = server'
    BY <2>2 DEF Calls
  <2>4. addition' = [addition EXCEPT ![i] = new] /\ unborn' = unborn \ {i} /\ shown' = shown
    BY <1>4 DEF ServeAddition, storeVars
  <2> HIDE DEF new
  <2>5. /\ addition' \in [Items -> Calls] /\ addition'[i].cart = server' /\ addition'[i].pc = "done"
        /\ \A j \in Items \ {i} : addition'[j] = addition[j]
    BY <2>3, <2>4 DEF CartInv, CartTypes
  <2>6. CartTypes'
    BY <1>1, <1>3, <2>2, <2>4, <2>5 DEF CartInv, CartTypes
  <2>7. NotBornYet'
    BY <1>1, <2>2, <2>4, <2>5 DEF CartInv, NotBornYet, CartTypes
  <2>8. ~NoChange
    BY <2>1 DEF NoChange
  <2>9. QED BY <1>1, <1>3, <2>1, <2>2, <2>6, <2>7, <2>8, OthersKeep
<1>5. CASE AddToCart(i) \/ SettleAddition(i) \/ FailAddition(i)
  <2>1. UNCHANGED <<server, unborn>>
    BY <1>5 DEF AddToCart, SettleAddition, FailAddition, serverVars
  <2>2. /\ addition' \in [Items -> Calls] /\ addition'[i].cart \in {addition[i].cart, Empty}
        /\ addition'[i].pc = "sent" => i \in unborn
        /\ \A j \in Items \ {i} : addition'[j] = addition[j]
    <3>1. CASE AddToCart(i)
      <4> DEFINE new == [addition[i] EXCEPT !.pc = "sent"]
      <4>1. new \in Calls /\ new.cart = addition[i].cart
        BY <1>2, CallMoves
      <4>2. addition' = [addition EXCEPT ![i] = new] /\ i \in unborn
        BY <3>1 DEF AddToCart
      <4> HIDE DEF new
      <4>3. QED BY <4>1, <4>2 DEF CartInv, CartTypes
    <3>2. CASE SettleAddition(i) \/ FailAddition(i)
      <4>1. addition' = [addition EXCEPT ![i] = NoRequest]
        BY <3>2 DEF SettleAddition, FailAddition
      <4>2. QED BY <4>1, Nothings DEF CartInv, CartTypes
    <3>3. QED BY <1>5, <3>1, <3>2
  <2>3. shown' \in {shown, addition[i].cart} /\ shown' \in Amounts
    BY <1>2, <1>5 DEF AddToCart, SettleAddition, FailAddition, TakeOver, storeVars, CartInv, CartTypes
  <2>4. quote # Empty /\ ~hurried' /\ NoChange => FALSE
    BY <1>5, ChangeIsLate DEF NoChange, AddToCart, SettleAddition, FailAddition
  <2>5. CartTypes'
    BY <1>1, <1>3, <2>1, <2>2, <2>3 DEF CartInv, CartTypes
  <2>6. NotBornYet'
    <3>1. \A j \in unborn : shown'[j] = 0 /\ \A k \in Items : addition'[k].cart[j] = 0
      BY <2>2, <2>3, Nothings DEF CartInv, NotBornYet, CartTypes
    <3>2. \A j \in Items : addition'[j].pc = "sent" => j \in unborn
      BY <2>2 DEF CartInv, NotBornYet
    <3>3. QED BY <1>1, <2>1, <3>1, <3>2 DEF CartInv, NotBornYet
  <2>7. server' \in Amounts /\ \A j \in Items : server'[j] \in {0, server[j]}
    BY <2>1 DEF CartInv, CartTypes
  <2>8. QED BY <1>1, <1>3, <2>4, <2>5, <2>6, <2>7, OthersKeep
<1>6. QED BY <1>4, <1>5

LEMMA FetchKeeps ==
  ASSUME CartInv, NEW f \in Fetches, FetchCarts(f) \/ ServeFetch(f) \/ SettleFetch(f) \/ FailFetch(f)
  PROVE  CartInv'
<1>1. /\ UNCHANGED <<server, unborn, choice, queued, sent, flushing, seq, away, quote, hurried, ordered>>
      /\ UNCHANGED <<removal, clearing, addition>>
  BY DEF FetchCarts, ServeFetch, SettleFetch, FailFetch, serverVars, queueVars, paying, pastVars
<1>2. fetch[f] \in Calls /\ fetch[f].cart \in Amounts
  BY DEF CartInv, CartTypes, Calls
<1>3. fails' \in Nat /\ (fails' = 0 => fails = 0)
  BY FailsCount DEF FetchCarts, ServeFetch, SettleFetch, FailFetch, CartInv, CartTypes
<1>4. /\ fetch' \in [Fetches -> Calls] /\ fetch'[f].cart \in {fetch[f].cart, Empty, server}
      /\ \A g \in Fetches \ {f} : fetch'[g] = fetch[g]
  <2>1. PICK new \in Calls : new.cart \in {fetch[f].cart, Empty, server} /\ fetch' = [fetch EXCEPT ![f] = new]
    <3>1. CASE FetchCarts(f)
      <4>1. [fetch[f] EXCEPT !.pc = "sent"] \in Calls /\ [fetch[f] EXCEPT !.pc = "sent"].cart = fetch[f].cart
        BY <1>2, CallMoves
      <4>2. QED BY <3>1, <4>1 DEF FetchCarts
    <3>2. CASE ServeFetch(f)
      <4>1. [pc |-> "done", cart |-> server] \in Calls
        BY DEF CartInv, CartTypes, Calls
      <4>2. QED BY <3>2, <4>1 DEF ServeFetch
    <3>3. CASE SettleFetch(f) \/ FailFetch(f)
      BY <3>3, Nothings DEF SettleFetch, FailFetch
    <3>4. QED BY <3>1, <3>2, <3>3
  <2>2. QED BY <2>1 DEF CartInv, CartTypes
<1>5. shown' \in {shown, fetch[f].cart} /\ shown' \in Amounts
  BY <1>2 DEF FetchCarts, ServeFetch, SettleFetch, FailFetch, TakeOver, storeVars, CartInv, CartTypes
<1>6. CartTypes'
  BY <1>1, <1>3, <1>4, <1>5 DEF CartInv, CartTypes
<1>7. NotBornYet'
  BY <1>1, <1>4, <1>5, Nothings DEF CartInv, NotBornYet, CartTypes
<1>8. NoChange => NoChange'
  BY <1>1 DEF NoChange
<1>9. \A i \in Items : server'[i] \in {0, server[i]}
  BY <1>1
<1>10. QED BY <1>1, <1>3, <1>6, <1>7, <1>8, <1>9, OthersKeep

LEMMA LogoutKeeps == CartInv /\ Logout => CartInv'
<1> SUFFICES ASSUME CartInv, Logout PROVE CartInv'
  OBVIOUS
<1>1. UNCHANGED <<server, unborn, sent, removal, clearing, addition, fetch, hurried, ordered, fails>>
  BY DEF Logout, serverVars, otherVars
<1>2. /\ quote' = Empty /\ away' = TRUE /\ shown' = Empty /\ seq' = Empty /\ choice' = Empty
      /\ queued' = [i \in Items |-> NoUpdate]
  BY DEF Logout
<1>3. CartTypes'
  BY <1>1, <1>2, Nothings DEF CartInv, CartTypes
<1>4. NotBornYet'
  BY <1>1, <1>2, Nothings DEF CartInv, NotBornYet, CartTypes
<1>5. OneBatch' /\ QuoteStands'
  BY <1>1, <1>2 DEF CartInv, OneBatch, QuoteStands, ShownIsOrderedAtRest
<1>6. ChoiceTravels'
  BY <1>2, Nothings DEF ChoiceTravels
<1>7. QED BY <1>3, <1>4, <1>5, <1>6 DEF CartInv

LEMMA OrderKeeps ==
  ASSUME CartInv, GoToCheckout \/ ServeVisit \/ ShowCheckout \/ FailVisit \/ PlaceOrder \/ BackToCart
  PROVE  CartInv'
<1>1. /\ UNCHANGED <<unborn, shown, choice, queued, sent, flushing, seq, away, fails>>
      /\ UNCHANGED <<removal, clearing, addition, fetch>>
  BY DEF GoToCheckout, ServeVisit, ShowCheckout, FailVisit, PlaceOrder, BackToCart,
         serverVars, storeVars, queueVars, otherVars, pastVars
<1>2. server' \in {server, Empty} /\ quote' \in {quote, server, Empty}
  BY DEF GoToCheckout, ServeVisit, ShowCheckout, FailVisit, PlaceOrder, BackToCart, Summary, serverVars
<1>3. CartTypes'
  BY <1>1, <1>2, Nothings DEF CartInv, CartTypes
<1>4. NotBornYet'
  BY <1>1, <1>2, Nothings DEF CartInv, NotBornYet, CartTypes
<1>5. OneBatch'
  BY <1>1, BatchRests
<1>6. ChoiceTravels'
  BY <1>1, <1>2, Nothings DEF CartInv, ChoiceTravels
<1>7. QuoteStands'
  <2>1. CASE ServeVisit
    <3>1. UNCHANGED <<server, queued, sent, removal, clearing, addition>>
      BY <1>1, <2>1 DEF ServeVisit, serverVars
    <3>2. CASE quote' = server /\ hurried' = ~NoChange /\ ordered' = "nothing"
      BY <3>1, <3>2 DEF QuoteStands, ShownIsOrderedAtRest, NoChange
    <3>3. CASE UNCHANGED <<quote, hurried, ordered>>
      BY <3>1, <3>3 DEF CartInv, QuoteStands, ShownIsOrderedAtRest, NoChange
    <3>4. QED BY <2>1, <3>1, <3>2, <3>3 DEF ServeVisit, Summary
  <2>2. CASE PlaceOrder
    BY <2>2 DEF PlaceOrder, CartInv, QuoteStands, ShownIsOrderedAtRest
  <2>3. CASE BackToCart \/ FailVisit
    BY <2>3 DEF BackToCart, FailVisit, CartInv, QuoteStands, ShownIsOrderedAtRest
  <2>4. CASE ShowCheckout
    <3>1. UNCHANGED <<server, quote, hurried, ordered, queued, sent, removal, clearing, addition>>
      BY <1>1, <2>4 DEF ShowCheckout, serverVars
    <3>2. QED BY <3>1 DEF CartInv, QuoteStands, ShownIsOrderedAtRest, NoChange
  <2>5. CASE GoToCheckout
    BY <2>5 DEF GoToCheckout, CartInv, QuoteStands, ShownIsOrderedAtRest
  <2>6. QED BY <2>1, <2>2, <2>3, <2>4, <2>5
<1>8. QED BY <1>3, <1>4, <1>5, <1>6, <1>7 DEF CartInv

LEMMA CartKeeps == CartInv /\ [Next]_vars => CartInv'
<1> SUFFICES ASSUME CartInv, [Next]_vars PROVE CartInv'
  OBVIOUS
<1>1. CASE UNCHANGED vars
  <2>1. /\ UNCHANGED <<server, unborn, shown, seq, choice, queued, sent, flushing, away, quote, hurried, ordered, fails>>
        /\ UNCHANGED <<removal, clearing, addition, fetch>>
    BY <1>1 DEF vars, serverVars, storeVars, queueVars, otherVars, paying, pastVars
  <2>2. QED BY <2>1 DEF CartInv, CartTypes, NotBornYet, OneBatch, ChoiceTravels, QuoteStands,
                        ShownIsOrderedAtRest, NoChange
<1>2. CASE Customer
  BY <1>2, StepKeeps, RemoveItemKeeps, AdditionKeeps, FetchKeeps, ClearCartKeeps, LogoutKeeps, OrderKeeps DEF Customer
<1>3. CASE Served
  BY <1>3, ServeUpdateKeeps, RemovalKeeps, AdditionKeeps, FetchKeeps, ClearingKeeps, OrderKeeps DEF Served
<1>4. CASE Settled
  BY <1>4, SettleUpdateKeeps, RemovalKeeps, AdditionKeeps, FetchKeeps, ClearingKeeps DEF Settled
<1>5. CASE Failed
  BY <1>5, FailUpdateKeeps, RemovalKeeps, AdditionKeeps, FetchKeeps, ClearingKeeps, OrderKeeps DEF Failed
<1>6. QED BY <1>1, <1>2, <1>3, <1>4, <1>5, FlushKeeps DEF Next

\* The store is changed while the cart is on the screen, and by nothing else.
LEMMA CartAlways == CustomerSpec => []CartInv
<1>1. CustomerInit => CartInv
  BY CartStarts DEF CustomerInit
<1>2. CartInv /\ [CustomerNext]_customerVars => CartInv'
  BY CartKeeps DEF CustomerNext, customerVars
<1>3. QED BY <1>1, <1>2, PTL DEF CustomerSpec

\* The PATCH requests of an item never overtake one another, however debounce,
\* batches, removals and answers with the whole cart interleave: when none is
\* left and none failed, the server has the quantity chosen last
\* (flushQuantityUpdates and its loop).
THEOREM ChoiceArrives == CustomerSpec => []LastChoiceWins
<1>1. CartInv => LastChoiceWins
  BY DEF CartInv, ChoiceTravels, LastChoiceWins
<1>2. QED BY <1>1, CartAlways, PTL

\* What the checkout page has shown is what is ordered, however long the visit
\* takes and the page stays open, unless a change was under way when the page
\* was rendered or was made before it arrived (handleCheckout of the cart page,
\* CheckoutPageController and the order's transaction).
THEOREM OrderedAsShown == CustomerSpec => []ShownIsOrderedAtRest
<1>1. CartInv => ShownIsOrderedAtRest
  BY DEF CartInv, QuoteStands
<1>2. QED BY <1>1, CartAlways, PTL

-----------------------------------------------------------------------------
(* What the customer sees and what the server has                          *)

\* An update names its operation: the newest waits, or is under way.
OpsInOrder == ~away => \A i \in Items :
    /\ queued[i].pc = "queued" => /\ queued[i].op = seq[i]
                                  /\ sent[i].pc # "none" => sent[i].op < seq[i]
    /\ queued[i].pc = "none" /\ sent[i].pc # "none" => sent[i].op = seq[i]

\* Nobody asks for none of an item, nor for anything of a row not yet added.
SomeOfAll == \A i \in Items :
    /\ queued[i].pc # "none" => queued[i].quantity > 0
    /\ sent[i].pc # "none" => sent[i].quantity > 0
    /\ i \in unborn => queued[i].pc = "none" /\ sent[i].pc = "none" /\ removal[i].pc = "none"

\* The updates of i under way lead from what the server has to v, and the one
\* failure allowed will be taken back to what the server has.
LeadsTo(i, v) ==
    \/ v = 0 /\ server[i] = 0
    \/ /\ v > 0 /\ server[i] > 0
       /\ queued[i].pc = "queued" => v = queued[i].quantity
       /\ queued[i].pc = "none" =>
            /\ sent[i].pc = "sent" => v = sent[i].quantity
            /\ sent[i].pc \in {"none", "done"} => v = server[i]
            /\ sent[i].pc = "refused" => v = sent[i].quantity /\ sent[i].before = server[i]
       /\ sent[i].pc = "refused" => fails = 1
       /\ fails = 0 =>
            /\ queued[i].pc = "queued" =>
                 queued[i].before = IF sent[i].pc = "sent" THEN sent[i].quantity ELSE server[i]
            /\ sent[i].pc = "sent" => sent[i].before = server[i]

\* Added, and nobody here knows.
Unseen(i, v) == /\ addition[i].pc = "done" /\ v = 0 /\ server[i] > 0
                /\ queued[i].pc = "none" /\ sent[i].pc = "none"

\* Of i, v is shown, and right in the end.
Right(i, v) ==
    CASE removal[i].pc = "none" -> LeadsTo(i, v) \/ Unseen(i, v)
      [] removal[i].pc = "sent" ->
           /\ v = 0 /\ server[i] > 0 /\ removal[i].cart[i] > 0
           /\ fails = 0 => LeadsTo(i, removal[i].cart[i])
      [] removal[i].pc = "done" -> v = 0 /\ server[i] = 0
      [] OTHER -> /\ v = 0 /\ fails = 1 /\ removal[i].cart[i] > 0 /\ sent[i].pc # "refused"
                  /\ LeadsTo(i, removal[i].cart[i])

\* So is the cart shown, or the one a clearing that may yet fail will put back.
EndsRight == ~away /\ ~doubt /\ fails <= 1 =>
    /\ clearing.pc # "none" => ~listed
    /\ clearing.pc = "none" /\ listed => \A i \in Items : Right(i, shown[i])
    /\ clearing.pc = "sent" /\ fails = 0 => \A i \in Items : Right(i, clearing.cart[i])
    /\ clearing.pc = "refused" =>
         /\ fails = 1
         /\ \A i \in Items : /\ Right(i, clearing.cart[i]) /\ removal[i].pc # "refused"
                             /\ clearing.cart[i] > 0 => sent[i].pc # "refused"

SeenInv == OpsInOrder /\ SomeOfAll /\ EndsRight

LEMMA SeenStarts == Init => SeenInv
BY Nothings DEF Init, SeenInv, OpsInOrder, SomeOfAll, EndsRight

\* What is right stays so while nothing happens to the item, also if something
\* else fails.
LEMMA RightStays ==
  ASSUME NEW i \in Items, NEW v, Right(i, v),
         queued'[i] = queued[i], sent'[i] = sent[i], removal'[i] = removal[i], server'[i] = server[i],
         addition[i].pc = "done" => addition'[i].pc = "done",
         fails' = fails \/ (fails = 0 /\ fails' = 1)
  PROVE  Right(i, v)'
<1>1. \A w : LeadsTo(i, w) => LeadsTo(i, w)'
  BY DEF LeadsTo
<1>2. Unseen(i, v) => Unseen(i, v)'
  BY DEF Unseen
<1>3. QED BY <1>1, <1>2 DEF Right

\* Nothing happens to any item that counts.
LEMMA SeenRests ==
  ASSUME CartInv, SeenInv, UNCHANGED <<unborn, seq, queued, sent, removal, server, shown, listed, clearing, away>>,
         \A i \in Items : addition[i].pc = "done" => addition'[i].pc = "done" \/ doubt',
         doubt => doubt', fails' \in {fails, fails + 1}
  PROVE  SeenInv'
<1>1. OpsInOrder' /\ SomeOfAll'
  BY DEF SeenInv, OpsInOrder, SomeOfAll
<1>2. EndsRight'
  <2>1. SUFFICES ASSUME ~away, ~doubt', fails' <= 1
                 PROVE  /\ clearing.pc # "none" => ~listed
                        /\ clearing.pc = "none" /\ listed => \A i \in Items : Right(i, shown[i])'
                        /\ clearing.pc = "sent" /\ fails' = 0 => \A i \in Items : Right(i, clearing.cart[i])'
                        /\ clearing.pc = "refused" => fails' = 1 /\ fails = 1 /\ \A i \in Items : Right(i, clearing.cart[i])'
    BY DEF SeenInv, EndsRight
  <2>2. ~doubt /\ fails <= 1 /\ fails \in Nat /\ (fails' = fails \/ (fails = 0 /\ fails' = 1))
    BY <2>1 DEF CartInv, CartTypes
  <2>3. ASSUME NEW i \in Items, NEW v, Right(i, v) PROVE Right(i, v)'
    BY <2>1, <2>2, <2>3, RightStays
  <2>4. QED BY <2>1, <2>2, <2>3 DEF SeenInv, EndsRight
<1>3. QED BY <1>1, <1>2 DEF SeenInv

LEMMA StepSees ==
  ASSUME CartInv, SeenInv, NEW i \in Items, Step(i)
  PROVE  SeenInv'
<1>1. PICK quantity \in Nat : quantity > 0 /\ UpdateQuantity(i, quantity)
  BY DEF Step, CartInv, CartTypes, Amounts
<1>2. /\ shown[i] > 0 /\ listed
      /\ UNCHANGED <<server, unborn, listed, sent, removal, clearing, addition, away, doubt, fails>>
  BY DEF Step, CartShown, serverVars, otherVars
<1> DEFINE new == Joined(i, quantity)
<1>3. /\ new.pc = "queued" /\ new.quantity = quantity /\ new.op = seq[i] + 1
      /\ queued[i].pc # "queued" => new.before = shown[i]
      /\ queued[i].pc = "queued" /\ queued[i].before > 0 => new.before = queued[i].before
  BY DEF Joined
<1>4. queued' = [queued EXCEPT ![i] = new] /\ seq' = [seq EXCEPT ![i] = @ + 1]
  BY <1>1 DEF UpdateQuantity
<1> HIDE DEF new
<1>5. /\ queued'[i] = new /\ seq'[i] = seq[i] + 1 /\ shown'[i] = quantity
      /\ \A j \in Items \ {i} : queued'[j] = queued[j] /\ seq'[j] = seq[j] /\ shown'[j] = shown[j]
  BY <1>1, <1>2, <1>4 DEF CartInv, CartTypes, Amounts, UpdateQuantity, Adjusted
<1>6. OpsInOrder'
  <2>1. SUFFICES ASSUME ~away, NEW j \in Items
                 PROVE  /\ queued'[j].pc = "queued" => /\ queued'[j].op = seq'[j]
                                                       /\ sent[j].pc # "none" => sent[j].op < seq'[j]
                        /\ queued'[j].pc = "none" /\ sent[j].pc # "none" => sent[j].op = seq'[j]
    BY <1>2 DEF OpsInOrder
  <2>2. CASE j = i
    <3>1. seq[i] \in Nat /\ sent[i].op \in Nat /\ queued[i].pc \in {"none", "queued"}
      BY DEF CartInv, CartTypes, Amounts, Updates
    <3>2. QED BY <1>3, <1>5, <2>1, <2>2, <3>1 DEF SeenInv, OpsInOrder
  <2>3. CASE j # i
    BY <1>5, <2>1, <2>3 DEF SeenInv, OpsInOrder
  <2>4. QED BY <2>2, <2>3
<1>7. SomeOfAll'
  <2>1. i \notin unborn
    BY <1>2 DEF CartInv, NotBornYet, CartTypes, Amounts
  <2>2. QED BY <1>1, <1>2, <1>3, <1>5, <2>1 DEF SeenInv, SomeOfAll
<1>8. EndsRight'
  <2>1. SUFFICES ASSUME ~away, ~doubt, fails <= 1, NEW j \in Items
                 PROVE  clearing.pc = "none" /\ Right(j, shown[j])'
    BY <1>2 DEF SeenInv, EndsRight
  <2>2. clearing.pc = "none" /\ Right(j, shown[j]) /\ Right(i, shown[i])
    BY <1>2, <2>1 DEF SeenInv, EndsRight
  <2>3. CASE j # i
    BY <1>2, <1>5, <2>2, <2>3, RightStays
  <2>4. CASE j = i
    <3>1. removal[i].pc = "none" /\ LeadsTo(i, shown[i])
      BY <1>2, <2>2 DEF Right, Unseen, CartInv, CartTypes, Amounts
    <3>2. /\ server[i] > 0 /\ sent[i].quantity \in Nat /\ server[i] \in Nat
          /\ sent[i].pc = "sent" => sent[i].quantity > 0
          /\ sent[i].pc \in {"none", "sent", "done", "refused"} /\ queued[i].pc \in {"none", "queued"}
      BY <1>2, <3>1 DEF LeadsTo, SeenInv, SomeOfAll, CartInv, CartTypes, Amounts, Updates
    <3>3. LeadsTo(i, quantity)'
      BY <1>1, <1>2, <1>3, <1>5, <3>1, <3>2 DEF LeadsTo
    <3>4. QED BY <1>2, <1>5, <2>2, <2>4, <3>1, <3>3 DEF Right
  <2>5. QED BY <2>2, <2>3, <2>4
<1>9. QED BY <1>6, <1>7, <1>8 DEF SeenInv

\* A batch that is taken changes where the updates are, not where they lead.
LEMMA BatchSees ==
  ASSUME CartInv, OpsInOrder, SomeOfAll, TakeBatch(queued), UNCHANGED <<server, unborn, seq, removal, addition, away, fails>>
  PROVE  /\ OpsInOrder' /\ SomeOfAll'
         /\ \A i \in Items : \A v : Right(i, v) /\ sent[i].pc \in {"none", "done"} => Right(i, v)'
         /\ \A i \in Items : \A v : LeadsTo(i, v) /\ queued[i].pc = "queued" /\ sent[i].pc = "refused" => LeadsTo(i, v)'
<1>1. \A i \in Items :
        /\ queued'[i].pc = "none"
        /\ queued[i].pc = "queued" =>
             /\ sent'[i].pc = "sent" /\ sent'[i].quantity = queued[i].quantity
             /\ sent'[i].op = queued[i].op /\ sent'[i].before = queued[i].before
        /\ queued[i].pc = "none" => sent'[i].pc = "none"
  <2>1. \A i \in Items : /\ [queued[i] EXCEPT !.pc = "sent"].pc = "sent"
                         /\ [queued[i] EXCEPT !.pc = "sent"].quantity = queued[i].quantity
                         /\ [queued[i] EXCEPT !.pc = "sent"].op = queued[i].op
                         /\ [queued[i] EXCEPT !.pc = "sent"].before = queued[i].before
    BY UpdateMoves DEF CartInv, CartTypes
  <2>2. QED BY <2>1, Nothings DEF TakeBatch
<1>2. \A i \in Items : queued[i].pc \in {"none", "queued"}
  BY DEF CartInv, CartTypes
<1>3. OpsInOrder'
  BY <1>1, <1>2 DEF OpsInOrder
<1>4. SomeOfAll'
  BY <1>1, <1>2 DEF SomeOfAll
<1>5. ASSUME NEW i \in Items, NEW v, LeadsTo(i, v),
             sent[i].pc \in {"none", "done"} \/ (queued[i].pc = "queued" /\ sent[i].pc = "refused")
      PROVE  LeadsTo(i, v)'
  BY <1>1, <1>2, <1>5 DEF LeadsTo
<1>6. ASSUME NEW i \in Items, NEW v, Right(i, v), sent[i].pc \in {"none", "done"}
      PROVE  Right(i, v)'
  <2>1. Unseen(i, v) => Unseen(i, v)'
    BY <1>1 DEF Unseen
  <2>2. removal[i].pc = "refused" /\ fails = 1 => sent'[i].pc # "refused"
    BY <1>1, <1>2
  <2>3. \A w : LeadsTo(i, w) => LeadsTo(i, w)'
    BY <1>5, <1>6
  <2>4. sent'[i].pc # "refused"
    BY <1>1, <1>2
  <2>5. QED BY <1>6, <2>1, <2>3, <2>4 DEF Right
<1>7. QED BY <1>3, <1>4, <1>5, <1>6

LEMMA FlushSees ==
  ASSUME CartInv, SeenInv, Flush
  PROVE  SeenInv'
<1>1. /\ UNCHANGED <<server, unborn, shown, listed, seq, removal, clearing, addition, away, doubt, fails>>
  BY DEF Flush, serverVars, storeVars, otherVars, pastVars
<1>2. fails \in Nat
  BY DEF CartInv, CartTypes
<1>3. CASE UNCHANGED <<queued, sent>>
  BY <1>1, <1>2, <1>3, SeenRests
<1>4. CASE ~flushing /\ TakeBatch(queued)
  <2>1. OpsInOrder' /\ SomeOfAll'
    BY <1>1, <1>4, BatchSees DEF SeenInv
  <2>2. ASSUME ~away PROVE \A i \in Items : sent[i].pc = "none" /\ \A v : Right(i, v) => Right(i, v)'
    <3>1. \A i \in Items : sent[i].pc = "none"
      BY <1>4, <2>2 DEF CartInv, OneBatch
    <3>2. \A i \in Items : \A v : Right(i, v) /\ sent[i].pc \in {"none", "done"} => Right(i, v)'
      BY <1>1, <1>4, BatchSees DEF SeenInv
    <3>3. QED BY <3>1, <3>2
  <2>3. \A i \in Items : sent'[i].pc # "refused"
    BY <1>4, BatchTaken DEF CartInv, CartTypes
  <2>4. EndsRight'
    <3>1. SUFFICES ASSUME ~away, ~doubt, fails <= 1
                   PROVE  /\ clearing.pc # "none" => ~listed
                          /\ clearing.pc = "none" /\ listed => \A i \in Items : Right(i, shown[i])'
                          /\ clearing.pc = "sent" /\ fails = 0 => \A i \in Items : Right(i, clearing.cart[i])'
                          /\ clearing.pc = "refused" =>
                               /\ fails = 1
                               /\ \A i \in Items : /\ Right(i, clearing.cart[i])' /\ removal[i].pc # "refused"
                                                   /\ sent'[i].pc # "refused"
      BY <1>1 DEF EndsRight
    <3>2. \A i \in Items : /\ Right(i, shown[i]) => Right(i, shown[i])'
                           /\ Right(i, clearing.cart[i]) => Right(i, clearing.cart[i])'
      BY <1>1, <2>2, <3>1
    <3>3. QED BY <2>3, <3>1, <3>2 DEF SeenInv, EndsRight
  <2>5. QED BY <2>1, <2>4 DEF SeenInv
<1>5. QED BY <1>3, <1>4 DEF Flush

LEMMA ServeUpdateSees ==
  ASSUME CartInv, SeenInv, NEW i \in Items, ServeUpdate(i)
  PROVE  SeenInv'
<1>1. UNCHANGED <<unborn, shown, listed, seq, queued, removal, clearing, addition, away, doubt, fails>>
  BY DEF ServeUpdate, storeVars, queueVars, otherVars, pastVars
<1>2. /\ sent[i].pc = "sent" /\ \A j \in Items \ {i} : sent'[j] = sent[j] /\ server'[j] = server[j]
      /\ sent'[i].quantity = sent[i].quantity /\ sent'[i].op = sent[i].op
      /\ \/ sent'[i].pc = "done" /\ server[i] > 0 /\ server'[i] = sent[i].quantity
         \/ sent'[i].pc = "refused" /\ (server[i] = 0 \/ away) /\ server'[i] = server[i]
  BY UpdateServed
<1>3. OpsInOrder'
  BY <1>1, <1>2 DEF SeenInv, OpsInOrder
<1>4. SomeOfAll'
  BY <1>1, <1>2 DEF SeenInv, SomeOfAll
<1>5. ASSUME ~away, NEW v, LeadsTo(i, v)
      PROVE  LeadsTo(i, v)' /\ (sent'[i].pc = "refused" => v = 0)
  <2>1. sent[i].quantity > 0
    BY <1>2 DEF SeenInv, SomeOfAll
  <2>2. QED BY <1>1, <1>2, <1>5, <2>1 DEF LeadsTo
<1>6. ASSUME ~away, NEW v, Right(i, v)
      PROVE  Right(i, v)' /\ (sent'[i].pc = "refused" => v = 0)
  <2>1. ~Unseen(i, v)
    BY <1>2 DEF Unseen
  <2>2. sent[i].quantity > 0 /\ (server[i] > 0 => server'[i] > 0) /\ (server[i] = 0 => server'[i] = 0)
    BY <1>2, <1>6 DEF SeenInv, SomeOfAll
  <2>3. removal[i].cart[i] > 0 /\ LeadsTo(i, removal[i].cart[i]) => LeadsTo(i, removal[i].cart[i])' /\ sent'[i].pc # "refused"
    BY <1>1, <1>5, <1>6
  <2>4. QED BY <1>1, <1>5, <1>6, <2>1, <2>2, <2>3 DEF Right
<1>7. ASSUME ~away, NEW j \in Items, NEW v, Right(j, v)
      PROVE  Right(j, v)' /\ (sent'[j].pc = "refused" => v = 0 \/ sent[j].pc = "refused")
  <2>1. CASE j = i
    BY <1>6, <1>7, <2>1
  <2>2. CASE j # i
    BY <1>1, <1>2, <1>7, <2>2, RightStays
  <2>3. QED BY <2>1, <2>2
<1>8. EndsRight'
  <2>1. SUFFICES ASSUME ~away, ~doubt, fails <= 1
                 PROVE  /\ clearing.pc # "none" => ~listed
                        /\ clearing.pc = "none" /\ listed => \A j \in Items : Right(j, shown[j])'
                        /\ clearing.pc = "sent" /\ fails = 0 => \A j \in Items : Right(j, clearing.cart[j])'
                        /\ clearing.pc = "refused" =>
                             /\ fails = 1
                             /\ \A j \in Items : /\ Right(j, clearing.cart[j])' /\ removal[j].pc # "refused"
                                                 /\ clearing.cart[j] > 0 => sent'[j].pc # "refused"
    BY <1>1 DEF EndsRight
  <2>2. \A j \in Items : /\ Right(j, shown[j]) => Right(j, shown[j])'
                         /\ Right(j, clearing.cart[j]) =>
                              /\ Right(j, clearing.cart[j])'
                              /\ sent'[j].pc = "refused" => clearing.cart[j] = 0 \/ sent[j].pc = "refused"
    BY <1>1, <1>7, <2>1
  <2>3. QED BY <2>1, <2>2 DEF SeenInv, EndsRight
<1>9. QED BY <1>3, <1>4, <1>8 DEF SeenInv

LEMMA FailUpdateSees ==
  ASSUME CartInv, SeenInv, NEW i \in Items, FailUpdate(i)
  PROVE  SeenInv'
<1>1. UNCHANGED <<server, unborn, shown, listed, seq, queued, removal, clearing, addition, away>>
  BY DEF FailUpdate, serverVars, storeVars, queueVars, otherVars
<1> DEFINE new == [sent[i] EXCEPT !.pc = "refused"]
<1>2. /\ new.pc = "refused" /\ new.quantity = sent[i].quantity
      /\ new.op = sent[i].op /\ new.before = sent[i].before
  BY UpdateMoves DEF CartInv, CartTypes
<1>3. sent' = [sent EXCEPT ![i] = new] /\ sent[i].pc \in {"sent", "done"} /\ doubt' = (doubt \/ sent[i].pc = "done")
  BY DEF FailUpdate
<1> HIDE DEF new
<1>4. /\ sent'[i] = new /\ \A j \in Items \ {i} : sent'[j] = sent[j]
  BY <1>3 DEF CartInv, CartTypes
<1>5. fails \in Nat /\ fails' = fails + 1
  BY DEF FailUpdate, Fails, CartInv, CartTypes
<1>6. OpsInOrder'
  BY <1>1, <1>2, <1>3, <1>4 DEF SeenInv, OpsInOrder
<1>7. SomeOfAll'
  BY <1>1, <1>2, <1>3, <1>4 DEF SeenInv, SomeOfAll
<1>8. ASSUME fails = 0, sent[i].pc = "sent", NEW j \in Items, NEW v, Right(j, v)
      PROVE  Right(j, v)'
  <2>1. CASE j # i
    BY <1>1, <1>4, <1>5, <1>8, <2>1, RightStays
  <2>2. CASE j = i
    <3>1. LeadsTo(i, v) => LeadsTo(i, v)'
      BY <1>1, <1>2, <1>4, <1>5, <1>8 DEF LeadsTo
    <3>2. ~Unseen(i, v) /\ fails' = 1
      BY <1>5, <1>8 DEF Unseen
    <3>3. QED BY <1>1, <1>8, <2>2, <3>1, <3>2 DEF Right
  <2>3. QED BY <2>1, <2>2
<1>9. EndsRight'
  <2>1. SUFFICES ASSUME ~away, ~doubt', fails' <= 1
                 PROVE  /\ clearing.pc # "none" => ~listed
                        /\ clearing.pc = "none" /\ listed => \A j \in Items : Right(j, shown[j])'
                        /\ clearing.pc # "refused" /\ fails' # 0
    BY <1>1 DEF EndsRight
  <2>2. ~doubt /\ fails = 0 /\ sent[i].pc = "sent"
    <3>1. fails = 0
      BY <1>5, <2>1
    <3>2. ~(doubt \/ sent[i].pc = "done")
      BY <1>3, <2>1, Zenon
    <3>3. QED BY <1>3, <3>1, <3>2
  <2>3. QED BY <1>1, <1>5, <1>8, <2>1, <2>2 DEF SeenInv, EndsRight
<1>10. QED BY <1>6, <1>7, <1>9 DEF SeenInv

LEMMA SettleUpdateSees ==
  ASSUME CartInv, SeenInv, NEW i \in Items, SettleUpdate(i)
  PROVE  SeenInv'
<1>1. UNCHANGED <<server, unborn, listed, seq, removal, clearing, addition, away, doubt, fails>>
  BY DEF SettleUpdate, serverVars, otherVars, pastVars
<1>2. /\ sent[i].pc \in {"done", "refused"} /\ queued[i].pc \in {"none", "queued"}
      /\ shown' = IF sent[i].pc = "refused" THEN TakenBack(i) ELSE shown
  BY DEF SettleUpdate, CartInv, CartTypes
\* With the next batch or without, only the answer itself goes.
<1>3. /\ OpsInOrder' /\ SomeOfAll'
      /\ \A j \in Items \ {i} : \A v : Right(j, v) => Right(j, v)'
      /\ \A j \in Items \ {i} : sent'[j].pc = "refused" => sent[j].pc = "refused"
      /\ \A v : LeadsTo(i, v) /\ (sent[i].pc = "done" \/ queued[i].pc = "queued" \/ v = 0) => LeadsTo(i, v)'
      /\ sent'[i].pc # "refused"
      /\ queued[i].pc = "none" => queued'[i].pc = "none" /\ sent'[i].pc = "none"
  <2>1. CASE TakeBatch(queued) /\ \A j \in Items \ {i} : sent[j].pc = "none"
    <3>1. OpsInOrder' /\ SomeOfAll'
      BY <1>1, <2>1, BatchSees DEF SeenInv
    <3>2. \A j \in Items : \A v : Right(j, v) /\ sent[j].pc \in {"none", "done"} => Right(j, v)'
      BY <1>1, <2>1, BatchSees DEF SeenInv
    <3>3. \A j \in Items : /\ queued'[j].pc = "none" /\ sent'[j].pc \in {"none", "sent"}
                           /\ queued[j].pc = "none" => sent'[j].pc = "none"
                           /\ queued[j].pc = "queued" =>
                                 sent'[j].pc = "sent" /\ sent'[j].quantity = queued[j].quantity
                                 /\ sent'[j].before = queued[j].before
      <4>1. \A j \in Items : /\ [queued[j] EXCEPT !.pc = "sent"].pc = "sent"
                             /\ [queued[j] EXCEPT !.pc = "sent"].quantity = queued[j].quantity
                             /\ [queued[j] EXCEPT !.pc = "sent"].before = queued[j].before
        BY UpdateMoves DEF CartInv, CartTypes
      <4>2. QED BY <2>1, <4>1, Nothings DEF TakeBatch, CartInv, CartTypes
    <3>4. ASSUME NEW v, LeadsTo(i, v), sent[i].pc = "done" \/ queued[i].pc = "queued" \/ v = 0
          PROVE  LeadsTo(i, v)'
      BY <1>1, <1>2, <3>3, <3>4 DEF LeadsTo
    <3>5. QED BY <2>1, <3>1, <3>2, <3>3, <3>4
  <2>2. CASE sent' = [sent EXCEPT ![i] = NoUpdate] /\ queued' = queued
    <3>1. /\ sent'[i].pc = "none" /\ \A j \in Items \ {i} : sent'[j] = sent[j]
      BY <2>2, Nothings DEF CartInv, CartTypes
    <3>2. OpsInOrder' /\ SomeOfAll'
      BY <1>1, <2>2, <3>1 DEF SeenInv, OpsInOrder, SomeOfAll
    <3>3. ASSUME NEW j \in Items \ {i}, NEW v, Right(j, v) PROVE Right(j, v)'
      BY <1>1, <2>2, <3>1, <3>3, RightStays
    <3>4. ASSUME NEW v, LeadsTo(i, v), sent[i].pc = "done" \/ queued[i].pc = "queued" \/ v = 0
          PROVE  LeadsTo(i, v)'
      BY <1>1, <1>2, <2>2, <3>1, <3>4 DEF LeadsTo
    <3>5. QED BY <2>2, <3>1, <3>2, <3>3, <3>4
  <2>3. QED BY <2>1, <2>2 DEF SettleUpdate
<1>4. ASSUME ~away, fails <= 1, NEW v, Right(i, v), sent[i].pc = "refused" /\ v > 0 => queued[i].pc = "queued"
      PROVE  Right(i, v)'
  <2>1. CASE removal[i].pc = "none"
    <3>1. LeadsTo(i, v)
      BY <1>2, <1>4, <2>1 DEF Right, Unseen
    <3>2. sent[i].pc = "done" \/ queued[i].pc = "queued" \/ v = 0
      BY <1>2, <1>4, <3>1 DEF LeadsTo
    <3>3. QED BY <1>1, <1>3, <2>1, <3>1, <3>2 DEF Right
  <2>2. CASE removal[i].pc = "sent"
    <3>1. fails = 0 => LeadsTo(i, removal[i].cart[i]) /\ sent[i].pc = "done"
      BY <1>2, <1>4, <2>2 DEF Right, LeadsTo
    <3>2. fails = 0 => LeadsTo(i, removal[i].cart[i])'
      BY <1>1, <1>3, <3>1
    <3>3. QED BY <1>1, <1>4, <2>2, <3>2 DEF Right
  <2>3. CASE removal[i].pc = "done"
    BY <1>1, <1>4, <2>3 DEF Right
  <2>4. CASE removal[i].pc = "refused"
    <3>1. LeadsTo(i, removal[i].cart[i]) /\ sent[i].pc = "done"
      BY <1>2, <1>4, <2>4 DEF Right
    <3>2. LeadsTo(i, removal[i].cart[i])'
      BY <1>1, <1>3, <3>1
    <3>3. QED BY <1>1, <1>3, <1>4, <2>4, <3>2 DEF Right
  <2>5. QED BY <2>1, <2>2, <2>3, <2>4 DEF CartInv, CartTypes, Calls
\* What is taken back is what the server still has.
<1>5. ASSUME ~away, fails <= 1, listed, NEW v, v = shown[i], Right(i, v)
      PROVE  Right(i, shown[i])' /\ \A j \in Items \ {i} : shown'[j] = shown[j]
  <2>1. /\ shown' \in {shown, [shown EXCEPT ![i] = sent[i].before]}
        /\ sent[i].pc = "done" \/ v = 0 \/ seq[i] # sent[i].op => shown' = shown
        /\ sent[i].pc = "refused" /\ seq[i] = sent[i].op /\ v > 0 /\ v = sent[i].quantity /\ sent[i].before > 0
             => shown' = [shown EXCEPT ![i] = sent[i].before]
    BY <1>2, <1>5 DEF TakenBack
  <2>2. shown \in Amounts /\ v \in Nat
    BY <1>5 DEF CartInv, CartTypes, Amounts
  <2>3. \A j \in Items \ {i} : shown'[j] = shown[j]
    BY <2>1, <2>2 DEF Amounts
  <2>4. queued[i].pc = "queued" => seq[i] # sent[i].op
    <3>1. sent[i].op \in Nat /\ seq[i] \in Nat
      BY DEF CartInv, CartTypes, Amounts, Updates
    <3>2. QED BY <1>2, <1>5, <3>1 DEF SeenInv, OpsInOrder
  <2>5. CASE sent[i].pc = "refused" /\ v > 0 /\ queued[i].pc = "none"
    <3>1. removal[i].pc = "none" /\ LeadsTo(i, v)
      BY <1>2, <1>5, <2>5 DEF Right, Unseen, CartInv, CartTypes, Calls
    <3>2. v = sent[i].quantity /\ sent[i].before = server[i] /\ server[i] > 0 /\ seq[i] = sent[i].op
      BY <1>2, <1>5, <2>5, <3>1 DEF LeadsTo, SeenInv, OpsInOrder
    <3>3. shown'[i] = server'[i]
      BY <1>1, <2>1, <2>2, <2>5, <3>2 DEF Amounts
    <3>4. LeadsTo(i, shown[i])'
      BY <1>1, <1>3, <2>5, <3>2, <3>3 DEF LeadsTo
    <3>5. QED BY <1>1, <2>3, <3>1, <3>4 DEF Right
  <2>6. CASE ~(sent[i].pc = "refused" /\ v > 0 /\ queued[i].pc = "none")
    <3>1. sent[i].pc = "done" \/ v = 0 \/ queued[i].pc = "queued"
      BY <1>2, <2>2, <2>6
    <3>2. shown'[i] = v
      BY <1>5, <2>1, <2>4, <3>1
    <3>3. sent[i].pc = "refused" /\ v > 0 => queued[i].pc = "queued"
      BY <3>1
    <3>4. Right(i, v)'
      BY <1>4, <1>5, <3>3
    <3>5. QED BY <2>3, <3>2, <3>4
  <2>7. QED BY <2>5, <2>6
<1>6. EndsRight'
  <2>1. SUFFICES ASSUME ~away, ~doubt, fails <= 1
                 PROVE  /\ clearing.pc # "none" => ~listed
                        /\ clearing.pc = "none" /\ listed => \A j \in Items : Right(j, shown[j])'
                        /\ clearing.pc = "sent" /\ fails = 0 => \A j \in Items : Right(j, clearing.cart[j])'
                        /\ clearing.pc = "refused" =>
                             /\ fails = 1
                             /\ \A j \in Items : /\ Right(j, clearing.cart[j])' /\ removal[j].pc # "refused"
                                                 /\ clearing.cart[j] > 0 => sent'[j].pc # "refused"
    BY <1>1 DEF EndsRight
  <2>2. ASSUME clearing.pc = "none", listed, NEW j \in Items PROVE Right(j, shown[j])'
    <3>1. Right(j, shown[j]) /\ Right(i, shown[i])
      BY <2>1, <2>2 DEF SeenInv, EndsRight
    <3>2. Right(i, shown[i])' /\ \A k \in Items \ {i} : shown'[k] = shown[k]
      BY <1>5, <2>1, <2>2, <3>1
    <3>3. CASE j # i
      BY <1>3, <3>1, <3>2, <3>3
    <3>4. QED BY <3>2, <3>3
  <2>3. ASSUME clearing.pc = "sent", fails = 0, NEW j \in Items PROVE Right(j, clearing.cart[j])'
    <3>1. Right(j, clearing.cart[j])
      BY <2>1, <2>3 DEF SeenInv, EndsRight
    <3>2. CASE j = i
      <4>1. sent[i].pc = "refused" => ~(clearing.cart[i] > 0)
        BY <1>2, <2>3, <3>1, <3>2 DEF Right, LeadsTo, Unseen, CartInv, CartTypes, Calls, Amounts
      <4>2. QED BY <1>1, <1>4, <2>1, <3>1, <3>2, <4>1
    <3>3. CASE j # i
      BY <1>1, <1>3, <3>1, <3>3
    <3>4. QED BY <3>2, <3>3
  <2>4. ASSUME clearing.pc = "refused", NEW j \in Items
        PROVE  /\ fails = 1 /\ Right(j, clearing.cart[j])' /\ removal[j].pc # "refused"
               /\ clearing.cart[j] > 0 => sent'[j].pc # "refused"
    <3>1. /\ fails = 1 /\ Right(j, clearing.cart[j]) /\ removal[j].pc # "refused"
          /\ clearing.cart[j] > 0 => sent[j].pc # "refused"
      BY <2>1, <2>4 DEF SeenInv, EndsRight
    <3>2. CASE j = i
      BY <1>1, <1>3, <1>4, <2>1, <3>1, <3>2
    <3>3. CASE j # i
      BY <1>1, <1>3, <3>1, <3>3
    <3>4. QED BY <3>2, <3>3
  <2>5. QED BY <1>1, <2>1, <2>2, <2>3, <2>4 DEF SeenInv, EndsRight
<1>7. QED BY <1>3, <1>6 DEF SeenInv

LEMMA RemovalSees ==
  ASSUME CartInv, SeenInv, NEW i \in Items,
         RemoveItem(i) \/ ServeRemoval(i) \/ FailRemoval(i) \/ SettleRemoval(i)
  PROVE  SeenInv'
<1>1. UNCHANGED <<unborn, listed, seq, queued, sent, clearing, addition, away>>
  BY DEF RemoveItem, ServeRemoval, FailRemoval, SettleRemoval, serverVars, storeVars, queueVars
<1>2. /\ fails \in Nat /\ shown \in Amounts /\ server \in Amounts
      /\ removal[i] \in Calls /\ removal[i].cart \in Amounts /\ clearing.cart \in Amounts
  BY DEF CartInv, CartTypes, Calls
<1>3. \A j \in Items \ {i} : removal'[j] = removal[j] /\ server'[j] = server[j] /\ shown'[j] = shown[j]
  <2>1. \A j \in Items \ {i} : removal'[j] = removal[j]
    BY DEF RemoveItem, TakeOut, ServeRemoval, FailRemoval, SettleRemoval, CartInv, CartTypes
  <2>2. \A j \in Items \ {i} : server'[j] = server[j]
    BY <1>2 DEF RemoveItem, ServeRemoval, FailRemoval, SettleRemoval, serverVars, Amounts
  <2>3. \A j \in Items \ {i} : shown'[j] = shown[j]
    BY <1>2 DEF RemoveItem, TakeOut, ServeRemoval, FailRemoval, SettleRemoval, storeVars, Amounts
  <2>4. QED BY <2>1, <2>2, <2>3
<1>4. OpsInOrder'
  BY <1>1 DEF SeenInv, OpsInOrder
<1>5. SomeOfAll'
  <2>1. i \in unborn => FALSE
    BY <1>2 DEF SeenInv, SomeOfAll, CartInv, NotBornYet, RemoveItem, ServeRemoval, FailRemoval, SettleRemoval
  <2>2. QED BY <1>1, <1>3, <2>1 DEF SeenInv, SomeOfAll
\* It is enough to look at this item.
<1>6. ASSUME doubt => doubt', fails' \in {fails, fails + 1},
             ~away /\ ~doubt' /\ fails' <= 1 =>
               /\ clearing.pc = "none" /\ listed /\ Right(i, shown[i]) => Right(i, shown[i])'
               /\ clearing.pc = "sent" /\ fails' = 0 /\ Right(i, clearing.cart[i]) => Right(i, clearing.cart[i])'
               /\ clearing.pc = "refused" /\ fails = 1 /\ Right(i, clearing.cart[i]) /\ removal[i].pc # "refused" =>
                     Right(i, clearing.cart[i])' /\ removal'[i].pc # "refused"
      PROVE  EndsRight'
  <2>1. SUFFICES ASSUME ~away, ~doubt', fails' <= 1
                 PROVE  /\ clearing.pc # "none" => ~listed
                        /\ clearing.pc = "none" /\ listed => \A j \in Items : Right(j, shown[j])'
                        /\ clearing.pc = "sent" /\ fails' = 0 => \A j \in Items : Right(j, clearing.cart[j])'
                        /\ clearing.pc = "refused" =>
                             /\ fails' = 1
                             /\ \A j \in Items : /\ Right(j, clearing.cart[j])' /\ removal'[j].pc # "refused"
                                                 /\ clearing.cart[j] > 0 => sent[j].pc # "refused"
    BY <1>1 DEF EndsRight
  <2>2. ~doubt /\ fails <= 1 /\ (fails' = fails \/ (fails = 0 /\ fails' = 1))
    BY <1>2, <1>6, <2>1
  <2>3. ASSUME NEW j \in Items \ {i}, NEW v, Right(j, v) PROVE Right(j, v)'
    BY <1>1, <1>3, <2>2, <2>3, RightStays
  <2>4. \A j \in Items \ {i} : /\ Right(j, shown[j]) => Right(j, shown[j])'
                               /\ Right(j, clearing.cart[j]) => Right(j, clearing.cart[j])'
    BY <1>1, <1>3, <2>3
  <2>5. CASE clearing.pc = "none" /\ listed
    BY <1>6, <2>1, <2>2, <2>4, <2>5 DEF SeenInv, EndsRight
  <2>6. CASE clearing.pc = "sent"
    BY <1>2, <1>6, <2>1, <2>2, <2>4, <2>6 DEF SeenInv, EndsRight
  <2>7. CASE clearing.pc = "refused"
    <3>1. fails = 1 /\ fails' = 1 /\ ~listed
      BY <1>2, <2>1, <2>2, <2>7 DEF SeenInv, EndsRight
    <3>2. ASSUME NEW j \in Items
          PROVE  /\ Right(j, clearing.cart[j])' /\ removal'[j].pc # "refused"
                 /\ clearing.cart[j] > 0 => sent[j].pc # "refused"
      <4>1. /\ Right(j, clearing.cart[j]) /\ removal[j].pc # "refused"
            /\ clearing.cart[j] > 0 => sent[j].pc # "refused"
        BY <2>1, <2>2, <2>7, <3>1 DEF SeenInv, EndsRight
      <4>2. CASE j = i
        BY <1>6, <2>1, <2>7, <3>1, <4>1, <4>2
      <4>3. CASE j # i
        BY <1>3, <2>4, <4>1, <4>3
      <4>4. QED BY <4>2, <4>3
    <3>3. QED BY <2>7, <3>1, <3>2
  <2>8. QED BY <2>1, <2>2, <2>5, <2>6, <2>7 DEF SeenInv, EndsRight
<1>7. CASE RemoveItem(i)
  <2>1. /\ UNCHANGED <<server, doubt, fails>> /\ shown[i] > 0 /\ listed /\ removal[i].pc = "none"
        /\ shown'[i] = 0 /\ removal'[i] = [pc |-> "sent", cart |-> shown]
    BY <1>2, <1>7 DEF RemoveItem, CartShown, TakeOut, serverVars, pastVars, CartInv, CartTypes, Amounts
  <2>2. ASSUME ~away, ~doubt, fails <= 1, clearing.pc = "none", NEW v, v = shown[i], Right(i, v)
        PROVE  Right(i, shown[i])'
    <3>1. LeadsTo(i, v) /\ v > 0 /\ server[i] > 0
      BY <1>2, <2>1, <2>2 DEF Right, Unseen, LeadsTo
    <3>2. LeadsTo(i, v)'
      BY <1>1, <2>1, <3>1 DEF LeadsTo
    <3>3. removal'[i].cart[i] = v /\ removal'[i].pc = "sent"
      BY <2>1, <2>2
    <3>4. QED BY <2>1, <3>1, <3>2, <3>3 DEF Right
  <2>3. ~away /\ ~doubt /\ fails <= 1 => clearing.pc = "none"
    BY <2>1 DEF SeenInv, EndsRight
  <2>4. EndsRight'
    BY <1>6, <2>1, <2>2, <2>3
  <2>5. QED BY <1>4, <1>5, <2>4 DEF SeenInv
<1>8. CASE ServeRemoval(i)
  <2>1. /\ UNCHANGED <<shown, doubt, fails>> /\ removal[i].pc = "sent"
        /\ ~away => server'[i] = 0 /\ (server[i] > 0 => removal'[i].pc = "done")
    BY <1>2, <1>8 DEF ServeRemoval, storeVars, pastVars, CartInv, CartTypes, Amounts, Calls
  <2>2. ASSUME ~away, NEW v, Right(i, v)
        PROVE  Right(i, v)' /\ removal'[i].pc = "done"
    BY <2>1, <2>2 DEF Right
  <2>3. EndsRight'
    BY <1>1, <1>6, <2>1, <2>2
  <2>4. QED BY <1>4, <1>5, <2>3 DEF SeenInv
<1>9. CASE FailRemoval(i)
  <2>1. /\ UNCHANGED <<server, shown>> /\ fails' = fails + 1 /\ removal[i].pc \in {"sent", "done"}
        /\ removal'[i].pc = "refused" /\ removal'[i].cart = removal[i].cart
        /\ doubt' = (doubt \/ removal[i].pc = "done")
    BY <1>9 DEF FailRemoval, Fails, serverVars, storeVars, CartInv, CartTypes, Calls
  <2>2. ASSUME removal[i].pc = "sent", fails = 0, NEW v, Right(i, v)
        PROVE  Right(i, v)'
    <3>1. v = 0 /\ removal[i].cart[i] > 0 /\ LeadsTo(i, removal[i].cart[i])
      BY <2>2 DEF Right
    <3>2. sent[i].pc # "refused" /\ fails' = 1
      BY <2>1, <2>2, <3>1 DEF LeadsTo
    <3>3. LeadsTo(i, removal[i].cart[i])'
      BY <1>1, <2>1, <2>2, <3>1, <3>2 DEF LeadsTo
    <3>4. QED BY <1>1, <2>1, <3>1, <3>2, <3>3 DEF Right
  <2>3. ~doubt' => ~doubt /\ removal[i].pc = "sent"
    BY <2>1, Zenon
  <2>4. fails' # 0 /\ (fails' <= 1 => fails = 0)
    BY <1>2, <2>1
  <2>5. EndsRight'
    BY <1>1, <1>6, <2>1, <2>2, <2>3, <2>4
  <2>6. QED BY <1>4, <1>5, <2>5 DEF SeenInv
<1>10. CASE SettleRemoval(i)
  <2>1. /\ UNCHANGED <<server, doubt, fails>> /\ removal[i].pc \in {"done", "refused"} /\ removal'[i].pc = "none"
        /\ removal[i].pc = "refused" /\ listed /\ shown[i] = 0 => shown'[i] = removal[i].cart[i]
        /\ removal[i].pc = "done" \/ ~listed => shown' = shown
    BY <1>2, <1>10, Nothings DEF SettleRemoval, serverVars, pastVars, CartInv, CartTypes, Amounts
  <2>2. ASSUME NEW v, Right(i, v), removal[i].pc = "done" PROVE Right(i, v)'
    BY <1>1, <2>1, <2>2 DEF Right, LeadsTo
  <2>3. ASSUME listed, NEW v, v = shown[i], Right(i, v), removal[i].pc = "refused" PROVE Right(i, shown[i])'
    <3>1. shown[i] = 0 /\ LeadsTo(i, removal[i].cart[i])
      BY <2>3 DEF Right
    <3>2. shown'[i] = removal[i].cart[i]
      BY <2>1, <2>3, <3>1
    <3>3. LeadsTo(i, removal[i].cart[i]) => LeadsTo(i, shown[i])'
      BY <1>1, <2>1, <3>2 DEF LeadsTo
    <3>4. QED BY <2>1, <3>1, <3>3 DEF Right
  <2>4. ASSUME NEW v, Right(i, v), removal[i].pc = "refused" PROVE fails = 1
    BY <2>4 DEF Right
  <2>5. EndsRight'
    BY <1>1, <1>6, <2>1, <2>2, <2>3, <2>4
  <2>6. QED BY <1>4, <1>5, <2>5 DEF SeenInv
<1>11. QED BY <1>7, <1>8, <1>9, <1>10

LEMMA ClearingSees ==
  ASSUME CartInv, SeenInv, ClearCart \/ ServeClearing \/ FailClearing \/ SettleClearing
  PROVE  SeenInv'
<1>1. UNCHANGED <<unborn, seq, queued, sent, removal, addition, away>>
  BY DEF ClearCart, ServeClearing, FailClearing, SettleClearing, serverVars, queueVars
<1>2. OpsInOrder' /\ SomeOfAll' /\ fails \in Nat /\ clearing \in Calls
  BY <1>1 DEF SeenInv, OpsInOrder, SomeOfAll, CartInv, CartTypes
<1>3. ASSUME server' = server, fails' = fails \/ (fails = 0 /\ fails' = 1), NEW i \in Items, NEW v, Right(i, v)
      PROVE  Right(i, v)'
  BY <1>1, <1>3, RightStays
<1>4. CASE ClearCart
  <2>1. /\ UNCHANGED <<server, doubt, fails>> /\ listed /\ clearing.pc = "none"
        /\ listed' = FALSE /\ clearing'.pc = "sent" /\ clearing'.cart = shown
    BY <1>4 DEF ClearCart, CartShown, TakeAway, serverVars, pastVars
  <2>2. ASSUME ~away, ~doubt, fails = 0, NEW i \in Items PROVE Right(i, clearing.cart[i])'
    <3>1. Right(i, shown[i])
      BY <2>1, <2>2 DEF SeenInv, EndsRight
    <3>2. QED BY <1>3, <2>1, <3>1
  <2>3. EndsRight'
    BY <1>1, <2>1, <2>2 DEF EndsRight
  <2>4. QED BY <1>2, <2>3 DEF SeenInv
<1>5. CASE ServeClearing
  <2>1. /\ UNCHANGED <<listed, doubt, fails>> /\ clearing.pc = "sent"
        /\ ~away => clearing'.pc = "done"
    BY <1>2, <1>5 DEF ServeClearing, storeVars, pastVars, Calls
  <2>2. EndsRight'
    BY <1>1, <2>1 DEF SeenInv, EndsRight
  <2>3. QED BY <1>2, <2>2 DEF SeenInv
<1>6. CASE FailClearing
  <2>1. /\ UNCHANGED <<server, listed>> /\ fails' = fails + 1 /\ clearing.pc \in {"sent", "done"}
        /\ clearing'.pc = "refused" /\ clearing'.cart = clearing.cart
        /\ doubt' = (doubt \/ clearing.pc = "done")
    BY <1>2, <1>6 DEF FailClearing, Fails, serverVars, storeVars, Calls
  <2>2. ~doubt' => ~doubt /\ clearing.pc = "sent"
    BY <2>1, Zenon
  <2>3. ASSUME ~away, ~doubt', fails' <= 1
        PROVE  /\ ~listed /\ fails' = 1
               /\ \A i \in Items : /\ Right(i, clearing.cart[i])' /\ removal[i].pc # "refused"
                                   /\ clearing.cart[i] > 0 => sent[i].pc # "refused"
    <3>1. fails = 0 /\ fails' = 1
      BY <1>2, <2>1, <2>3
    <3>2. ~listed /\ \A i \in Items : Right(i, clearing.cart[i])
      BY <2>2, <2>3, <3>1 DEF SeenInv, EndsRight
    <3>3. ASSUME NEW i \in Items PROVE Right(i, clearing.cart[i])'
      BY <1>3, <2>1, <3>1, <3>2
    <3>4. ASSUME NEW i \in Items
          PROVE  removal[i].pc # "refused" /\ (clearing.cart[i] > 0 => sent[i].pc # "refused")
      <4>1. Right(i, clearing.cart[i])
        BY <3>2
      <4>2. removal[i].pc \in {"none", "sent", "done", "refused"} /\ clearing.cart[i] \in Nat
        BY DEF CartInv, CartTypes, Calls, Amounts
      <4>3. QED BY <3>1, <4>1, <4>2 DEF Right, LeadsTo, Unseen
    <3>5. QED BY <3>1, <3>2, <3>3, <3>4
  <2>4. EndsRight'
    BY <1>1, <2>1, <2>3 DEF EndsRight
  <2>5. QED BY <1>2, <2>4 DEF SeenInv
<1>7. CASE SettleClearing
  <2>1. /\ UNCHANGED <<server, doubt, fails>> /\ clearing.pc \in {"done", "refused"} /\ clearing'.pc = "none"
        /\ clearing.pc = "done" => listed' = listed
        /\ clearing.pc = "refused" /\ ~listed => shown' = clearing.cart
    BY <1>7, Nothings DEF SettleClearing, serverVars, pastVars
  <2>2. ASSUME ~away, ~doubt, fails <= 1, listed', NEW i \in Items PROVE Right(i, shown[i])'
    <3>1. clearing.pc = "refused" /\ ~listed /\ Right(i, clearing.cart[i])
      BY <2>1, <2>2 DEF SeenInv, EndsRight
    <3>2. QED BY <1>3, <2>1, <3>1
  <2>3. EndsRight'
    BY <1>1, <2>1, <2>2 DEF EndsRight
  <2>4. QED BY <1>2, <2>3 DEF SeenInv
<1>8. QED BY <1>4, <1>5, <1>6, <1>7

\* An answer with the whole cart leaves no doubt only where nothing is under way.
LEMMA AnswerSees ==
  ASSUME CartInv, SeenInv, NEW cart, TakeOver(cart),
         UNCHANGED <<unborn, seq, queued, sent, removal, server, clearing, away, fails>>
  PROVE  SeenInv'
<1>1. OpsInOrder' /\ SomeOfAll'
  BY DEF SeenInv, OpsInOrder, SomeOfAll
<1>2. ASSUME ~doubt'
      PROVE  /\ cart = server /\ clearing.pc = "none"
             /\ \A j \in Items : {queued[j].pc, sent[j].pc, removal[j].pc} = {"none"}
  <2>1. ~(doubt \/ cart # server \/ clearing.pc # "none"
           \/ \E j \in Items : {queued[j].pc, sent[j].pc, removal[j].pc} # {"none"})
    BY <1>2, Zenon DEF TakeOver
  <2>2. QED BY <2>1
<1>3. ASSUME ~doubt', NEW i \in Items PROVE Right(i, shown[i])'
  <2>1. queued[i].pc = "none" /\ sent[i].pc = "none" /\ removal[i].pc = "none"
    BY <1>2, <1>3
  <2>2. shown' = server
    BY <1>2, <1>3 DEF TakeOver
  <2>3. server[i] \in Nat
    BY DEF CartInv, CartTypes, Amounts
  <2>4. LeadsTo(i, shown[i])'
    BY <2>1, <2>2, <2>3 DEF LeadsTo
  <2>5. QED BY <2>1, <2>4 DEF Right
<1>4. EndsRight'
  BY <1>2, <1>3 DEF EndsRight
<1>5. QED BY <1>1, <1>4 DEF SeenInv

LEMMA AdditionSees ==
  ASSUME CartInv, SeenInv, NEW i \in Items,
         AddToCart(i) \/ ServeAddition(i) \/ SettleAddition(i) \/ FailAddition(i)
  PROVE  SeenInv'
<1>0. addition[i].pc \in {"none", "sent", "done", "refused"} /\ fails \in Nat
  BY DEF CartInv, CartTypes, Calls
<1>1. CASE AddToCart(i) \/ FailAddition(i)
  <2>1. UNCHANGED <<unborn, seq, queued, sent, removal, server, shown, listed, clearing, away>>
    BY <1>1 DEF AddToCart, FailAddition, serverVars, storeVars, queueVars
  <2>2. \A j \in Items \ {i} : addition'[j] = addition[j]
    BY <1>1 DEF AddToCart, FailAddition, CartInv, CartTypes
  <2>3. /\ addition[i].pc = "done" => doubt'
        /\ doubt => doubt'
    <3>1. CASE AddToCart(i)
      BY <3>1 DEF AddToCart, pastVars
    <3>2. CASE FailAddition(i)
      <4>1. doubt' = (doubt \/ addition[i].pc = "done") \/ (addition[i].pc = "sent" /\ doubt' = doubt)
        BY <3>2, Zenon DEF FailAddition
      <4>2. CASE doubt' = (doubt \/ addition[i].pc = "done")
        BY <4>2, Zenon
      <4>3. CASE addition[i].pc = "sent" /\ doubt' = doubt
        BY <4>3
      <4>4. QED BY <4>1, <4>2, <4>3
    <3>3. QED BY <1>1, <3>1, <3>2
  <2>4. fails' \in {fails, fails + 1}
    BY <1>1 DEF AddToCart, FailAddition, Fails
  <2>5. QED BY <2>1, <2>2, <2>3, <2>4, SeenRests
<1>2. CASE SettleAddition(i)
  <2>1. TakeOver(addition[i].cart) /\ UNCHANGED <<unborn, seq, queued, sent, removal, server, clearing, away, fails>>
    BY <1>2 DEF SettleAddition, serverVars, queueVars
  <2>2. QED BY <2>1, AnswerSees
<1>3. CASE ServeAddition(i)
  <2>1. /\ UNCHANGED <<seq, queued, sent, removal, shown, listed, clearing, away, doubt, fails>>
        /\ unborn' = unborn \ {i} /\ i \in unborn
    BY <1>3 DEF ServeAddition, storeVars, queueVars, pastVars, CartInv, NotBornYet
  <2>2. server'[i] = 1 /\ \A j \in Items \ {i} : server'[j] = server[j]
    BY <1>3 DEF ServeAddition, CartInv, CartTypes, Amounts
  <2>3. addition'[i].pc = "done" /\ \A j \in Items \ {i} : addition'[j] = addition[j]
    <3>1. addition' = [addition EXCEPT ![i] = [pc |-> "done", cart |-> server']]
      BY <1>3 DEF ServeAddition
    <3>2. QED BY <3>1 DEF CartInv, CartTypes
  <2>4. /\ queued[i].pc = "none" /\ sent[i].pc = "none" /\ removal[i].pc = "none"
        /\ shown[i] = 0 /\ clearing.cart[i] = 0
    BY <2>1 DEF SeenInv, SomeOfAll, CartInv, NotBornYet
  <2>5. OpsInOrder' /\ SomeOfAll'
    BY <2>1 DEF SeenInv, OpsInOrder, SomeOfAll
  <2>6. Right(i, 0)'
    BY <2>1, <2>2, <2>3, <2>4 DEF Right, Unseen
  <2>7. ASSUME NEW j \in Items, NEW v, Right(j, v), j = i => v = 0 PROVE Right(j, v)'
    <3>1. CASE j = i
      BY <2>6, <2>7, <3>1
    <3>2. CASE j # i
      BY <2>1, <2>2, <2>3, <2>7, <3>2, RightStays
    <3>3. QED BY <3>1, <3>2
  <2>8. \A j \in Items : /\ Right(j, shown[j]) => Right(j, shown[j])'
                         /\ Right(j, clearing.cart[j]) => Right(j, clearing.cart[j])'
    BY <2>1, <2>4, <2>7
  <2>9. EndsRight'
    <3>1. SUFFICES ASSUME ~away, ~doubt, fails <= 1
                   PROVE  /\ clearing.pc # "none" => ~listed
                          /\ clearing.pc = "none" /\ listed => \A j \in Items : Right(j, shown[j])'
                          /\ clearing.pc = "sent" /\ fails = 0 => \A j \in Items : Right(j, clearing.cart[j])'
                          /\ clearing.pc = "refused" =>
                               /\ fails = 1
                               /\ \A j \in Items : /\ Right(j, clearing.cart[j])' /\ removal[j].pc # "refused"
                                                   /\ clearing.cart[j] > 0 => sent[j].pc # "refused"
      BY <2>1 DEF EndsRight
    <3>2. QED BY <2>8, <3>1 DEF SeenInv, EndsRight
  <2>10. QED BY <2>5, <2>9 DEF SeenInv
<1>4. QED BY <1>1, <1>2, <1>3

LEMMA FetchSees ==
  ASSUME CartInv, SeenInv, NEW f \in Fetches, FetchCarts(f) \/ ServeFetch(f) \/ SettleFetch(f) \/ FailFetch(f)
  PROVE  SeenInv'
<1>1. CASE SettleFetch(f)
  <2>1. TakeOver(fetch[f].cart) /\ UNCHANGED <<unborn, seq, queued, sent, removal, server, clearing, away, fails>>
    BY <1>1 DEF SettleFetch, serverVars, queueVars
  <2>2. QED BY <2>1, AnswerSees
<1>2. CASE FetchCarts(f) \/ ServeFetch(f) \/ FailFetch(f)
  <2>1. /\ UNCHANGED <<unborn, seq, queued, sent, removal, server, shown, listed, clearing, away>>
        /\ UNCHANGED <<addition, doubt>> /\ fails' \in {fails, fails + 1}
    BY <1>2 DEF FetchCarts, ServeFetch, FailFetch, Fails, serverVars, storeVars, queueVars, pastVars
  <2>2. QED BY <2>1, SeenRests
<1>3. QED BY <1>1, <1>2

LEMMA LeavingSees ==
  ASSUME CartInv, SeenInv,
         Logout \/ GoToCheckout \/ ServeVisit \/ ShowCheckout \/ FailVisit \/ PlaceOrder \/ BackToCart
  PROVE  SeenInv'
<1>1. CASE Logout
  <2>1. away' = TRUE /\ queued' = [i \in Items |-> NoUpdate] /\ UNCHANGED <<unborn, sent, removal>>
    BY <1>1 DEF Logout, serverVars, otherVars
  <2>2. QED BY <2>1, Nothings DEF SeenInv, OpsInOrder, SomeOfAll, EndsRight
<1>2. CASE PlaceOrder
  <2>1. doubt' = TRUE /\ UNCHANGED <<unborn, seq, queued, sent, removal, away>>
    BY <1>2 DEF PlaceOrder, queueVars, otherVars
  <2>2. QED BY <2>1 DEF SeenInv, OpsInOrder, SomeOfAll, EndsRight
<1>3. CASE GoToCheckout \/ ServeVisit \/ ShowCheckout \/ FailVisit \/ BackToCart
  <2>1. /\ UNCHANGED <<unborn, seq, queued, sent, removal, server, shown, listed, clearing, away>>
        /\ UNCHANGED <<addition, doubt, fails>>
    BY <1>3 DEF GoToCheckout, ServeVisit, ShowCheckout, FailVisit, BackToCart, serverVars, storeVars, queueVars, otherVars, pastVars
  <2>2. QED BY <2>1, SeenRests
<1>4. QED BY <1>1, <1>2, <1>3

LEMMA SeenKeeps == CartInv /\ SeenInv /\ [Next]_vars => SeenInv'
<1> SUFFICES ASSUME CartInv, SeenInv, [Next]_vars PROVE SeenInv'
  OBVIOUS
<1>1. CASE UNCHANGED vars
  <2>1. /\ UNCHANGED <<unborn, seq, queued, sent, removal, server, shown, listed, clearing, away>>
        /\ UNCHANGED <<addition, doubt, fails>>
    BY <1>1 DEF vars, serverVars, storeVars, queueVars, otherVars, pastVars
  <2>2. QED BY <2>1, SeenRests
<1>2. CASE Customer
  BY <1>2, StepSees, RemovalSees, AdditionSees, FetchSees, ClearingSees, LeavingSees DEF Customer
<1>3. CASE Served
  BY <1>3, ServeUpdateSees, RemovalSees, AdditionSees, FetchSees, ClearingSees, LeavingSees DEF Served
<1>4. CASE Settled
  BY <1>4, SettleUpdateSees, RemovalSees, AdditionSees, FetchSees, ClearingSees DEF Settled
<1>5. CASE Failed
  BY <1>5, FailUpdateSees, RemovalSees, AdditionSees, FetchSees, ClearingSees, LeavingSees DEF Failed
<1>6. QED BY <1>1, <1>2, <1>3, <1>4, <1>5, FlushSees DEF Next

\* When nothing is under way the customer sees what the server has, even after
\* one refused change among others, whatever was changed, removed, cleared, added
\* and taken back in between (the three rollback functions of cartStore).
THEOREM SeesWhatServerHas == CustomerSpec => []Agrees
<1>1. CustomerInit => SeenInv
  BY SeenStarts DEF CustomerInit
<1>2. CartInv /\ SeenInv /\ [CustomerNext]_customerVars => SeenInv'
  <2>1. UNCHANGED vars => [Next]_vars
    OBVIOUS
  <2>2. [CustomerNext]_customerVars => [Next]_vars
    BY <2>1 DEF CustomerNext, customerVars
  <2>3. QED BY <2>2, SeenKeeps
<1>3. CartInv /\ SeenInv => Agrees
  <2>1. SUFFICES ASSUME CartInv, SeenInv, Quiet, ~away, ~doubt, fails <= 1, listed PROVE shown = server
    BY DEF Agrees
  <2>2. ASSUME NEW i \in Items PROVE shown[i] = server[i]
    <3>1. /\ Right(i, shown[i]) /\ removal[i].pc = "none" /\ addition[i].pc = "none"
          /\ queued[i].pc = "none" /\ sent[i].pc = "none"
      BY <2>1 DEF SeenInv, EndsRight, Quiet, NoChange
    <3>2. QED BY <3>1 DEF Right, Unseen, LeadsTo
  <2>3. QED BY <2>1, <2>2 DEF CartInv, CartTypes, Amounts
<1>4. QED BY <1>1, <1>2, <1>3, CartAlways, PTL DEF CustomerSpec

-----------------------------------------------------------------------------
(* An order that is watched                                                *)

AskingForms == [pc : {"idle", "sent", "served"}, status : OrderStatus \cup {"none"}]

WatchTypes == /\ order \in OrderStatus /\ badge \in OrderStatus
              /\ asking \in [WatchSlots -> AskingForms]

\* As long as no two requests were under way at once, none is.
OneAsks == ~overlapped => \A f, g \in WatchSlots :
    asking[f].pc # "idle" /\ asking[g].pc # "idle" => f = g

\* An answer on its way is not older than the badge, nor newer than the order.
AnswerBetween == \A f \in WatchSlots : asking[f].pc = "served" =>
    /\ asking[f].status \in OrderStatus
    /\ Progress[asking[f].status] <= Progress[order]
    /\ ~overlapped => Progress[badge] <= Progress[asking[f].status]

BadgeBehind == Progress[badge] <= Progress[order]

WatchInv == WatchTypes /\ OneAsks /\ AnswerBetween /\ BadgeBehind

LEMMA ProgressIsNat == \A s \in OrderStatus : Progress[s] \in Nat
BY DEF Progress, OrderStatus

\* No transition of OrderStatus::canTransitionTo leads back.
LEMMA MovesForward ==
  ASSUME NEW from \in OrderStatus, NEW to \in OrderStatus, OrderCanMove(from, to)
  PROVE  Progress[from] <= Progress[to]
<1>1. Progress = [s \in OrderStatus |->
        CASE s = "PendingPayment" -> 0 [] s = "Paid" -> 1 [] s = "Accepted" -> 2
          [] s = "InProgress" -> 3 [] s = "Ready" -> 4 [] s = "Refunded" -> 6 [] OTHER -> 5]
  BY DEF Progress
<1>2. \/ from = "PendingPayment" /\ to \in {"Paid", "PaymentFailed"}
      \/ from = "Paid" /\ to = "Accepted"
      \/ from = "Accepted" /\ to = "InProgress"
      \/ from = "InProgress" /\ to = "Ready"
      \/ from = "Ready" /\ to = "Completed"
      \/ from = "Cancelled" /\ to = "Refunded"
      \/ from \in {"Paid", "Accepted", "InProgress", "Ready"} /\ to = "Cancelled"
  BY DEF OrderCanMove, OrderMoves
<1>3. QED BY <1>1, <1>2

\* What counting the requests under way says of any two of them.
LEMMA BusyCounts ==
  ASSUME NEW slots, NEW f \in WatchSlots, slots[f].pc # "idle"
  PROVE  /\ Busy(slots) # 0
         /\ ~(Busy(slots) > 1) => \A g \in WatchSlots : slots[g].pc # "idle" => g = f
<1> DEFINE busy == {g \in WatchSlots : slots[g].pc # "idle"}
<1>1. IsFiniteSet(busy) /\ Cardinality(busy) \in Nat /\ Busy(slots) = Cardinality(busy)
  <2>1. IsFiniteSet(busy)
    BY WatchBounds, FS_Subset
  <2>2. QED BY <2>1, FS_CardinalityType DEF Busy
<1>2. \A two \in SUBSET busy : Cardinality(two) <= Cardinality(busy)
  BY <1>1, FS_Subset
<1>3. Cardinality({f}) = 1 /\ IsFiniteSet({f})
  BY FS_Singleton
<1>4. Cardinality(busy) >= 1
  <2>1. {f} \in SUBSET busy
    OBVIOUS
  <2>2. QED BY <1>1, <1>2, <1>3, <2>1
<1>5. ASSUME NEW g \in WatchSlots, slots[g].pc # "idle", g # f
      PROVE  Cardinality(busy) > 1
  <2>1. {f} \cup {g} \in SUBSET busy
    BY <1>5
  <2>2. Cardinality({f} \cup {g}) = 2
    BY <1>3, <1>5, FS_AddElement
  <2>3. QED BY <1>1, <1>2, <2>1, <2>2
<1>6. QED BY <1>1, <1>4, <1>5

LEMMA FetchAsks ==
  ASSUME WatchInv, NEW f \in WatchSlots, Fetch(f), UNCHANGED <<order, badge>>
  PROVE  WatchInv'
<1>1. Asking \in AskingForms /\ Asking.pc = "sent"
  BY DEF Asking, NotAsking, AskingForms
<1>2. /\ asking' \in [WatchSlots -> AskingForms] /\ asking'[f].pc = "sent"
      /\ \A g \in WatchSlots \ {f} : asking'[g] = asking[g]
      /\ overlapped' = (overlapped \/ Busy(asking') > 1)
  BY <1>1 DEF Fetch, WatchInv, WatchTypes
<1>3. WatchTypes' /\ BadgeBehind'
  BY <1>2 DEF WatchInv, WatchTypes, BadgeBehind
<1>4. OneAsks'
  <2>1. SUFFICES ASSUME ~overlapped' PROVE \A g \in WatchSlots : asking'[g].pc # "idle" => g = f
    BY DEF OneAsks
  <2>2. asking'[f].pc # "idle" /\ ~(Busy(asking') > 1)
    BY <1>2, <2>1
  <2>3. QED BY <2>2, BusyCounts
<1>5. AnswerBetween'
  BY <1>2 DEF WatchInv, AnswerBetween
<1>6. QED BY <1>3, <1>4, <1>5 DEF WatchInv

\* A request ends, and the badge stays or takes the answer over.
LEMMA RequestEnds ==
  ASSUME WatchInv, NEW f \in WatchSlots, asking[f].pc # "idle",
         asking' = [asking EXCEPT ![f] = NotAsking], UNCHANGED <<order, overlapped>>,
         badge' = badge \/ (asking[f].pc = "served" /\ badge' = asking[f].status)
  PROVE  WatchInv' /\ (~overlapped => Progress[badge] <= Progress[badge'])
<1>1. NotAsking \in AskingForms /\ NotAsking.pc = "idle"
  BY DEF NotAsking, AskingForms
<1>2. /\ asking' \in [WatchSlots -> AskingForms] /\ asking'[f].pc = "idle"
      /\ \A g \in WatchSlots \ {f} : asking'[g] = asking[g]
  BY <1>1 DEF WatchInv, WatchTypes
<1>3. badge' \in OrderStatus /\ BadgeBehind' /\ (~overlapped => Progress[badge] <= Progress[badge'])
  BY ProgressIsNat DEF WatchInv, WatchTypes, AnswerBetween, BadgeBehind
<1>4. WatchTypes' /\ OneAsks'
  BY <1>2, <1>3 DEF WatchInv, WatchTypes, OneAsks
<1>5. AnswerBetween'
  BY <1>2 DEF WatchInv, OneAsks, AnswerBetween
<1>6. QED BY <1>3, <1>4, <1>5 DEF WatchInv

LEMMA WatchSteps ==
  ASSUME WatchInv, [WatchNext]_watchVars
  PROVE  WatchInv' /\ (watching /\ ~overlapped' => Progress[badge'] >= Progress[badge])
<1>0. Progress[badge] \in Nat
  BY ProgressIsNat DEF WatchInv, WatchTypes
<1>1. CASE UNCHANGED <<order, badge, asking, overlapped>>
  BY <1>0, <1>1 DEF WatchInv, WatchTypes, OneAsks, AnswerBetween, BadgeBehind
<1>2. CASE UNCHANGED watchVars \/ HideTab \/ Reorder \/ SettleReorder \/ CloseResult
  BY <1>1, <1>2 DEF watchVars, HideTab, Reorder, SettleReorder, CloseResult
<1>3. CASE OrderMovesOn
  <2>1. PICK to \in OrderStatus : OrderCanMove(order, to) /\ order' = to
    BY <1>3 DEF OrderMovesOn
  <2>2. UNCHANGED <<badge, asking, overlapped>>
    BY <1>3 DEF OrderMovesOn
  <2>3. Progress[order] <= Progress[order'] /\ Progress[order] \in Nat /\ Progress[order'] \in Nat
    BY <2>1, MovesForward, ProgressIsNat DEF WatchInv, WatchTypes
  <2>4. WatchTypes' /\ OneAsks' /\ BadgeBehind'
    BY <1>0, <2>1, <2>2, <2>3 DEF WatchInv, WatchTypes, OneAsks, BadgeBehind
  <2>5. AnswerBetween'
    BY <2>2, <2>3, ProgressIsNat DEF WatchInv, AnswerBetween
  <2>6. QED BY <1>0, <2>2, <2>4, <2>5 DEF WatchInv
<1>4. ASSUME NEW f \in WatchSlots, OpenOrder(f) \/ OpenComplete(f)
      PROVE  WatchInv' /\ ~watching
  <2>1. /\ ~watching /\ Busy(asking) = 0 /\ badge' = order /\ order' = order
        /\ UNCHANGED <<asking, overlapped>> \/ Fetch(f)
    BY <1>4 DEF OpenOrder, OpenComplete, Begin
  <2>2. \A g \in WatchSlots : asking[g].pc = "idle"
    BY <2>1, BusyCounts
  <2>3. CASE UNCHANGED <<asking, overlapped>>
    <3>1. Progress[order] \in Nat
      BY ProgressIsNat DEF WatchInv, WatchTypes
    <3>2. QED BY <2>1, <2>2, <2>3, <3>1 DEF WatchInv, WatchTypes, OneAsks, AnswerBetween, BadgeBehind
  <2>4. CASE Fetch(f)
    <3>1. Asking \in AskingForms /\ Asking.pc = "sent"
      BY DEF Asking, NotAsking, AskingForms
    <3>2. /\ asking' \in [WatchSlots -> AskingForms] /\ asking'[f].pc = "sent"
          /\ \A g \in WatchSlots \ {f} : asking'[g] = asking[g]
      BY <2>4, <3>1 DEF Fetch, WatchInv, WatchTypes
    <3>3. Progress[order] \in Nat
      BY ProgressIsNat DEF WatchInv, WatchTypes
    <3>4. WatchTypes' /\ BadgeBehind'
      BY <2>1, <3>2, <3>3 DEF WatchInv, WatchTypes, BadgeBehind
    <3>5. OneAsks' /\ AnswerBetween'
      BY <2>2, <3>2 DEF OneAsks, AnswerBetween
    <3>6. QED BY <2>1, <3>4, <3>5 DEF WatchInv
  <2>5. QED BY <2>1, <2>3, <2>4
<1>5. ASSUME NEW f \in WatchSlots, Fire(f) \/ ShowTab(f)
      PROVE  WatchInv' /\ badge' = badge
  BY <1>5, FetchAsks DEF Fire, ShowTab
<1>6. ASSUME NEW f \in WatchSlots, ServeStatus(f)
      PROVE  WatchInv' /\ badge' = badge
  <2> DEFINE new == [pc |-> "served", status |-> order]
  <2>1. new \in AskingForms /\ new.pc = "served" /\ new.status = order
    BY DEF AskingForms, WatchInv, WatchTypes
  <2>2. asking[f].pc = "sent" /\ asking' = [asking EXCEPT ![f] = new] /\ UNCHANGED <<order, badge, overlapped>>
    BY <1>6 DEF ServeStatus
  <2> HIDE DEF new
  <2>3. /\ asking' \in [WatchSlots -> AskingForms] /\ asking'[f].pc = "served" /\ asking'[f].status = order
        /\ \A g \in WatchSlots \ {f} : asking'[g] = asking[g]
    BY <2>1, <2>2 DEF WatchInv, WatchTypes
  <2>4. WatchTypes' /\ OneAsks' /\ BadgeBehind'
    BY <2>2, <2>3 DEF WatchInv, WatchTypes, OneAsks, BadgeBehind
  <2>5. Progress[order] \in Nat
    BY ProgressIsNat DEF WatchInv, WatchTypes
  <2>6. AnswerBetween'
    BY <2>2, <2>3, <2>5 DEF WatchInv, WatchTypes, BadgeBehind, AnswerBetween
  <2>7. QED BY <2>2, <2>4, <2>6 DEF WatchInv
<1>7. ASSUME NEW f \in WatchSlots, SettleStatus(f) \/ MissStatus(f)
      PROVE  WatchInv' /\ (~overlapped' => Progress[badge] <= Progress[badge'])
  BY <1>7, RequestEnds DEF SettleStatus, MissStatus
<1>8. WatchInv' => Progress[badge'] \in Nat
  BY ProgressIsNat DEF WatchInv, WatchTypes
<1>9. QED BY <1>0, <1>2, <1>3, <1>4, <1>5, <1>6, <1>7, <1>8 DEF WatchNext

LEMMA WatchStarts == WatchInit => WatchInv
<1>1. NotAsking \in AskingForms /\ NotAsking.pc = "idle"
  BY DEF NotAsking, AskingForms
<1>2. QED BY <1>1, ProgressIsNat DEF WatchInit, WatchInv, WatchTypes, OneAsks, AnswerBetween, BadgeBehind

\* The status a waiting customer sees never goes back, as long as requests do
\* not overlap, whichever of them fail and however the order moves on meanwhile
\* (scheduleNextPoll and runFetcher; two that overlap may answer in either order).
THEOREM BadgeOnlyAdvances == CustomerSpec => BadgeNeverGoesBack
<1>1. CustomerInit => WatchInv
  BY WatchStarts DEF CustomerInit
<1>2. WatchInv /\ [CustomerNext]_customerVars => WatchInv'
  BY WatchSteps DEF CustomerNext, customerVars
<1>3. WatchInv /\ [CustomerNext]_customerVars
        => [watching /\ ~overlapped' => Progress[badge'] >= Progress[badge]]_watchVars
  BY WatchSteps DEF CustomerNext, customerVars
<1>4. QED BY <1>1, <1>2, <1>3, PTL DEF CustomerSpec, BadgeNeverGoesBack
=============================================================================
