-------------------------- MODULE CardVaultProofs --------------------------
(***************************************************************************)
(* Proofs about CardVault, for every number of tabs, cards, customers and   *)
(* mishaps.                                                                *)
(*                                                                         *)
(* That a row of ours has its card at the gateway needs more than the rows: *)
(* a card that is about to be saved is the known customer's, nobody else    *)
(* saves or deletes it, and a customer once known stays (VaultInv).  The    *)
(* lock is not in the invariant: it may expire at any time, and what keeps  *)
(* a second customer out is only that InsertCustomer uses the one it finds. *)
(*                                                                         *)
(* What a page shows follows the rows, behind by its own steps that are     *)
(* done and not yet settled; this needs that a page registers numbers it    *)
(* does not list and deletes numbers it does (ShownInv).                    *)
(***************************************************************************)
EXTENDS CardVault, FiniteSetTheorems, TLAPS

RegTypes == [pc : {"idle", "find", "lock", "check", "create", "insert", "card", "save", "done", "failed"},
             asMain : BOOLEAN, customer : Nat, card : 0 .. MaxCards]
DelTypes == [pc : {"idle", "sent", "gateway", "drop", "done", "failed"}, card : 0 .. MaxCards]

VaultTypes ==
    /\ customer \in Nat /\ made \in Nat /\ mishaps \in Nat
    /\ issued \in 0 .. MaxCards /\ vault \in [CardNumbers -> Nat]
    /\ rows \subseteq 1 .. issued
    /\ list \in [VaultTabs -> SUBSET (0 .. MaxCards)]
    /\ reg \in [VaultTabs -> RegTypes] /\ del \in [VaultTabs -> DelTypes]

\* The customer a registration goes on with is the one we know.
Known(t) ==
    /\ reg[t].pc \in {"card", "save"} => customer # 0 /\ reg[t].customer = customer
    /\ reg[t].pc = "insert" => reg[t].customer # 0

\* A card that is not yet saved is at the gateway, and nobody deletes it.
Unsaved(t) == reg[t].pc = "save" =>
    /\ reg[t].card \in 1 .. issued /\ reg[t].card \notin rows /\ vault[reg[t].card] = customer
    /\ \A u \in VaultTabs : del[u].pc \in {"gateway", "drop"} => del[u].card # reg[t].card

\* Nor does another tab save it.
Distinct == \A t, u \in VaultTabs : t # u /\ reg[t].pc = "save" /\ reg[u].pc = "save"
                                      => reg[t].card # reg[u].card

Deleting(t) == del[t].pc \in {"gateway", "drop"} => del[t].card \in 1 .. issued

VaultInv ==
    /\ VaultTypes
    /\ rows # {} => customer # 0
    /\ \A t \in VaultTabs : Known(t) /\ Unsaved(t) /\ Deleting(t)
    /\ Distinct
    /\ StoredIsAtGateway

-----------------------------------------------------------------------------
LEMMA VaultStarts == VaultInit => VaultInv
<1>1. SUFFICES ASSUME VaultInit PROVE VaultInv
  OBVIOUS
<1>2. NoReg \in RegTypes /\ NoDel \in DelTypes
  BY VaultBounds DEF NoReg, RegTypes, NoDel, DelTypes
<1>3. VaultTypes
  BY <1>1, <1>2, VaultBounds DEF VaultInit, VaultTypes
<1>4. \A t \in VaultTabs : reg[t].pc = "idle" /\ del[t].pc = "idle"
  BY <1>1 DEF VaultInit, NoReg, NoDel
<1>5. QED BY <1>1, <1>3, <1>4 DEF VaultInv, VaultInit, Known, Unsaved, Deleting, Distinct, StoredIsAtGateway

\* A registration that saves nothing yet takes a step, and nothing else does.
LEMMA RegMoves ==
  ASSUME VaultInv, NEW t \in VaultTabs, NEW new \in RegTypes, reg' = [reg EXCEPT ![t] = new],
         new.pc # "save", new.pc = "card" => customer # 0 /\ new.customer = customer,
         new.pc = "insert" => new.customer # 0,
         UNCHANGED <<rows, customer, issued, vault, del>>,
         made' \in Nat, mishaps' \in Nat, (mishaps > 0 => mishaps' > 0),
         list' \in [VaultTabs -> SUBSET (0 .. MaxCards)]
  PROVE  VaultInv'
<1>1. VaultTypes'
  BY DEF VaultInv, VaultTypes
<1>2. \A u \in VaultTabs : reg'[u] = IF u = t THEN new ELSE reg[u]
  BY DEF VaultInv, VaultTypes
<1>3. \A u \in VaultTabs : Known(u)' /\ Unsaved(u)' /\ Deleting(u)'
  BY <1>2 DEF VaultInv, Known, Unsaved, Deleting
<1>4. Distinct'
  BY <1>2 DEF VaultInv, Distinct
<1>5. StoredIsAtGateway'
  BY DEF VaultInv, VaultTypes, StoredIsAtGateway
<1>6. QED BY <1>1, <1>3, <1>4, <1>5 DEF VaultInv

\* A deletion that is not at its last step takes one, and nothing else does.
LEMMA DelMoves ==
  ASSUME VaultInv, NEW t \in VaultTabs, NEW new \in DelTypes, del' = [del EXCEPT ![t] = new],
         del[t].pc # "drop", new.pc # "drop", new.pc = "gateway" => new.card \in rows,
         UNCHANGED <<rows, customer, issued, vault, reg, made>>,
         mishaps' \in Nat, (mishaps > 0 => mishaps' > 0),
         list' \in [VaultTabs -> SUBSET (0 .. MaxCards)]
  PROVE  VaultInv'
<1>1. VaultTypes'
  BY DEF VaultInv, VaultTypes
<1>2. \A u \in VaultTabs : del'[u] = IF u = t THEN new ELSE del[u]
  BY DEF VaultInv, VaultTypes
<1>3. \A u \in VaultTabs : Known(u)' /\ Unsaved(u)' /\ Deleting(u)'
  BY <1>2 DEF VaultInv, VaultTypes, Known, Unsaved, Deleting
<1>4. StoredIsAtGateway'
  <2>1. SUFFICES ASSUME NEW c \in rows, ~(vault[c] = customer)
        PROVE  vault[c] = 0 /\ (mishaps' > 0 \/ \E u \in VaultTabs : del'[u] = [pc |-> "drop", card |-> c])
    BY DEF StoredIsAtGateway
  <2>2. vault[c] = 0 /\ (mishaps > 0 \/ \E u \in VaultTabs : del[u] = [pc |-> "drop", card |-> c])
    BY <2>1 DEF VaultInv, StoredIsAtGateway
  <2>3. ASSUME NEW u \in VaultTabs, del[u] = [pc |-> "drop", card |-> c]
        PROVE  del'[u] = [pc |-> "drop", card |-> c]
    BY <1>2, <2>3
  <2>4. QED BY <2>2, <2>3
<1>5. QED BY <1>1, <1>3, <1>4 DEF VaultInv, Distinct

\* The two steps that only change where a registration or a deletion is.
LEMMA RegToKeeps ==
  ASSUME VaultInv, NEW t \in VaultTabs, NEW pc \in {"lock", "check", "create", "failed"}, RegTo(t, pc),
         UNCHANGED <<rows, customer, issued, vault, del, list>>,
         made' \in Nat, mishaps' \in Nat, mishaps > 0 => mishaps' > 0
  PROVE  VaultInv'
<1>1. [reg[t] EXCEPT !.pc = pc] \in RegTypes /\ [reg[t] EXCEPT !.pc = pc].pc = pc
  BY DEF VaultInv, VaultTypes, RegTypes
<1>2. QED BY <1>1, RegMoves DEF RegTo, VaultInv, VaultTypes

LEMMA DelToKeeps ==
  ASSUME VaultInv, NEW t \in VaultTabs, NEW pc \in {"failed", "gateway"}, DelTo(t, pc), del[t].pc # "drop",
         pc = "gateway" => del[t].card \in rows,
         UNCHANGED <<rows, customer, issued, vault, reg, made, list>>,
         mishaps' \in Nat, mishaps > 0 => mishaps' > 0
  PROVE  VaultInv'
<1> DEFINE new == [del[t] EXCEPT !.pc = pc]
<1>1. new \in DelTypes /\ new.pc = pc /\ new.card = del[t].card
  BY DEF VaultInv, VaultTypes, DelTypes
<1>2. del' = [del EXCEPT ![t] = new]
  BY DEF DelTo
<1>3. list' \in [VaultTabs -> SUBSET (0 .. MaxCards)]
  BY DEF VaultInv, VaultTypes
<1> HIDE DEF new
<1>4. QED BY <1>1, <1>2, <1>3, DelMoves

-----------------------------------------------------------------------------
(* The page                                                                *)

LEMMA PageKeeps ==
  ASSUME VaultInv, NEW t \in VaultTabs, CardPage(t) \/ AnswerLost(t)
  PROVE  VaultInv'
<1>0. reg[t] \in RegTypes /\ del[t] \in DelTypes /\ mishaps \in Nat /\ made \in Nat
  BY DEF VaultInv, VaultTypes
<1>1. CASE OpenCards(t)
  <2>1. list' \in [VaultTabs -> SUBSET (0 .. MaxCards)]
    BY <1>1, VaultBounds DEF OpenCards, VaultInv, VaultTypes
  <2>2. reg' = [reg EXCEPT ![t] = reg[t]] /\ reg[t].pc = "idle"
    BY <1>1 DEF OpenCards, VaultInv, VaultTypes, NoReg
  <2>3. UNCHANGED <<rows, customer, issued, vault, del, made, mishaps>>
    BY <1>1 DEF OpenCards, cardRows, gateway
  <2>4. QED BY <1>0, <2>1, <2>2, <2>3, RegMoves
<1>2. CASE Register(t)
  <2>1. PICK asMain \in BOOLEAN : reg' = [reg EXCEPT ![t] = [NoReg EXCEPT !.pc = "find", !.asMain = asMain]]
    BY <1>2 DEF Register
  <2> DEFINE new == [NoReg EXCEPT !.pc = "find", !.asMain = asMain]
  <2>2. NoReg \in RegTypes
    BY VaultBounds DEF NoReg, RegTypes
  <2>3. new \in RegTypes /\ new.pc = "find"
    BY <2>2 DEF RegTypes
  <2>4. UNCHANGED <<rows, customer, issued, vault, del, made, mishaps, list>>
    BY <1>2 DEF Register, cardRows, gateway, cardPages
  <2>5. list' \in [VaultTabs -> SUBSET (0 .. MaxCards)]
    BY <2>4 DEF VaultInv, VaultTypes
  <2>6. reg' = [reg EXCEPT ![t] = new]
    BY <2>1
  <2> HIDE DEF new
  <2>7. QED BY <1>0, <2>3, <2>4, <2>5, <2>6, RegMoves
<1>3. CASE SettleRegister(t)
  <2>1. NoReg \in RegTypes /\ NoReg.pc = "idle"
    BY VaultBounds DEF NoReg, RegTypes
  <2>2. list' \in [VaultTabs -> SUBSET (0 .. MaxCards)]
    BY <1>0, <1>3 DEF SettleRegister, VaultInv, VaultTypes, RegTypes, cardPages
  <2>3. UNCHANGED <<rows, customer, issued, vault, del, made, mishaps>> /\ reg' = [reg EXCEPT ![t] = NoReg]
    BY <1>3 DEF SettleRegister, cardRows, gateway
  <2>4. QED BY <1>0, <2>1, <2>2, <2>3, RegMoves
<1>4. CASE Delete(t)
  <2>1. PICK c \in list[t] : del' = [del EXCEPT ![t] = [pc |-> "sent", card |-> c]]
    BY <1>4 DEF Delete
  <2> DEFINE new == [pc |-> "sent", card |-> c]
  <2>2. new \in DelTypes /\ new.pc = "sent"
    BY <2>1 DEF VaultInv, VaultTypes, DelTypes
  <2>3. del[t].pc = "idle"
    BY <1>4 DEF Delete, NoDel
  <2>4. UNCHANGED <<rows, customer, issued, vault, reg, made, mishaps, list>>
    BY <1>4 DEF Delete, cardRows, gateway, cardPages
  <2>5. list' \in [VaultTabs -> SUBSET (0 .. MaxCards)]
    BY <2>4 DEF VaultInv, VaultTypes
  <2>6. del' = [del EXCEPT ![t] = new]
    BY <2>1
  <2> HIDE DEF new
  <2>7. QED BY <1>0, <2>2, <2>3, <2>4, <2>5, <2>6, DelMoves
<1>5. CASE SettleDelete(t)
  <2>1. NoDel \in DelTypes /\ NoDel.pc = "idle"
    BY VaultBounds DEF NoDel, DelTypes
  <2>2. list' \in [VaultTabs -> SUBSET (0 .. MaxCards)]
    BY <1>0, <1>5 DEF SettleDelete, VaultInv, VaultTypes, cardPages
  <2>3. UNCHANGED <<rows, customer, issued, vault, reg, made, mishaps>>
    BY <1>5 DEF SettleDelete, cardRows, gateway
  <2>4. del' = [del EXCEPT ![t] = NoDel] /\ del[t].pc # "drop"
    BY <1>5 DEF SettleDelete
  <2>5. QED BY <1>0, <2>1, <2>2, <2>3, <2>4, DelMoves
<1>6. CASE AnswerLost(t)
  <2>1. mishaps' \in Nat /\ mishaps' > 0 /\ UNCHANGED <<rows, customer, issued, vault, made, list>>
    BY <1>0, <1>6 DEF AnswerLost, Mishap, cardRows, gateway, cardPages
  <2>2. made' \in Nat
    BY <2>1 DEF VaultInv, VaultTypes
  <2>3. CASE RegTo(t, "failed") /\ UNCHANGED del
    BY <2>1, <2>2, <2>3, RegToKeeps
  <2>4. CASE del[t].pc = "done" /\ DelTo(t, "failed") /\ UNCHANGED reg
    BY <2>1, <2>4, DelToKeeps
  <2>5. QED BY <1>6, <2>3, <2>4 DEF AnswerLost
<1>7. QED BY <1>1, <1>2, <1>3, <1>4, <1>5, <1>6 DEF CardPage

-----------------------------------------------------------------------------
(* The service                                                             *)

LEMMA UseCustomerKeeps ==
  ASSUME VaultInv, NEW t \in VaultTabs, customer # 0, UseCustomer(t, customer),
         UNCHANGED <<rows, customer, issued, vault, del, list, made, mishaps>>
  PROVE  VaultInv'
<1> DEFINE new == [reg[t] EXCEPT !.pc = "card", !.customer = customer]
<1>1. new \in RegTypes /\ new.pc = "card" /\ new.customer = customer
  BY DEF VaultInv, VaultTypes, RegTypes
<1>2. reg' = [reg EXCEPT ![t] = new]
  BY DEF UseCustomer, VaultInv, VaultTypes
<1>3. made' \in Nat /\ mishaps' \in Nat /\ list' \in [VaultTabs -> SUBSET (0 .. MaxCards)]
  BY DEF VaultInv, VaultTypes
<1> HIDE DEF new
<1>4. QED BY <1>1, <1>2, <1>3, RegMoves

LEMMA CustomerKeeps ==
  ASSUME VaultInv, NEW t \in VaultTabs,
         FindCustomer(t) \/ TakeLock(t) \/ LockTimesOut(t) \/ CheckCustomer(t) \/ CreateCustomer(t)
  PROVE  VaultInv'
<1>1. CASE FindCustomer(t) \/ TakeLock(t) \/ LockTimesOut(t) \/ CheckCustomer(t)
  <2>1. UNCHANGED <<rows, customer, issued, vault, del, list, made, mishaps>>
    BY <1>1 DEF FindCustomer, TakeLock, LockTimesOut, CheckCustomer, cardRows, gateway, cardPages
  <2>2. (customer # 0 /\ UseCustomer(t, customer)) \/ \E pc \in {"lock", "check", "create", "failed"} : RegTo(t, pc)
    BY <1>1 DEF FindCustomer, TakeLock, LockTimesOut, CheckCustomer
  <2>3. QED BY <2>1, <2>2, RegToKeeps, UseCustomerKeeps DEF VaultInv, VaultTypes
<1>2. CASE CreateCustomer(t)
  <2>0. UNCHANGED <<rows, customer, issued, vault, del, list>> /\ made \in Nat /\ mishaps \in Nat
    BY <1>2 DEF CreateCustomer, cardRows, cardPages, VaultInv, VaultTypes
  <2>1. CASE RegTo(t, "failed")
    <3>1. made' \in {made, made + 1} /\ mishaps' \in {mishaps, mishaps + 1}
      BY <1>2 DEF CreateCustomer, Mishap
    <3>2. QED BY <2>0, <2>1, <3>1, RegToKeeps
  <2>2. CASE /\ made' = made + 1 /\ UNCHANGED mishaps
             /\ reg' = [reg EXCEPT ![t].pc = "insert", ![t].customer = made + 1]
    <3> DEFINE new == [reg[t] EXCEPT !.pc = "insert", !.customer = made + 1]
    <3>0. made + 1 \in Nat /\ made + 1 # 0 /\ reg[t] \in RegTypes
      BY <2>0 DEF VaultInv, VaultTypes
    <3>1. new \in RegTypes /\ new.pc = "insert" /\ new.customer # 0
      BY <3>0 DEF RegTypes
    <3>2. reg' = [reg EXCEPT ![t] = new]
      BY <2>2 DEF VaultInv, VaultTypes
    <3>3. made' \in Nat /\ mishaps' \in Nat /\ list' \in [VaultTabs -> SUBSET (0 .. MaxCards)]
      BY <2>0, <2>2, <3>0 DEF VaultInv, VaultTypes
    <3> HIDE DEF new
    <3>4. QED BY <2>0, <2>2, <3>1, <3>2, <3>3, RegMoves
  <2>3. QED BY <1>2, <2>1, <2>2 DEF CreateCustomer
<1>3. QED BY <1>1, <1>2

\* The first row stays: whoever comes second uses its customer.
LEMMA InsertKeeps ==
  ASSUME VaultInv, NEW t \in VaultTabs, InsertCustomer(t)
  PROVE  VaultInv'
<1>0. /\ UNCHANGED <<rows, issued, vault, del, list, made>> /\ mishaps \in Nat /\ customer \in Nat
      /\ reg[t] \in RegTypes /\ reg[t].customer # 0
  BY DEF InsertCustomer, gateway, cardPages, VaultInv, VaultTypes, Known
<1>1. CASE Mishap /\ RegTo(t, "failed") /\ UNCHANGED customer
  BY <1>0, <1>1, RegToKeeps DEF Mishap, VaultInv, VaultTypes
<1>2. CASE /\ customer' = IF customer = 0 THEN reg[t].customer ELSE customer
           /\ UseCustomer(t, customer') /\ UNCHANGED mishaps
  <2>1. CASE customer # 0
    BY <1>0, <1>2, <2>1, UseCustomerKeeps
  <2>2. CASE customer = 0
    <3>1. \A u \in VaultTabs : reg[u].pc \notin {"card", "save"}
      BY <2>2 DEF VaultInv, Known
    <3> DEFINE new == [reg[t] EXCEPT !.pc = "card", !.customer = customer']
    <3>2. customer' = reg[t].customer /\ customer' # 0 /\ customer' \in Nat
      BY <1>0, <1>2, <2>2 DEF RegTypes
    <3>3. new \in RegTypes /\ new.pc = "card" /\ new.customer = customer'
      BY <1>0, <3>2 DEF RegTypes
    <3>4. \A u \in VaultTabs : reg'[u] = IF u = t THEN new ELSE reg[u]
      BY <1>2 DEF UseCustomer, VaultInv, VaultTypes
    <3>5. reg' \in [VaultTabs -> RegTypes]
      BY <1>2, <3>3 DEF UseCustomer, VaultInv, VaultTypes
    <3>6. VaultTypes'
      BY <1>0, <1>2, <3>2, <3>5 DEF VaultInv, VaultTypes
    <3>7. \A u \in VaultTabs : Known(u)' /\ Unsaved(u)' /\ Deleting(u)'
      BY <1>0, <3>1, <3>2, <3>3, <3>4 DEF VaultInv, Known, Unsaved, Deleting
    <3>8. Distinct'
      BY <3>1, <3>3, <3>4 DEF Distinct
    <3>9. rows' = {}
      BY <1>0, <2>2 DEF VaultInv
    <3>10. StoredIsAtGateway'
      BY <3>9 DEF StoredIsAtGateway
    <3>11. QED BY <3>6, <3>7, <3>8, <3>9, <3>10 DEF VaultInv
  <2>3. QED BY <2>1, <2>2
<1>3. QED BY <1>1, <1>2 DEF InsertCustomer

\* A new number is nobody's yet.
LEMMA RegisterCardKeeps ==
  ASSUME VaultInv, NEW t \in VaultTabs, RegisterCard(t)
  PROVE  VaultInv'
<1>0. /\ UNCHANGED <<rows, customer, made, del, list>> /\ mishaps \in Nat /\ issued \in 0 .. MaxCards
      /\ reg[t] \in RegTypes /\ reg[t].pc = "card" /\ customer # 0 /\ reg[t].customer = customer
  BY DEF RegisterCard, cardRows, cardPages, VaultInv, VaultTypes, Known
<1>1. CASE RegTo(t, "failed") /\ UNCHANGED <<vault, issued, mishaps>>
  BY <1>0, <1>1, RegToKeeps DEF VaultInv, VaultTypes
<1>2. ASSUME Issue(t), NEW new \in RegTypes, reg' = [reg EXCEPT ![t] = new], new.customer = customer,
             new.pc \in {"card", "failed"} \/ (new.pc = "save" /\ new.card = issued + 1),
             mishaps' \in {mishaps, mishaps + 1}
      PROVE  VaultInv'
  <2>1. issued' = issued + 1 /\ issued' \in 1 .. MaxCards /\ issued' \notin 1 .. issued
    BY <1>0, <1>2, VaultBounds DEF Issue
  <2>2. vault' \in [CardNumbers -> Nat] /\ vault'[issued'] = customer
        /\ \A c \in 1 .. issued : vault'[c] = vault[c]
    BY <1>0, <1>2, <2>1, VaultBounds DEF Issue, VaultInv, VaultTypes, CardNumbers
  <2>3. 1 .. issued \subseteq 1 .. issued'
    BY <1>0, <2>1
  <2>4. \A u \in VaultTabs : reg'[u] = IF u = t THEN new ELSE reg[u]
    BY <1>2 DEF VaultInv, VaultTypes
  <2>5. VaultTypes'
    BY <1>0, <1>2, <2>1, <2>2, <2>3 DEF VaultInv, VaultTypes
  <2>6. \A u \in VaultTabs : Known(u)' /\ Deleting(u)'
    BY <1>0, <1>2, <2>3, <2>4 DEF VaultInv, Known, Deleting
  <2>7. \A u \in VaultTabs : Unsaved(u)'
    <3>1. SUFFICES ASSUME NEW u \in VaultTabs PROVE Unsaved(u)'
      OBVIOUS
    <3>2. CASE u # t
      BY <1>0, <2>2, <2>3, <2>4, <3>2 DEF VaultInv, Unsaved
    <3>3. CASE u = t /\ new.pc = "save"
      <4>1. reg'[u] = new /\ new.card = issued'
        BY <1>2, <2>1, <2>4, <3>3
      <4>2. \A v \in VaultTabs : del[v].pc \in {"gateway", "drop"} => del[v].card # issued'
        BY <2>1 DEF VaultInv, Deleting
      <4>3. issued' \notin rows /\ issued' \in 1 .. issued'
        BY <2>1 DEF VaultInv, VaultTypes
      <4>4. QED BY <1>0, <2>2, <4>1, <4>2, <4>3 DEF Unsaved
    <3>4. CASE u = t /\ new.pc # "save"
      BY <2>4, <3>4 DEF Unsaved
    <3>5. QED BY <3>2, <3>3, <3>4
  <2>8. Distinct'
    <3>1. \A u \in VaultTabs : reg[u].pc = "save" => reg[u].card # issued'
      BY <2>1 DEF VaultInv, Unsaved
    <3>2. QED BY <1>2, <2>1, <2>4, <3>1 DEF VaultInv, Distinct
  <2>9. StoredIsAtGateway'
    BY <1>0, <1>2, <2>2 DEF VaultInv, VaultTypes, StoredIsAtGateway
  <2>10. QED BY <1>0, <2>5, <2>6, <2>7, <2>8, <2>9 DEF VaultInv
<1>3. CASE Issue(t) /\ reg' = [reg EXCEPT ![t].pc = "save", ![t].card = issued'] /\ UNCHANGED mishaps
  <2> DEFINE new == [reg[t] EXCEPT !.pc = "save", !.card = issued']
  <2>1. issued' = issued + 1 /\ issued' \in 0 .. MaxCards
    BY <1>0, <1>3, VaultBounds DEF Issue
  <2>2. new \in RegTypes /\ new.pc = "save" /\ new.card = issued + 1 /\ new.customer = customer
    BY <1>0, <2>1 DEF RegTypes
  <2>3. reg' = [reg EXCEPT ![t] = new]
    BY <1>3 DEF VaultInv, VaultTypes
  <2>4. QED BY <1>2, <1>3, <2>2, <2>3
<1>4. CASE Mishap /\ Issue(t) /\ UNCHANGED reg
  <2>1. reg' = [reg EXCEPT ![t] = reg[t]]
    BY <1>4 DEF VaultInv, VaultTypes
  <2>2. QED BY <1>0, <1>2, <1>4, <2>1 DEF Mishap
<1>5. CASE Mishap /\ Issue(t) /\ RegTo(t, "failed")
  <2> DEFINE new == [reg[t] EXCEPT !.pc = "failed"]
  <2>1. new \in RegTypes /\ new.pc = "failed" /\ new.customer = customer
    BY <1>0 DEF RegTypes
  <2>2. QED BY <1>2, <1>5, <2>1 DEF Mishap, RegTo
<1>6. QED BY <1>1, <1>3, <1>4, <1>5 DEF RegisterCard

LEMMA SaveKeeps ==
  ASSUME VaultInv, NEW t \in VaultTabs, SaveCard(t)
  PROVE  VaultInv'
<1> DEFINE c == reg[t].card
<1>0. /\ UNCHANGED <<customer, issued, vault, made, del, list>> /\ mishaps \in Nat
      /\ reg[t] \in RegTypes /\ reg[t].pc = "save" /\ customer # 0
      /\ c \in 1 .. issued /\ vault[c] = customer
  BY DEF SaveCard, gateway, cardPages, VaultInv, VaultTypes, Known, Unsaved
<1>1. CASE Mishap /\ RegTo(t, "failed") /\ UNCHANGED rows
  BY <1>0, <1>1, RegToKeeps DEF Mishap, VaultInv, VaultTypes
<1>2. CASE rows' = rows \cup {c} /\ RegTo(t, "done") /\ UNCHANGED mishaps
  <2> DEFINE new == [reg[t] EXCEPT !.pc = "done"]
  <2>1. new \in RegTypes /\ new.pc = "done"
    BY <1>0 DEF RegTypes
  <2>2. (\A u \in VaultTabs : reg'[u] = IF u = t THEN new ELSE reg[u]) /\ reg' \in [VaultTabs -> RegTypes]
    BY <1>2, <2>1 DEF RegTo, VaultInv, VaultTypes
  <2>3. VaultTypes'
    BY <1>0, <1>2, <2>2 DEF VaultInv, VaultTypes
  <2>4. \A u \in VaultTabs : Known(u)' /\ Deleting(u)'
    BY <1>0, <2>1, <2>2 DEF VaultInv, Known, Deleting
  <2>5. \A u \in VaultTabs : u # t /\ reg[u].pc = "save" => reg[u].card # c
    BY <1>0 DEF VaultInv, Distinct
  <2>6. \A u \in VaultTabs : Unsaved(u)'
    <3>1. SUFFICES ASSUME NEW u \in VaultTabs, reg'[u].pc = "save" PROVE Unsaved(u)'
      BY DEF Unsaved
    <3>2. u # t /\ reg'[u] = reg[u]
      BY <2>1, <2>2, <3>1
    <3>3. Unsaved(u) /\ reg[u].card # c
      BY <2>5, <3>1, <3>2 DEF VaultInv
    <3>4. QED BY <1>0, <1>2, <3>1, <3>2, <3>3 DEF Unsaved
  <2>7. Distinct'
    BY <2>1, <2>2 DEF VaultInv, Distinct
  <2>8. StoredIsAtGateway'
    BY <1>0, <1>2 DEF VaultInv, StoredIsAtGateway
  <2>9. QED BY <1>0, <2>3, <2>4, <2>6, <2>7, <2>8 DEF VaultInv
<1>3. QED BY <1>1, <1>2 DEF SaveCard

-----------------------------------------------------------------------------
(* deleteCard                                                              *)

LEMMA FindCardKeeps ==
  ASSUME VaultInv, NEW t \in VaultTabs, FindCard(t)
  PROVE  VaultInv'
<1> DEFINE pc == IF del[t].card \in rows THEN "gateway" ELSE "failed"
<1>1. pc \in {"failed", "gateway"} /\ (pc = "gateway" => del[t].card \in rows)
  OBVIOUS
<1>2. DelTo(t, pc) /\ del[t].pc # "drop"
  BY DEF FindCard
<1>3. UNCHANGED <<rows, customer, issued, vault, reg, made, list, mishaps>> /\ mishaps' \in Nat
  BY DEF FindCard, cardRows, gateway, cardPages, VaultInv, VaultTypes
<1> HIDE DEF pc
<1>4. QED BY <1>1, <1>2, <1>3, DelToKeeps

\* From the gateway on no registration is about to save the card.
LEMMA DeleteKeeps ==
  ASSUME VaultInv, NEW t \in VaultTabs, DeleteAtGateway(t)
  PROVE  VaultInv'
<1> DEFINE c == del[t].card
<1>0. /\ UNCHANGED <<rows, customer, made, issued, reg, list>> /\ mishaps \in Nat
      /\ del[t] \in DelTypes /\ del[t].pc = "gateway" /\ c \in 1 .. issued
  BY DEF DeleteAtGateway, cardRows, cardPages, VaultInv, VaultTypes, Deleting
<1>1. ASSUME NEW new \in DelTypes, del' = [del EXCEPT ![t] = new], new.card = c, new.pc \in {"drop", "failed"},
             vault' \in {vault, [vault EXCEPT ![c] = 0]}, mishaps' \in {mishaps, mishaps + 1},
             mishaps' > 0 \/ new.pc = "drop" \/ vault' = vault
      PROVE  VaultInv'
  <2>1. \A u \in VaultTabs : del'[u] = IF u = t THEN new ELSE del[u]
    BY <1>1 DEF VaultInv, VaultTypes
  <2>2. vault' \in [CardNumbers -> Nat] /\ \A d \in CardNumbers : vault'[d] = vault[d] \/ (d = c /\ vault'[d] = 0)
    BY <1>1 DEF VaultInv, VaultTypes
  <2>3. VaultTypes'
    BY <1>0, <1>1, <2>2 DEF VaultInv, VaultTypes
  <2>4. \A u \in VaultTabs : Known(u)' /\ Deleting(u)'
    BY <1>0, <1>1, <2>1 DEF VaultInv, Known, Deleting
  <2>5. 1 .. issued \subseteq CardNumbers
    BY VaultBounds DEF VaultInv, VaultTypes, CardNumbers
  <2>6. \A u \in VaultTabs : Unsaved(u)'
    BY <1>0, <1>1, <2>1, <2>2, <2>5 DEF VaultInv, Unsaved
  <2>7. StoredIsAtGateway'
    <3>1. SUFFICES ASSUME NEW d \in rows
          PROVE  \/ vault'[d] = customer
                 \/ vault'[d] = 0 /\ (mishaps' > 0 \/ \E u \in VaultTabs : del'[u] = [pc |-> "drop", card |-> d])
      BY <1>0 DEF StoredIsAtGateway
    <3>2. d \in CardNumbers
      BY <2>5 DEF VaultInv, VaultTypes
    <3>3. CASE d = c /\ vault' # vault
      <4>1. vault'[d] = 0
        BY <1>0, <1>1, <2>5, <3>3 DEF VaultInv, VaultTypes
      <4>2. CASE mishaps' > 0
        BY <4>1, <4>2
      <4>3. CASE new.pc = "drop"
        <5>1. new = [pc |-> "drop", card |-> d]
          BY <1>1, <3>3, <4>3 DEF DelTypes
        <5>2. QED BY <2>1, <4>1, <5>1
      <4>4. QED BY <1>1, <3>3, <4>2, <4>3
    <3>4. CASE vault'[d] = vault[d]
      <4>1. CASE vault[d] = customer
        BY <3>4, <4>1
      <4>2. CASE vault[d] = 0 /\ mishaps > 0
        BY <1>0, <1>1, <3>4, <4>2
      <4>3. ASSUME vault[d] = 0, NEW u \in VaultTabs, del[u] = [pc |-> "drop", card |-> d]
            PROVE  vault'[d] = 0 /\ \E v \in VaultTabs : del'[v] = [pc |-> "drop", card |-> d]
        BY <1>0, <2>1, <3>4, <4>3
      <4>4. QED BY <4>1, <4>2, <4>3 DEF VaultInv, StoredIsAtGateway
    <3>5. QED BY <2>2, <3>2, <3>3, <3>4
  <2>8. QED BY <1>0, <2>3, <2>4, <2>6, <2>7 DEF VaultInv, Distinct
<1>2. ASSUME NEW pc \in {"drop", "failed"}, DelTo(t, pc)
      PROVE  \E new \in DelTypes : del' = [del EXCEPT ![t] = new] /\ new.card = c /\ new.pc = pc
  <2> DEFINE new == [del[t] EXCEPT !.pc = pc]
  <2>1. new \in DelTypes /\ new.card = c /\ new.pc = pc
    BY <1>0 DEF DelTypes
  <2>2. QED BY <1>2, <2>1 DEF DelTo
<1>3. CASE vault' = [vault EXCEPT ![c] = 0] /\ DelTo(t, "drop") /\ UNCHANGED mishaps
  BY <1>1, <1>2, <1>3
<1>4. CASE DelTo(t, "failed") /\ UNCHANGED <<vault, mishaps>>
  BY <1>1, <1>2, <1>4
<1>5. CASE Mishap /\ vault' \in {vault, [vault EXCEPT ![c] = 0]} /\ DelTo(t, "failed")
  <2>1. mishaps' = mishaps + 1 /\ mishaps' > 0
    BY <1>0, <1>5 DEF Mishap
  <2>2. QED BY <1>1, <1>2, <1>5, <2>1
<1>6. QED BY <1>3, <1>4, <1>5 DEF DeleteAtGateway

LEMMA DropKeeps ==
  ASSUME VaultInv, NEW t \in VaultTabs, DropCard(t)
  PROVE  VaultInv'
<1> DEFINE c == del[t].card
<1>0. /\ UNCHANGED <<customer, made, issued, vault, reg, list>> /\ mishaps \in Nat
      /\ del[t] \in DelTypes /\ del[t].pc = "drop"
  BY DEF DropCard, gateway, cardPages, VaultInv, VaultTypes
<1>1. ASSUME NEW new \in DelTypes, del' = [del EXCEPT ![t] = new], new.pc \in {"done", "failed"},
             rows' \subseteq rows, c \in rows' => mishaps' > 0, mishaps' \in {mishaps, mishaps + 1}
      PROVE  VaultInv'
  <2>1. \A u \in VaultTabs : del'[u] = IF u = t THEN new ELSE del[u]
    BY <1>1 DEF VaultInv, VaultTypes
  <2>2. VaultTypes'
    BY <1>0, <1>1 DEF VaultInv, VaultTypes
  <2>3. \A u \in VaultTabs : Known(u)' /\ Unsaved(u)' /\ Deleting(u)'
    BY <1>0, <1>1, <2>1 DEF VaultInv, Known, Unsaved, Deleting
  <2>4. StoredIsAtGateway'
    <3>1. SUFFICES ASSUME NEW d \in rows', ~(vault[d] = customer)
          PROVE  vault[d] = 0 /\ (mishaps' > 0 \/ \E u \in VaultTabs : del'[u] = [pc |-> "drop", card |-> d])
      BY <1>0 DEF StoredIsAtGateway
    <3>2. vault[d] = 0 /\ (mishaps > 0 \/ \E u \in VaultTabs : del[u] = [pc |-> "drop", card |-> d])
      BY <1>1, <3>1 DEF VaultInv, StoredIsAtGateway
    <3>3. CASE mishaps > 0
      BY <1>0, <1>1, <3>2, <3>3
    <3>4. ASSUME NEW u \in VaultTabs, del[u] = [pc |-> "drop", card |-> d]
          PROVE  mishaps' > 0 \/ del'[u] = [pc |-> "drop", card |-> d]
      BY <1>1, <2>1, <3>1, <3>4
    <3>5. QED BY <3>2, <3>3, <3>4
  <2>5. QED BY <1>0, <1>1, <2>2, <2>3, <2>4 DEF VaultInv, Distinct
<1>2. ASSUME NEW pc \in {"done", "failed"}, DelTo(t, pc)
      PROVE  \E new \in DelTypes : del' = [del EXCEPT ![t] = new] /\ new.pc = pc
  <2> DEFINE new == [del[t] EXCEPT !.pc = pc]
  <2>1. new \in DelTypes /\ new.pc = pc
    BY <1>0 DEF DelTypes
  <2>2. QED BY <1>2, <2>1 DEF DelTo
<1>3. CASE rows' = rows \ {c} /\ DelTo(t, "done") /\ UNCHANGED mishaps
  BY <1>1, <1>2, <1>3
<1>4. CASE Mishap /\ DelTo(t, "failed") /\ UNCHANGED rows
  <2>1. mishaps' = mishaps + 1 /\ mishaps' > 0
    BY <1>0, <1>4 DEF Mishap
  <2>2. QED BY <1>1, <1>2, <1>4, <2>1
<1>5. QED BY <1>3, <1>4 DEF DropCard

-----------------------------------------------------------------------------
LEMMA VaultStep == VaultInv /\ [VaultNext]_vaultVars => VaultInv'
<1>1. SUFFICES ASSUME VaultInv, [VaultNext]_vaultVars PROVE VaultInv'
  OBVIOUS
<1>2. CASE LockExpires \/ UNCHANGED vaultVars
  <2>1. UNCHANGED <<rows, customer, issued, vault, reg, del, made, list, mishaps>>
    BY <1>2 DEF LockExpires, vaultVars, cardRows, gateway, cardPages
  <2>2. VaultTypes' /\ (rows' # {} => customer' # 0) /\ Distinct'
    BY <1>1, <2>1 DEF VaultInv, VaultTypes, Distinct
  <2>3. \A t \in VaultTabs : Known(t)' /\ Unsaved(t)' /\ Deleting(t)'
    BY <1>1, <2>1 DEF VaultInv, Known, Unsaved, Deleting
  <2>4. StoredIsAtGateway'
    BY <1>1, <2>1 DEF VaultInv, StoredIsAtGateway
  <2>5. QED BY <2>2, <2>3, <2>4 DEF VaultInv
<1>3. ASSUME NEW t \in VaultTabs, CardService(t) PROVE VaultInv'
  BY <1>1, <1>3, CustomerKeeps, InsertKeeps, RegisterCardKeeps, SaveKeeps, FindCardKeeps, DeleteKeeps, DropKeeps
     DEF CardService
<1>4. QED BY <1>1, <1>2, <1>3, PageKeeps DEF VaultNext

\* Every row of ours has its card at the gateway, with the customer we know,
\* however tabs overlap and the lock expires; except while it is being deleted,
\* or after an answer was lost or a write failed (FincodeCustomerService).
THEOREM NeverACardWeLost == VaultSpec => []StoredIsAtGateway
<1>1. VaultInv => StoredIsAtGateway
  BY DEF VaultInv
<1>2. QED BY <1>1, VaultStarts, VaultStep, PTL DEF VaultSpec

-----------------------------------------------------------------------------
(* What a page shows.  A tab that nobody has interfered with follows the     *)
(* rows, behind by its own steps that are done and not yet settled.         *)

Saved(t)   == IF reg[t].pc = "done" THEN {reg[t].card} ELSE {}
Dropped(t) == IF del[t].pc = "done" THEN {del[t].card} ELSE {}
InSight(t) == t \notin elsewhere /\ mishaps = 0

\* A page registers cards it does not list and deletes those it does.
Numbered ==
    \A t \in VaultTabs :
        /\ list[t] \subseteq 1 .. issued
        /\ reg[t].pc \in {"save", "done"} => reg[t].card \in 1 .. issued /\ reg[t].card \notin list[t]
        /\ del[t].pc # "idle" => del[t].card \in list[t]

ListFollows ==
    \A t \in VaultTabs : InSight(t) => /\ list[t] = (rows \ Saved(t)) \cup Dropped(t)
                                       /\ Saved(t) \subseteq rows /\ Dropped(t) \cap rows = {}

\* A new main card replaces the mark; any other clears it, and the page knows.
MainFollows ==
    \A t \in VaultTabs : InSight(t) =>
        IF reg[t].pc = "done" /\ reg[t].asMain THEN main = {reg[t].card}
        ELSE t \in demoted \/ main = listMain[t] \ Dropped(t)

OneMain == main \subseteq rows /\ \A c, d \in main : c = d

MarksTyped == listMain \in [VaultTabs -> SUBSET Nat]

ShownInv == VaultInv /\ MarksTyped /\ Numbered /\ ListFollows /\ MainFollows /\ OneMain

LEMMA ShownStarts == VaultInit => ShownInv
<1>1. SUFFICES ASSUME VaultInit PROVE ShownInv
  OBVIOUS
<1>2. \A t \in VaultTabs : reg[t].pc = "idle" /\ del[t].pc = "idle" /\ list[t] = {} /\ listMain[t] = {}
  BY <1>1 DEF VaultInit, NoReg, NoDel
<1>3. rows = {} /\ main = {} /\ MarksTyped
  BY <1>1 DEF VaultInit, MarksTyped
<1>4. Numbered
  BY <1>2 DEF Numbered
<1>5. ListFollows /\ MainFollows /\ OneMain
  BY <1>2, <1>3 DEF ListFollows, MainFollows, OneMain, Saved, Dropped
<1>6. QED BY <1>1, <1>3, <1>4, <1>5, VaultStarts DEF ShownInv

\* A registration takes a step that changes no row and is settled later or never.
LEMMA RegMovesShown ==
  ASSUME ShownInv, VaultInv', NEW t \in VaultTabs, NEW new \in RegTypes, reg' = [reg EXCEPT ![t] = new],
         new.pc # "done", reg[t].pc # "done" \/ mishaps' > 0,
         new.pc = "save" => new.card \in 1 .. issued' /\ new.card \notin list[t],
         1 .. issued \subseteq 1 .. issued', mishaps' = 0 => mishaps = 0,
         UNCHANGED <<rows, main, list, listMain, del, elsewhere, demoted>>
  PROVE  ShownInv'
<1>1. \A u \in VaultTabs : reg'[u] = IF u = t THEN new ELSE reg[u]
  BY DEF ShownInv, VaultInv, VaultTypes
<1>2. Numbered'
  BY <1>1 DEF ShownInv, Numbered
<1>3. mishaps' \in Nat
  BY DEF VaultInv, VaultTypes
<1>4. \A u \in VaultTabs : InSight(u)' => InSight(u) /\ Saved(u)' = Saved(u) /\ Dropped(u)' = Dropped(u)
                                        /\ (u = t => reg[u].pc # "done" /\ reg'[u].pc # "done")
  BY <1>1, <1>3 DEF InSight, Saved, Dropped
<1>5. ListFollows'
  BY <1>4 DEF ShownInv, ListFollows
<1>6. MainFollows'
  BY <1>1, <1>4 DEF ShownInv, MainFollows
<1>7. QED BY <1>2, <1>5, <1>6 DEF ShownInv, MarksTyped, OneMain

\* A deletion takes a step that changes no row and is settled later or never.
LEMMA DelMovesShown ==
  ASSUME ShownInv, VaultInv', NEW t \in VaultTabs, NEW new, del' = [del EXCEPT ![t] = new],
         new.pc # "done", del[t].pc # "done" \/ mishaps' > 0, new.pc # "idle" => new.card \in list[t],
         mishaps' = 0 => mishaps = 0,
         UNCHANGED <<rows, main, issued, list, listMain, reg, elsewhere, demoted>>
  PROVE  ShownInv'
<1>1. \A u \in VaultTabs : del'[u] = IF u = t THEN new ELSE del[u]
  BY DEF ShownInv, VaultInv, VaultTypes
<1>2. Numbered'
  BY <1>1 DEF ShownInv, Numbered
<1>3. mishaps' \in Nat
  BY DEF VaultInv, VaultTypes
<1>4. \A u \in VaultTabs : InSight(u)' => InSight(u) /\ Saved(u)' = Saved(u) /\ Dropped(u)' = Dropped(u)
  BY <1>1, <1>3 DEF InSight, Saved, Dropped
<1>5. ListFollows' /\ MainFollows'
  BY <1>4 DEF ShownInv, ListFollows, MainFollows
<1>6. QED BY <1>2, <1>5 DEF ShownInv, MarksTyped, OneMain

-----------------------------------------------------------------------------
(* The page                                                                *)

LEMMA OpenShown ==
  ASSUME ShownInv, VaultInv', NEW t \in VaultTabs, OpenCards(t)
  PROVE  ShownInv'
<1>1. /\ reg[t].pc = "idle" /\ del[t].pc = "idle" /\ list' = [list EXCEPT ![t] = rows]
      /\ listMain' = [listMain EXCEPT ![t] = main]
      /\ elsewhere' = elsewhere \ {t} /\ demoted' = demoted \ {t}
      /\ UNCHANGED <<rows, main, issued, reg, del, mishaps>>
  BY DEF OpenCards, cardRows, gateway, NoReg, NoDel
<1>2. rows \subseteq 1 .. issued /\ main \subseteq rows
  BY DEF ShownInv, VaultInv, VaultTypes, OneMain
<1>3. main \in SUBSET Nat
  BY <1>2
<1>4. \A u \in VaultTabs : /\ list'[u] = IF u = t THEN rows ELSE list[u]
                           /\ listMain'[u] = IF u = t THEN main ELSE listMain[u]
  BY <1>1 DEF ShownInv, VaultInv, VaultTypes, MarksTyped
<1>5. MarksTyped'
  BY <1>1, <1>3 DEF ShownInv, MarksTyped
<1>6. Numbered'
  BY <1>1, <1>2, <1>4 DEF ShownInv, Numbered
<1>7. \A u \in VaultTabs : Saved(u)' = Saved(u) /\ Dropped(u)' = Dropped(u) /\ (u # t => InSight(u)' = InSight(u))
  BY <1>1 DEF Saved, Dropped, InSight
<1>8. Saved(t) = {} /\ Dropped(t) = {}
  BY <1>1 DEF Saved, Dropped
<1>9. ListFollows'
  BY <1>1, <1>4, <1>7, <1>8 DEF ShownInv, ListFollows
<1>10. MainFollows'
  BY <1>1, <1>4, <1>7, <1>8 DEF ShownInv, MainFollows
<1>11. QED BY <1>1, <1>5, <1>6, <1>9, <1>10 DEF ShownInv, OneMain

LEMMA SettleRegisterShown ==
  ASSUME ShownInv, VaultInv', NEW t \in VaultTabs, SettleRegister(t)
  PROVE  ShownInv'
<1>1. /\ reg[t].pc \in {"done", "failed"} /\ reg' = [reg EXCEPT ![t] = NoReg]
      /\ UNCHANGED <<rows, main, issued, del, elsewhere, mishaps>>
  BY DEF SettleRegister, cardRows, gateway
<1>2. \A u \in VaultTabs : reg'[u] = IF u = t THEN NoReg ELSE reg[u]
  BY <1>1 DEF ShownInv, VaultInv, VaultTypes
<1>3. \A u \in VaultTabs : Dropped(u)' = Dropped(u) /\ InSight(u)' = InSight(u) /\ (u # t => Saved(u)' = Saved(u))
  BY <1>1, <1>2 DEF Saved, Dropped, InSight
<1>4. Saved(t)' = {} /\ NoReg.pc = "idle"
  BY <1>1, <1>2 DEF Saved, NoReg
<1>5. CASE reg[t].pc = "failed"
  <2>1. UNCHANGED <<list, listMain, demoted>> /\ Saved(t) = {}
    BY <1>5 DEF SettleRegister, cardPages, Saved
  <2>2. Numbered'
    BY <1>1, <1>2, <1>4, <2>1 DEF ShownInv, Numbered
  <2>3. ListFollows' /\ MainFollows'
    BY <1>1, <1>2, <1>3, <1>4, <1>5, <2>1 DEF ShownInv, ListFollows, MainFollows
  <2>4. QED BY <1>1, <2>1, <2>2, <2>3 DEF ShownInv, MarksTyped, OneMain
<1>6. CASE reg[t].pc = "done"
  <2> DEFINE c == reg[t].card
             marks == IF reg[t].asMain THEN {c} ELSE {}
  <2>1. /\ list' = [list EXCEPT ![t] = @ \cup {c}] /\ listMain' = [listMain EXCEPT ![t] = marks]
        /\ demoted' = IF ~reg[t].asMain /\ listMain[t] # {} THEN demoted \cup {t} ELSE demoted
    BY <1>6 DEF SettleRegister
  <2>2. c \in 1 .. issued /\ c \notin list[t] /\ Saved(t) = {c} /\ (del[t].pc # "idle" => del[t].card \in list[t])
    BY <1>6 DEF ShownInv, Numbered, Saved
  <2>3. \A u \in VaultTabs : /\ list'[u] = IF u = t THEN list[t] \cup {c} ELSE list[u]
                             /\ listMain'[u] = IF u = t THEN marks ELSE listMain[u]
    BY <2>1 DEF ShownInv, VaultInv, VaultTypes, MarksTyped
  <2>4. c \in Nat
    BY <2>2
  <2>5. MarksTyped'
    BY <2>1, <2>4 DEF ShownInv, MarksTyped
  <2>6. Numbered'
    BY <1>1, <1>2, <1>4, <2>2, <2>3 DEF ShownInv, Numbered
  <2>7. ListFollows'
    BY <1>1, <1>3, <1>4, <2>2, <2>3 DEF ShownInv, ListFollows
  <2>8. c \notin Dropped(t)
    BY <2>2 DEF Dropped
  <2>9. MainFollows'
    <3>1. SUFFICES ASSUME NEW u \in VaultTabs, InSight(u)
                   PROVE  IF reg'[u].pc = "done" /\ reg'[u].asMain THEN main = {reg'[u].card}
                          ELSE u \in demoted' \/ main = listMain'[u] \ Dropped(u)
      BY <1>1, <1>3 DEF MainFollows
    <3>2. CASE u # t
      BY <1>2, <2>1, <2>3, <3>1, <3>2 DEF ShownInv, MainFollows
    <3>3. CASE u = t /\ reg[t].asMain
      <4>1. main = {c}
        BY <1>6, <3>1, <3>3 DEF ShownInv, MainFollows
      <4>2. main = listMain'[u] \ Dropped(u)
        BY <2>3, <2>8, <3>3, <4>1
      <4>3. QED BY <1>2, <1>4, <3>3, <4>2
    <3>4. CASE u = t /\ ~reg[t].asMain
      BY <1>2, <1>4, <2>1, <2>3, <3>1, <3>4 DEF ShownInv, MainFollows
    <3>5. QED BY <3>2, <3>3, <3>4
  <2>10. QED BY <1>1, <2>5, <2>6, <2>7, <2>9 DEF ShownInv, OneMain
<1>7. QED BY <1>1, <1>5, <1>6

LEMMA SettleDeleteShown ==
  ASSUME ShownInv, VaultInv', NEW t \in VaultTabs, SettleDelete(t)
  PROVE  ShownInv'
<1>1. /\ del[t].pc \in {"done", "failed"} /\ del' = [del EXCEPT ![t] = NoDel]
      /\ UNCHANGED <<rows, main, issued, reg, elsewhere, demoted, mishaps>>
  BY DEF SettleDelete, cardRows, gateway
<1>2. CASE del[t].pc = "failed"
  <2>1. NoDel.pc = "idle" /\ UNCHANGED <<list, listMain>>
    BY <1>2 DEF SettleDelete, NoDel, cardPages
  <2>2. QED BY <1>1, <1>2, <2>1, DelMovesShown
<1>3. CASE del[t].pc = "done"
  <2> DEFINE c == del[t].card
  <2>1. list' = [list EXCEPT ![t] = @ \ {c}] /\ listMain' = [listMain EXCEPT ![t] = @ \ {c}]
    BY <1>3 DEF SettleDelete
  <2>2. \A u \in VaultTabs : /\ del'[u] = IF u = t THEN NoDel ELSE del[u]
                             /\ list'[u] = IF u = t THEN list[t] \ {c} ELSE list[u]
                             /\ listMain'[u] = IF u = t THEN listMain[t] \ {c} ELSE listMain[u]
    BY <1>1, <2>1 DEF ShownInv, VaultInv, VaultTypes, MarksTyped
  <2>3. \A u \in VaultTabs : Saved(u)' = Saved(u) /\ InSight(u)' = InSight(u) /\ (u # t => Dropped(u)' = Dropped(u))
    BY <1>1, <2>2 DEF Saved, Dropped, InSight
  <2>4. Dropped(t) = {c} /\ Dropped(t)' = {} /\ NoDel.pc = "idle"
    BY <1>3, <2>2 DEF Dropped, NoDel
  <2>5. MarksTyped'
    BY <2>1 DEF ShownInv, MarksTyped
  <2>6. Numbered'
    BY <1>1, <2>2, <2>4 DEF ShownInv, Numbered
  <2>7. ListFollows'
    BY <1>1, <2>2, <2>3, <2>4 DEF ShownInv, ListFollows
  <2>8. MainFollows'
    BY <1>1, <2>2, <2>3, <2>4 DEF ShownInv, MainFollows
  <2>9. QED BY <1>1, <2>5, <2>6, <2>7, <2>8 DEF ShownInv, OneMain
<1>4. QED BY <1>1, <1>2, <1>3

\* The steps that only change where a registration or a deletion is.
LEMMA RegToShown ==
  ASSUME ShownInv, VaultInv', NEW t \in VaultTabs, NEW pc \in {"lock", "check", "create", "card", "failed"}, RegTo(t, pc),
         reg[t].pc # "done" \/ mishaps' > 0, 1 .. issued \subseteq 1 .. issued', mishaps' = 0 => mishaps = 0,
         UNCHANGED <<rows, main, list, listMain, del, elsewhere, demoted>>
  PROVE  ShownInv'
<1> DEFINE new == [reg[t] EXCEPT !.pc = pc]
<1>1. new \in RegTypes /\ new.pc = pc
  BY DEF ShownInv, VaultInv, VaultTypes, RegTypes
<1>2. reg' = [reg EXCEPT ![t] = new]
  BY DEF RegTo
<1> HIDE DEF new
<1>3. QED BY <1>1, <1>2, RegMovesShown

LEMMA DelToShown ==
  ASSUME ShownInv, VaultInv', NEW t \in VaultTabs, NEW pc \in {"gateway", "drop", "failed"}, DelTo(t, pc),
         del[t].pc # "idle", del[t].pc # "done" \/ mishaps' > 0, mishaps' = 0 => mishaps = 0,
         UNCHANGED <<rows, main, issued, list, listMain, reg, elsewhere, demoted>>
  PROVE  ShownInv'
<1> DEFINE new == [del[t] EXCEPT !.pc = pc]
<1>1. new.pc = pc /\ new.card = del[t].card
  BY DEF ShownInv, VaultInv, VaultTypes, DelTypes
<1>2. del' = [del EXCEPT ![t] = new] /\ del[t].card \in list[t]
  BY DEF DelTo, ShownInv, Numbered
<1> HIDE DEF new
<1>3. QED BY <1>1, <1>2, DelMovesShown

LEMMA PageShown ==
  ASSUME ShownInv, VaultInv', NEW t \in VaultTabs, CardPage(t) \/ AnswerLost(t)
  PROVE  ShownInv'
<1>1. CASE Register(t)
  <2>1. PICK asMain \in BOOLEAN : reg' = [reg EXCEPT ![t] = [NoReg EXCEPT !.pc = "find", !.asMain = asMain]]
    BY <1>1 DEF Register
  <2> DEFINE new == [NoReg EXCEPT !.pc = "find", !.asMain = asMain]
  <2>2. NoReg \in RegTypes
    BY VaultBounds DEF NoReg, RegTypes
  <2>3. new \in RegTypes /\ new.pc = "find"
    BY <2>2 DEF RegTypes
  <2>4. reg' = [reg EXCEPT ![t] = new]
    BY <2>1
  <2>5. UNCHANGED <<rows, main, list, listMain, del, elsewhere, demoted, issued, mishaps>>
    BY <1>1 DEF Register, cardRows, gateway, cardPages
  <2> HIDE DEF new
  <2>6. reg[t].pc = "idle"
    BY <1>1 DEF Register, NoReg
  <2>7. QED BY <2>3, <2>4, <2>5, <2>6, RegMovesShown
<1>2. CASE Delete(t)
  <2>1. PICK c \in list[t] : del' = [del EXCEPT ![t] = [pc |-> "sent", card |-> c]]
    BY <1>2 DEF Delete
  <2>2. UNCHANGED <<rows, main, issued, list, listMain, reg, elsewhere, demoted, mishaps>> /\ del[t].pc = "idle"
    BY <1>2 DEF Delete, cardRows, gateway, cardPages, NoDel
  <2> DEFINE new == [pc |-> "sent", card |-> c]
  <2>3. del' = [del EXCEPT ![t] = new] /\ new.pc = "sent" /\ new.card = c
    BY <2>1
  <2> HIDE DEF new
  <2>4. QED BY <2>2, <2>3, DelMovesShown
<1>3. CASE AnswerLost(t)
  <2>1. UNCHANGED <<rows, main, issued, list, listMain, elsewhere, demoted>>
    BY <1>3 DEF AnswerLost, cardRows, gateway, cardPages
  <2>2. mishaps' > 0 /\ (mishaps' = 0 => mishaps = 0)
    BY <1>3 DEF AnswerLost, Mishap, ShownInv, VaultInv, VaultTypes
  <2>3. CASE RegTo(t, "failed") /\ UNCHANGED del
    BY <2>1, <2>2, <2>3, RegToShown
  <2>4. CASE del[t].pc = "done" /\ DelTo(t, "failed") /\ UNCHANGED reg
    BY <2>1, <2>2, <2>4, DelToShown
  <2>5. QED BY <1>3, <2>3, <2>4 DEF AnswerLost
<1>4. QED BY <1>1, <1>2, <1>3, OpenShown, SettleRegisterShown, SettleDeleteShown DEF CardPage

-----------------------------------------------------------------------------
(* The service                                                             *)

LEMMA CustomerShown ==
  ASSUME ShownInv, VaultInv', NEW t \in VaultTabs,
         \/ FindCustomer(t) \/ TakeLock(t) \/ LockTimesOut(t) \/ CheckCustomer(t) \/ CreateCustomer(t)
         \/ InsertCustomer(t)
  PROVE  ShownInv'
<1>1. UNCHANGED <<rows, main, issued, list, listMain, del, elsewhere, demoted>>
  BY DEF FindCustomer, TakeLock, LockTimesOut, CheckCustomer, CreateCustomer, InsertCustomer, cardRows, gateway, cardPages
<1>2. reg[t].pc # "done" /\ (mishaps' = 0 => mishaps = 0)
  BY DEF FindCustomer, TakeLock, LockTimesOut, CheckCustomer, CreateCustomer, InsertCustomer, Mishap,
     ShownInv, VaultInv, VaultTypes
<1>3. PICK new : reg' = [reg EXCEPT ![t] = new] /\ new.pc \in {"lock", "check", "create", "insert", "card", "failed"}
  <2>1. reg[t] \in RegTypes
    BY DEF ShownInv, VaultInv, VaultTypes
  <2>2. CASE \E pc \in {"lock", "check", "create", "failed"} : RegTo(t, pc)
    BY <2>1, <2>2 DEF RegTo, RegTypes
  <2>3. CASE \E id : UseCustomer(t, id)
    <3>1. PICK id : reg' = [reg EXCEPT ![t].pc = "card", ![t].customer = id]
      BY <2>3 DEF UseCustomer
    <3> DEFINE new == [reg[t] EXCEPT !.pc = "card", !.customer = id]
    <3>2. reg' = [reg EXCEPT ![t] = new] /\ new.pc = "card"
      BY <2>1, <3>1 DEF RegTypes
    <3>3. QED BY <3>2
  <2>4. CASE reg' = [reg EXCEPT ![t].pc = "insert", ![t].customer = made + 1]
    <3> DEFINE new == [reg[t] EXCEPT !.pc = "insert", !.customer = made + 1]
    <3>1. reg' = [reg EXCEPT ![t] = new] /\ new.pc = "insert"
      BY <2>1, <2>4 DEF RegTypes
    <3>2. QED BY <3>1
  <2>5. QED BY <2>2, <2>3, <2>4
            DEF FindCustomer, TakeLock, LockTimesOut, CheckCustomer, CreateCustomer, InsertCustomer
<1>4. new \in RegTypes
  BY <1>3 DEF ShownInv, VaultInv, VaultTypes
<1>5. QED BY <1>1, <1>2, <1>3, <1>4, RegMovesShown

\* The gateway's next number is on no page.
LEMMA RegisterCardShown ==
  ASSUME ShownInv, VaultInv', NEW t \in VaultTabs, RegisterCard(t)
  PROVE  ShownInv'
<1>1. /\ UNCHANGED <<rows, main, list, listMain, del, elsewhere, demoted>> /\ reg[t].pc = "card"
      /\ reg[t] \in RegTypes /\ issued \in Nat /\ mishaps \in Nat
  BY DEF RegisterCard, cardRows, cardPages, ShownInv, VaultInv, VaultTypes
<1>2. (issued' = issued \/ issued' = issued + 1) /\ mishaps' \in {mishaps, mishaps + 1}
  BY DEF RegisterCard, Issue, Mishap
<1>3. 1 .. issued \subseteq 1 .. issued' /\ (mishaps' = 0 => mishaps = 0)
  BY <1>1, <1>2
<1>4. CASE RegTo(t, "failed")
  BY <1>1, <1>3, <1>4, RegToShown
<1>5. CASE UNCHANGED reg
  <2>1. reg' = [reg EXCEPT ![t] = reg[t]]
    BY <1>5 DEF ShownInv, VaultInv, VaultTypes
  <2>2. QED BY <1>1, <1>3, <2>1, RegMovesShown
<1>6. CASE Issue(t) /\ reg' = [reg EXCEPT ![t].pc = "save", ![t].card = issued']
  <2> DEFINE new == [reg[t] EXCEPT !.pc = "save", !.card = issued']
  <2>1. issued' = issued + 1 /\ issued' \in 1 .. issued' /\ issued' \notin 1 .. issued
    BY <1>1, <1>6 DEF Issue
  <2>2. new.pc = "save" /\ new.card = issued'
    BY <1>1 DEF RegTypes
  <2>3. reg' = [reg EXCEPT ![t] = new]
    BY <1>6
  <2> HIDE DEF new
  <2>4. new \in RegTypes
    BY <2>3 DEF ShownInv, VaultInv, VaultTypes
  <2>5. issued' \notin list[t]
    BY <2>1 DEF ShownInv, Numbered
  <2>6. QED BY <1>1, <1>3, <2>1, <2>2, <2>3, <2>4, <2>5, RegMovesShown
<1>7. QED BY <1>4, <1>5, <1>6 DEF RegisterCard

\* Every other tab loses sight of the rows; this one knows what it has saved.
LEMMA SaveShown ==
  ASSUME ShownInv, VaultInv', NEW t \in VaultTabs, SaveCard(t)
  PROVE  ShownInv'
<1> DEFINE c == reg[t].card
<1>1. /\ UNCHANGED <<issued, list, listMain, del, demoted>> /\ reg[t].pc = "save" /\ reg[t] \in RegTypes
      /\ mishaps \in Nat /\ c \notin rows
  BY DEF SaveCard, cardRows, cardPages, gateway, ShownInv, VaultInv, VaultTypes, Unsaved
<1>2. CASE Mishap /\ RegTo(t, "failed") /\ UNCHANGED <<rows, main, elsewhere>>
  BY <1>1, <1>2, RegToShown DEF Mishap
<1>3. CASE /\ rows' = rows \cup {c} /\ main' = MainAfter(t) /\ elsewhere' = elsewhere \cup (VaultTabs \ {t})
           /\ RegTo(t, "done") /\ UNCHANGED mishaps
  <2> DEFINE new == [reg[t] EXCEPT !.pc = "done"]
  <2>1. new.pc = "done" /\ new.card = c /\ new.asMain = reg[t].asMain
    BY <1>1 DEF RegTypes
  <2>2. \A u \in VaultTabs : reg'[u] = IF u = t THEN new ELSE reg[u]
    BY <1>3 DEF RegTo, ShownInv, VaultInv, VaultTypes
  <2> HIDE DEF new
  <2>3. \A u \in VaultTabs : InSight(u)' => u = t /\ InSight(u)
    BY <1>3 DEF InSight
  <2>4. Saved(t)' = {c} /\ Saved(t) = {} /\ Dropped(t)' = Dropped(t)
    BY <1>1, <2>1, <2>2 DEF Saved, Dropped
  <2>5. c \in 1 .. issued /\ c \notin list[t] /\ c \notin Dropped(t)
    BY <1>1 DEF ShownInv, Numbered, Dropped
  <2>6. Numbered'
    BY <1>1, <2>1, <2>2 DEF ShownInv, Numbered
  <2>7. ListFollows'
    BY <1>1, <1>3, <2>3, <2>4, <2>5 DEF ShownInv, ListFollows
  <2>8. MainFollows'
    <3>1. InSight(t) => t \in demoted \/ main = listMain[t] \ Dropped(t)
      BY <1>1 DEF ShownInv, MainFollows
    <3>2. reg[t].asMain => main' = {c}
      BY <1>3 DEF MainAfter
    <3>3. ~reg[t].asMain => main' = main
      BY <1>3 DEF MainAfter
    <3>4. QED BY <1>1, <2>1, <2>2, <2>3, <2>4, <3>1, <3>2, <3>3 DEF MainFollows
  <2>9. OneMain'
    BY <1>3 DEF ShownInv, OneMain, MainAfter
  <2>10. QED BY <1>1, <2>6, <2>7, <2>8, <2>9 DEF ShownInv, MarksTyped
<1>4. QED BY <1>2, <1>3 DEF SaveCard

LEMMA DropShown ==
  ASSUME ShownInv, VaultInv', NEW t \in VaultTabs, DropCard(t)
  PROVE  ShownInv'
<1> DEFINE c == del[t].card
<1>1. /\ UNCHANGED <<issued, list, listMain, reg, demoted>> /\ del[t].pc = "drop" /\ del[t] \in DelTypes
      /\ mishaps \in Nat /\ c \in list[t]
  BY DEF DropCard, cardPages, gateway, ShownInv, VaultInv, VaultTypes, Numbered
<1>2. CASE Mishap /\ DelTo(t, "failed") /\ UNCHANGED <<rows, main, elsewhere>>
  BY <1>1, <1>2, DelToShown DEF Mishap
<1>3. CASE /\ rows' = rows \ {c} /\ main' = main \ {c} /\ elsewhere' = elsewhere \cup (VaultTabs \ {t})
           /\ DelTo(t, "done") /\ UNCHANGED mishaps
  <2> DEFINE new == [del[t] EXCEPT !.pc = "done"]
  <2>1. new.pc = "done" /\ new.card = c
    BY <1>1 DEF DelTypes
  <2>2. \A u \in VaultTabs : del'[u] = IF u = t THEN new ELSE del[u]
    BY <1>3 DEF DelTo, ShownInv, VaultInv, VaultTypes
  <2> HIDE DEF new
  <2>3. \A u \in VaultTabs : InSight(u)' => u = t /\ InSight(u)
    BY <1>3 DEF InSight
  <2>4. Dropped(t)' = {c} /\ Dropped(t) = {} /\ Saved(t)' = Saved(t)
    BY <1>1, <2>1, <2>2 DEF Saved, Dropped
  <2>5. c \notin Saved(t) /\ (reg[t].pc = "done" => reg[t].card # c)
    BY <1>1 DEF ShownInv, Numbered, Saved
  <2>6. Numbered'
    BY <1>1, <2>1, <2>2 DEF ShownInv, Numbered
  <2>7. ListFollows'
    BY <1>1, <1>3, <2>3, <2>4, <2>5 DEF ShownInv, ListFollows
  <2>8. MainFollows'
    BY <1>1, <1>3, <2>3, <2>4, <2>5 DEF ShownInv, MainFollows
  <2>9. OneMain'
    BY <1>3 DEF ShownInv, OneMain
  <2>10. QED BY <1>1, <2>6, <2>7, <2>8, <2>9 DEF ShownInv, MarksTyped
<1>4. QED BY <1>2, <1>3 DEF DropCard

LEMMA DeleteShown ==
  ASSUME ShownInv, VaultInv', NEW t \in VaultTabs, FindCard(t) \/ DeleteAtGateway(t)
  PROVE  ShownInv'
<1>1. UNCHANGED <<rows, main, issued, list, listMain, reg, elsewhere, demoted>> /\ del[t].pc \in {"sent", "gateway"}
  BY DEF FindCard, DeleteAtGateway, cardRows, gateway, cardPages
<1>2. mishaps' = 0 => mishaps = 0
  BY DEF FindCard, DeleteAtGateway, Mishap, ShownInv, VaultInv, VaultTypes
<1>3. \E pc \in {"gateway", "drop", "failed"} : DelTo(t, pc)
  BY DEF FindCard, DeleteAtGateway
<1>4. QED BY <1>1, <1>2, <1>3, DelToShown

LEMMA ShownStep == ShownInv /\ [VaultNext]_vaultVars => ShownInv'
<1>1. SUFFICES ASSUME ShownInv, [VaultNext]_vaultVars PROVE ShownInv'
  OBVIOUS
<1>2. VaultInv'
  BY <1>1, VaultStep DEF ShownInv
<1>3. CASE LockExpires \/ UNCHANGED vaultVars
  <2>1. UNCHANGED <<rows, main, issued, reg, del, list, listMain, elsewhere, demoted, mishaps>>
    BY <1>3 DEF LockExpires, vaultVars, cardRows, gateway, cardPages
  <2>2. Numbered' /\ MarksTyped' /\ OneMain'
    BY <1>1, <2>1 DEF ShownInv, Numbered, MarksTyped, OneMain
  <2>3. ListFollows' /\ MainFollows'
    BY <1>1, <2>1 DEF ShownInv, ListFollows, MainFollows, InSight, Saved, Dropped
  <2>4. QED BY <1>2, <2>2, <2>3 DEF ShownInv
<1>4. QED BY <1>1, <1>2, <1>3, PageShown, CustomerShown, RegisterCardShown, SaveShown, DropShown, DeleteShown
          DEF VaultNext, CardService

\* At most one card is the main one, and a page that waits for nothing shows the
\* cards and the main card as they are stored, unless another tab has changed
\* them, an answer was lost, or its own registration has cleared the mark
\* (useCardManagement, FincodeCustomerService).
THEOREM PagesShowWhatIsStored == VaultSpec => []ShownAsStored
<1>1. ASSUME ShownInv PROVE ShownAsStored
  <2>1. main \subseteq rows /\ Cardinality(main) <= 1
    <3>1. main = {} \/ \E c : main = {c}
      BY <1>1 DEF ShownInv, OneMain
    <3>2. CASE main = {}
      BY <3>2, FS_EmptySet
    <3>3. CASE \E c : main = {c}
      <4>1. Cardinality(main) = 1
        BY <3>3, FS_Singleton
      <4>2. QED BY <1>1, <4>1 DEF ShownInv, OneMain
    <3>4. QED BY <3>1, <3>2, <3>3
  <2>2. ASSUME NEW t \in VaultTabs \ elsewhere, reg[t] = NoReg, del[t] = NoDel, mishaps = 0
        PROVE  list[t] = rows /\ (listMain[t] = main \/ t \in demoted)
    <3>1. InSight(t) /\ reg[t].pc = "idle" /\ Saved(t) = {} /\ Dropped(t) = {}
      BY <2>2 DEF InSight, Saved, Dropped, NoReg, NoDel
    <3>2. QED BY <1>1, <3>1 DEF ShownInv, ListFollows, MainFollows
  <2>3. QED BY <2>1, <2>2 DEF ShownAsStored
<1>2. QED BY <1>1, ShownStarts, ShownStep, PTL DEF VaultSpec
=============================================================================
