----------------------------- MODULE CardVault -----------------------------
(***************************************************************************)
(* Saved cards: the page that registers and deletes them, open in several   *)
(* tabs, and the server between it and the gateway.  A card is kept twice,  *)
(* at the gateway and as a row of ours; the customer it belongs to as well, *)
(* made on first use under a lock that may run out before the gateway has   *)
(* answered.                                                               *)
(*                                                                         *)
(* One user and one restaurant.  The gateway numbers its customers and      *)
(* cards 1, 2, ...; brands, expiry dates, messages and log entries are left *)
(* out, and so is a page that is left before its request has ended.         *)
(***************************************************************************)
EXTENDS Naturals, FiniteSets

CONSTANTS
    VaultTabs,  \* pages open at the same time
    MaxCards,   \* bound: cards the gateway ever registers
    MaxCustomers, \* bound: customers it ever makes
    MaxCardActs,\* bound: registrations and deletions
    MaxMishaps  \* bound: answers that are lost and writes that fail

ASSUME VaultBounds == MaxCards \in Nat /\ MaxCustomers \in Nat
                        /\ MaxCardActs \in Nat /\ MaxMishaps \in Nat

VARIABLES
    customer,               \* fincode_customers.fincode_customer_id, 0 without a row
    rows, main,             \* fincode_cards, and those with is_default
    made, vault, issued,    \* the gateway: customers made, the customer of each
                            \* card (0: none), cards issued
    lock,                   \* Cache::lock("fincode_customer:..."): its holder
    list, listMain,         \* useCardManagement: cards, and those with is_default
    reg, del,               \* registerCard and deleteCard of each tab
    elsewhere, demoted,     \* history, see ShownAsStored
    cardActs, mishaps

cardRows  == <<customer, rows, main>>
gateway   == <<made, vault, issued>>
cardPages == <<list, listMain>>
vaultVars == <<cardRows, gateway, lock, cardPages, reg, del, elsewhere, demoted, cardActs, mishaps>>

CardNumbers == 1 .. MaxCards
NoReg == [pc |-> "idle", asMain |-> FALSE, customer |-> 0, card |-> 0]
NoDel == [pc |-> "idle", card |-> 0]

VaultInit ==
    /\ customer = 0 /\ rows = {} /\ main = {}
    /\ made = 0 /\ vault = [c \in CardNumbers |-> 0] /\ issued = 0
    /\ lock = {}
    /\ list = [t \in VaultTabs |-> {}] /\ listMain = [t \in VaultTabs |-> {}]
    /\ reg = [t \in VaultTabs |-> NoReg] /\ del = [t \in VaultTabs |-> NoDel]
    /\ elsewhere = {} /\ demoted = {}
    /\ cardActs = 0 /\ mishaps = 0

CardAct == cardActs < MaxCardActs /\ cardActs' = cardActs + 1
Mishap  == mishaps < MaxMishaps /\ mishaps' = mishaps + 1

\* Where the registration of t goes next.
RegTo(t, pc) == reg' = [reg EXCEPT ![t].pc = pc]
DelTo(t, pc) == del' = [del EXCEPT ![t].pc = pc]
\* Only the holder releases a lock.
Release(t) == lock' = lock \ {t}

-----------------------------------------------------------------------------
\* The page.

\* CardPageController renders the list; the page starts anew.
OpenCards(t) ==
    /\ reg[t] = NoReg /\ del[t] = NoDel
    /\ <<list[t], listMain[t]>> # <<rows, main>>
    /\ list' = [list EXCEPT ![t] = rows] /\ listMain' = [listMain EXCEPT ![t] = main]
    /\ elsewhere' = elsewhere \ {t} /\ demoted' = demoted \ {t}
    /\ UNCHANGED <<cardRows, gateway, lock, reg, del, cardActs, mishaps>>

\* The form, while no registration is under way; the gateway's widget gives a
\* token, or the page shows why not.
Register(t) ==
    /\ CardAct /\ reg[t] = NoReg
    /\ \E asMain \in BOOLEAN : reg' = [reg EXCEPT ![t] = [NoReg EXCEPT !.pc = "find", !.asMain = asMain]]
    /\ UNCHANGED <<cardRows, gateway, lock, cardPages, del, elsewhere, demoted, mishaps>>

\* The new card is put in front; no other is shown as the main card any more.
SettleRegister(t) ==
    /\ reg[t].pc \in {"done", "failed"}
    /\ reg' = [reg EXCEPT ![t] = NoReg]
    /\ IF reg[t].pc = "done"
       THEN /\ list' = [list EXCEPT ![t] = @ \cup {reg[t].card}]
            /\ listMain' = [listMain EXCEPT ![t] = IF reg[t].asMain THEN {reg[t].card} ELSE {}]
            /\ demoted' = IF ~reg[t].asMain /\ listMain[t] # {} THEN demoted \cup {t} ELSE demoted
       ELSE UNCHANGED <<cardPages, demoted>>
    /\ UNCHANGED <<cardRows, gateway, lock, del, elsewhere, cardActs, mishaps>>

\* The bin of a card and the dialog, whose button waits for the deletion before.
Delete(t) ==
    /\ CardAct /\ del[t] = NoDel
    /\ \E c \in list[t] : del' = [del EXCEPT ![t] = [pc |-> "sent", card |-> c]]
    /\ UNCHANGED <<cardRows, gateway, lock, cardPages, reg, elsewhere, demoted, mishaps>>

SettleDelete(t) ==
    /\ del[t].pc \in {"done", "failed"}
    /\ del' = [del EXCEPT ![t] = NoDel]
    /\ IF del[t].pc = "done"
       THEN /\ list' = [list EXCEPT ![t] = @ \ {del[t].card}]
            /\ listMain' = [listMain EXCEPT ![t] = @ \ {del[t].card}]
       ELSE UNCHANGED cardPages
    /\ UNCHANGED <<cardRows, gateway, lock, reg, elsewhere, demoted, cardActs, mishaps>>

\* The answer never comes: the page shows an error.
AnswerLost(t) ==
    /\ Mishap
    /\ \/ reg[t].pc = "done" /\ RegTo(t, "failed") /\ UNCHANGED del
       \/ del[t].pc = "done" /\ DelTo(t, "failed") /\ UNCHANGED reg
    /\ UNCHANGED <<cardRows, gateway, lock, cardPages, elsewhere, demoted, cardActs>>

-----------------------------------------------------------------------------
\* ensureCustomerExists.

UseCustomer(t, id) == reg' = [reg EXCEPT ![t].pc = "card", ![t].customer = id]

FindCustomer(t) ==
    /\ reg[t].pc = "find"
    /\ IF customer # 0 THEN UseCustomer(t, customer) ELSE RegTo(t, "lock")
    /\ UNCHANGED <<cardRows, gateway, lock, cardPages, del, elsewhere, demoted, cardActs, mishaps>>

TakeLock(t) ==
    /\ reg[t].pc = "lock" /\ lock = {}
    /\ lock' = {t} /\ RegTo(t, "check")
    /\ UNCHANGED <<cardRows, gateway, cardPages, del, elsewhere, demoted, cardActs, mishaps>>

\* CUSTOMER_CREATION_LOCK_WAIT_SECONDS have passed: somebody else may have
\* made the customer.
LockTimesOut(t) ==
    /\ reg[t].pc = "lock" /\ lock # {}
    /\ IF customer # 0 THEN UseCustomer(t, customer) ELSE RegTo(t, "failed")
    /\ UNCHANGED <<cardRows, gateway, lock, cardPages, del, elsewhere, demoted, cardActs, mishaps>>

\* CUSTOMER_CREATION_LOCK_SECONDS have passed, whatever its holder is doing.
LockExpires ==
    /\ lock # {} /\ lock' = {}
    /\ UNCHANGED <<cardRows, gateway, cardPages, reg, del, elsewhere, demoted, cardActs, mishaps>>

CheckCustomer(t) ==
    /\ reg[t].pc = "check"
    /\ IF customer # 0 THEN UseCustomer(t, customer) /\ Release(t)
       ELSE RegTo(t, "create") /\ UNCHANGED lock
    /\ UNCHANGED <<cardRows, gateway, cardPages, del, elsewhere, demoted, cardActs, mishaps>>

\* createCustomer at the gateway, its refusal, or an answer that is lost.
CreateCustomer(t) ==
    /\ reg[t].pc = "create"
    /\ \/ /\ made < MaxCustomers /\ made' = made + 1
          /\ reg' = [reg EXCEPT ![t].pc = "insert", ![t].customer = made + 1]
          /\ UNCHANGED <<lock, mishaps>>
       \/ RegTo(t, "failed") /\ Release(t) /\ UNCHANGED <<made, mishaps>>
       \/ /\ Mishap /\ made < MaxCustomers /\ made' = made + 1
          /\ RegTo(t, "failed") /\ Release(t)
    /\ UNCHANGED <<cardRows, vault, issued, cardPages, del, elsewhere, demoted, cardActs>>

\* Mutant: who comes second goes on with its own customer.
InsertItsOwn(t) ==
    /\ reg[t].pc = "insert" /\ Release(t)
    /\ \/ /\ customer' = IF customer = 0 THEN reg[t].customer ELSE customer
          /\ UseCustomer(t, reg[t].customer) /\ UNCHANGED mishaps
       \/ Mishap /\ RegTo(t, "failed") /\ UNCHANGED customer
    /\ UNCHANGED <<rows, main, gateway, cardPages, del, elsewhere, demoted, cardActs>>

\* The row is unique for user and tenant: who comes second uses the first.
\* Any other failed write ends the registration.
InsertCustomer(t) ==
    /\ reg[t].pc = "insert" /\ Release(t)
    /\ \/ /\ customer' = IF customer = 0 THEN reg[t].customer ELSE customer
          /\ UseCustomer(t, customer') /\ UNCHANGED mishaps
       \/ Mishap /\ RegTo(t, "failed") /\ UNCHANGED customer
    /\ UNCHANGED <<rows, main, gateway, cardPages, del, elsewhere, demoted, cardActs>>

-----------------------------------------------------------------------------
\* registerCustomerWithCard once there is a customer.

Issue(t) ==
    /\ issued < MaxCards /\ issued' = issued + 1
    /\ vault' = [vault EXCEPT ![issued'] = reg[t].customer]

\* registerCard at the gateway; when its answer is lost the executor may send
\* the same token again, or give up.
RegisterCard(t) ==
    /\ reg[t].pc = "card"
    /\ \/ Issue(t) /\ reg' = [reg EXCEPT ![t].pc = "save", ![t].card = issued'] /\ UNCHANGED mishaps
       \/ RegTo(t, "failed") /\ UNCHANGED <<vault, issued, mishaps>>
       \/ Mishap /\ Issue(t) /\ (UNCHANGED reg \/ RegTo(t, "failed"))
    /\ UNCHANGED <<cardRows, made, lock, cardPages, del, elsewhere, demoted, cardActs>>

\* Mutant: the old main card keeps its mark.
MainToo(t) == IF reg[t].asMain THEN main \cup {reg[t].card} ELSE main

\* A new main card takes the place of the old one.
MainAfter(t) == IF reg[t].asMain THEN {reg[t].card} ELSE main

\* The transaction.
SaveCard(t) ==
    /\ reg[t].pc = "save"
    /\ \/ /\ rows' = rows \cup {reg[t].card}
          /\ main' = MainAfter(t)
          /\ elsewhere' = elsewhere \cup (VaultTabs \ {t})
          /\ RegTo(t, "done") /\ UNCHANGED mishaps
       \/ Mishap /\ RegTo(t, "failed") /\ UNCHANGED <<rows, main, elsewhere>>
    /\ UNCHANGED <<customer, gateway, lock, cardPages, del, demoted, cardActs>>

-----------------------------------------------------------------------------
\* deleteCard: first at the gateway, then our row.

FindCard(t) ==
    /\ del[t].pc = "sent"
    /\ DelTo(t, IF del[t].card \in rows THEN "gateway" ELSE "failed")
    /\ UNCHANGED <<cardRows, gateway, lock, cardPages, reg, elsewhere, demoted, cardActs, mishaps>>

\* Refused when the card is not there; when the answer is lost, or the retry
\* finds that the card has gone, our row stays.
DeleteAtGateway(t) ==
    LET c == del[t].card
    IN /\ del[t].pc = "gateway"
       /\ \/ vault[c] # 0 /\ vault' = [vault EXCEPT ![c] = 0] /\ DelTo(t, "drop") /\ UNCHANGED mishaps
          \/ vault[c] = 0 /\ DelTo(t, "failed") /\ UNCHANGED <<vault, mishaps>>
          \/ Mishap /\ vault' \in {vault, [vault EXCEPT ![c] = 0]} /\ DelTo(t, "failed")
       /\ UNCHANGED <<cardRows, made, issued, lock, cardPages, reg, elsewhere, demoted, cardActs>>

DropCard(t) ==
    /\ del[t].pc = "drop"
    /\ \/ /\ rows' = rows \ {del[t].card} /\ main' = main \ {del[t].card}
          /\ elsewhere' = elsewhere \cup (VaultTabs \ {t})
          /\ DelTo(t, "done") /\ UNCHANGED mishaps
       \/ Mishap /\ DelTo(t, "failed") /\ UNCHANGED <<rows, main, elsewhere>>
    /\ UNCHANGED <<customer, gateway, lock, cardPages, reg, demoted, cardActs>>

-----------------------------------------------------------------------------
CardPage(t) == OpenCards(t) \/ Register(t) \/ SettleRegister(t) \/ Delete(t) \/ SettleDelete(t)
CardService(t) ==
    \/ FindCustomer(t) \/ TakeLock(t) \/ LockTimesOut(t) \/ CheckCustomer(t)
    \/ CreateCustomer(t) \/ InsertCustomer(t) \/ RegisterCard(t) \/ SaveCard(t)
    \/ FindCard(t) \/ DeleteAtGateway(t) \/ DropCard(t)

VaultNext == LockExpires \/ \E t \in VaultTabs : CardPage(t) \/ CardService(t) \/ AnswerLost(t)

VaultSpec == VaultInit /\ [][VaultNext]_vaultVars

-----------------------------------------------------------------------------
\* A card of ours is a card of the gateway, and belongs to the customer we
\* know, even when the lock has let two customers be made; it is missing only
\* while somebody deletes it, or after a mishap (deleteCard asks the gateway
\* first; InsertCustomer uses the customer it finds).
StoredIsAtGateway ==
    \A c \in rows : \/ vault[c] = customer
                    \/ vault[c] = 0 /\ (mishaps > 0 \/ \E t \in VaultTabs : del[t] = [pc |-> "drop", card |-> c])

\* At most one main card, of those we have, and whoever waits for nothing sees
\* the cards and the main card as they are stored, unless another tab has
\* changed them, an answer was lost, or a card was registered that is not to
\* be the main one: the page then shows none (useCardManagement clears the
\* mark of all the others, the server does not).
ShownAsStored ==
    /\ main \subseteq rows /\ Cardinality(main) <= 1
    /\ \A t \in VaultTabs \ elsewhere :
          reg[t] = NoReg /\ del[t] = NoDel /\ mishaps = 0
              => list[t] = rows /\ (listMain[t] = main \/ t \in demoted)
=============================================================================
