------------------------- MODULE CheckoutPageProofs -------------------------
(***************************************************************************)
(* Proofs about CheckoutPage, for every number of attempts, visits, cards   *)
(* and lost requests.                                                      *)
(*                                                                         *)
(* That a page pays once at a time is not inductive: a second press is      *)
(* ruled out by isProcessing, so the invariant has to say that isProcessing *)
(* is set as long as a call of the page is under way (Spinning), also when  *)
(* another call, of a page that was left, has ended (PayInv).              *)
(*                                                                         *)
(* Nor is it that a page tells the truth: the answer it will be shown by is *)
(* already on its way.  Telling says what each answer knows of the bill.    *)
(***************************************************************************)
EXTENDS CheckoutPage, FiniteSetTheorems, TLAPS

Runs == [pc : {"idle", "checkout", "answered", "token", "finalize", "over"},
         method : Methods \cup {"none"}, card : Cards \cup {NoCard}, save : {"no", "yes", "default"},
         answer : {"none", "placed", "error", "redirect", "no"}]

FormTypes == /\ method \in Methods \cup {"none"} /\ picked \in Cards \cup {NoCard}
             /\ save \in {"no", "yes", "default"} /\ processing \in BOOLEAN
RunTypes  == run \in [Attempts -> Runs] /\ mine \subseteq Attempts

Spinning == \A a \in mine : Active(a) => processing
Single   == \A a, b \in mine : Active(a) /\ Active(b) => a = b

PayInv == FormTypes /\ RunTypes /\ Spinning /\ Single

-----------------------------------------------------------------------------
(* What a step of one call leaves to the others                            *)

\* Another page takes the place of this one, and no call is its own.
LEMMA PageMoves ==
  ASSUME FormTypes', RunTypes', mine' = {}
  PROVE  PayInv'
BY DEF PayInv, Spinning, Single

\* Nothing happens to the calls or to isProcessing.
LEMMA PageStays ==
  ASSUME PayInv, FormTypes', UNCHANGED <<run, mine, processing>>
  PROVE  PayInv'
BY DEF PayInv, RunTypes, Spinning, Single, Active

\* A call under way takes a step of its own.
LEMMA CallGoesOn ==
  ASSUME PayInv, NEW a \in Attempts, Active(a), FormTypes', RunTypes',
         UNCHANGED <<mine, processing>>, \A b \in Attempts \ {a} : run'[b] = run[b]
  PROVE  PayInv'
<1>1. \A b \in mine : Active(b)' => Active(b)
  BY DEF Active, PayInv, RunTypes
<1>2. QED BY <1>1 DEF PayInv, Spinning, Single

\* A new record of the call keeps the types.
LEMMA CallTyped ==
  ASSUME PayInv, NEW a \in Attempts, NEW new \in Runs, run' = [run EXCEPT ![a] = new], mine' \subseteq Attempts
  PROVE  RunTypes' /\ \A b \in Attempts \ {a} : run'[b] = run[b]
BY DEF PayInv, RunTypes

\* Leaving this page's form empty.
LEMMA Emptied ==
  ASSUME NEW to, NEW a, Show(to, a)
  PROVE  FormTypes' /\ mine' = {}
BY DEF Show, FormTypes

LEMMA OverTyped ==
  ASSUME PayInv, NEW a \in Attempts
  PROVE  Over(a) \in Runs /\ Over(a).pc = "over"
BY DEF PayInv, RunTypes, Runs, Over, IdleRun

\* The gateway's site ends every call.
LEMMA LeavingKeeps ==
  ASSUME PayInv, NEW a, LeaveSite(a)
  PROVE  PayInv'
<1>1. FormTypes' /\ mine' = {}
  BY Emptied DEF LeaveSite
<1>2. RunTypes'
  BY <1>1, OverTyped DEF LeaveSite, PayInv, RunTypes
<1>3. QED BY <1>1, <1>2, PageMoves

\* A call that ends with an error releases the button of its own page only.
LEMMA ComplainingKeeps ==
  ASSUME PayInv, NEW a \in Attempts, Active(a), Complain(a)
  PROVE  PayInv'
<1>1. RunTypes' /\ (\A b \in Attempts \ {a} : run'[b] = run[b]) /\ run'[a].pc = "over"
  <2>1. Over(a) \in Runs /\ Over(a).pc = "over"
    BY OverTyped
  <2>2. QED BY <2>1, CallTyped DEF Complain, PayInv, RunTypes
<1>2. FormTypes'
  BY DEF Complain, PayInv, FormTypes, formVars
<1>3. \A b \in mine : Active(b)' => b # a /\ Active(b)
  BY <1>1 DEF PayInv, RunTypes, Active
<1>4. Spinning'
  <2>1. SUFFICES ASSUME NEW b \in mine, Active(b)' PROVE processing'
    BY DEF Spinning, Complain
  <2>2. a \notin mine /\ processing
    BY <1>3, <2>1 DEF PayInv, Spinning, Single
  <2>3. QED BY <2>2 DEF Complain
<1>5. Single'
  BY <1>3 DEF Single, PayInv, Complain
<1>6. QED BY <1>1, <1>2, <1>4, <1>5 DEF PayInv

\* A call that ends on another page.
LEMMA EndingKeeps ==
  ASSUME PayInv, NEW a \in Attempts, NEW to, run' = [run EXCEPT ![a] = Over(a)], Show(to, a)
  PROVE  PayInv'
<1>1. FormTypes' /\ mine' = {}
  BY Emptied
<1>2. RunTypes'
  BY <1>1, OverTyped, CallTyped
<1>3. QED BY <1>1, <1>2, PageMoves

-----------------------------------------------------------------------------
(* The steps                                                               *)

LEMMA InitPays == CheckoutInit => PayInv
<1>1. SUFFICES ASSUME CheckoutInit PROVE PayInv
  OBVIOUS
<1>2. IdleRun \in Runs
  BY DEF IdleRun, Runs
<1>3. RunTypes
  BY <1>1, <1>2 DEF CheckoutInit, RunTypes
<1>4. FormTypes
  BY <1>1 DEF CheckoutInit, FormTypes
<1>5. Spinning /\ Single
  BY <1>1 DEF CheckoutInit, Spinning, Single
<1>6. QED BY <1>3, <1>4, <1>5 DEF PayInv

LEMMA FormKeeps ==
  ASSUME PayInv, AtCheckout \/ PayInApp \/ (\E a \in Attempts : Webhook(a))
  PROVE  PayInv'
<1>1. CASE OpenCheckout
  <2>1. FormTypes' /\ mine' = {} /\ run' = run
    BY <1>1 DEF OpenCheckout, FormTypes, Methods
  <2>2. QED BY <2>1, PageMoves DEF PayInv, RunTypes
<1>2. CASE Leave
  <2>1. FormTypes' /\ mine' = {} /\ run' = run
    BY <1>2, Emptied DEF Leave
  <2>2. QED BY <2>1, PageMoves DEF PayInv, RunTypes
<1>3. CASE LoadWidget \/ ChooseMethod \/ ChooseCard \/ CheckBoxes \/ PayInApp \/ \E a \in Attempts : Webhook(a)
  <2>1. FormTypes' /\ UNCHANGED <<run, mine, processing>>
    BY <1>3 DEF PayInv, FormTypes, LoadWidget, ChooseMethod, ChooseCard, CheckBoxes, PayInApp, Webhook, formVars, pageVars
  <2>2. QED BY <2>1, PageStays
<1>4. QED BY <1>1, <1>2, <1>3 DEF AtCheckout

LEMMA CallKeeps ==
  ASSUME PayInv, NEW a \in Attempts, Checkout(a)
  PROVE  PayInv'
<1>1. CASE Pay(a)
  <2> DEFINE new == [IdleRun EXCEPT !.pc = "checkout", !.method = method, !.card = SavedCardId, !.save = save]
  <2>1. new \in Runs
    BY DEF IdleRun, Runs, PayInv, FormTypes, SavedCardId
  <2>2. RunTypes' /\ \A b \in Attempts \ {a} : run'[b] = run[b]
    BY <1>1, <2>1, CallTyped DEF Pay, PayInv, RunTypes
  <2>3. FormTypes' /\ processing'
    BY <1>1 DEF Pay, PayInv, FormTypes, formVars
  <2>4. \A b \in mine : ~Active(b)
    BY <1>1 DEF Pay, CanPay, PayInv, Spinning
  <2>5. \A b \in mine' : Active(b)' => b = a
    BY <1>1, <2>2, <2>4 DEF Pay, Active, PayInv, RunTypes
  <2>6. QED BY <2>2, <2>3, <2>5 DEF PayInv, Spinning, Single
<1>2. CASE ServeCheckout(a) \/ ServeFinalize(a)
  <2>1. PICK answer \in {"placed", "error", "redirect", "no"} : Answer(a, answer)
    BY <1>2 DEF ServeCheckout, ServeFinalize
  <2>2. [run[a] EXCEPT !.pc = "answered", !.answer = answer] \in Runs
    BY DEF PayInv, RunTypes, Runs
  <2>3. RunTypes' /\ \A b \in Attempts \ {a} : run'[b] = run[b]
    BY <1>2, <2>1, <2>2, CallTyped DEF Answer, ServeCheckout, ServeFinalize, pageVars, PayInv, RunTypes
  <2>4. FormTypes' /\ UNCHANGED <<mine, processing>>
    BY <1>2 DEF ServeCheckout, ServeFinalize, pageVars, formVars, PayInv, FormTypes
  <2>5. Active(a)
    BY <1>2 DEF ServeCheckout, ServeFinalize, Active
  <2>6. QED BY <2>3, <2>4, <2>5, CallGoesOn
<1>3. CASE SettleCheckout(a)
  <2>1. Active(a)
    BY <1>3 DEF SettleCheckout, Active
  <2>2. CASE Complain(a)
    BY <2>1, <2>2, ComplainingKeeps
  <2>3. CASE LeaveSite(a)
    BY <2>3, LeavingKeeps
  <2>4. ASSUME NEW step \in {"token", "finalize"}, UNCHANGED pageVars,
               run' = [run EXCEPT ![a].pc = step, ![a].answer = "none"]
        PROVE  PayInv'
    <3>1. [run[a] EXCEPT !.pc = step, !.answer = "none"] \in Runs
      BY DEF PayInv, RunTypes, Runs
    <3>2. RunTypes' /\ \A b \in Attempts \ {a} : run'[b] = run[b]
      BY <2>4, <3>1, CallTyped DEF pageVars, PayInv, RunTypes
    <3>3. FormTypes' /\ UNCHANGED <<mine, processing>>
      BY <2>4 DEF pageVars, formVars, PayInv, FormTypes
    <3>4. QED BY <2>1, <3>2, <3>3, CallGoesOn
  <2>5. QED BY <1>3, <2>2, <2>3, <2>4 DEF SettleCheckout
<1>4. CASE CreateToken(a)
  <2>1. CASE run' = [run EXCEPT ![a].pc = "finalize"] /\ UNCHANGED pageVars
    <3>1. [run[a] EXCEPT !.pc = "finalize"] \in Runs
      BY DEF PayInv, RunTypes, Runs
    <3>2. RunTypes' /\ \A b \in Attempts \ {a} : run'[b] = run[b]
      BY <2>1, <3>1, CallTyped DEF pageVars, PayInv, RunTypes
    <3>3. FormTypes' /\ UNCHANGED <<mine, processing>>
      BY <2>1 DEF pageVars, formVars, PayInv, FormTypes
    <3>4. Active(a)
      BY <1>4 DEF CreateToken, Active
    <3>5. QED BY <3>2, <3>3, <3>4, CallGoesOn
  <2>2. CASE run' = [run EXCEPT ![a] = Over(a)] /\ Show("failed", a)
    BY <2>2, EndingKeeps
  <2>3. QED BY <1>4, <2>1, <2>2 DEF CreateToken
<1>5. CASE SettleFinalize(a)
  BY <1>5, LeavingKeeps, EndingKeeps DEF SettleFinalize
<1>6. QED BY <1>1, <1>2, <1>3, <1>4, <1>5 DEF Checkout

LEMMA CallbackKeeps ==
  ASSUME PayInv, Callback
  PROVE  PayInv'
<1>1. CASE UNCHANGED <<mine, processing, formVars>>
  <2>1. run' = run
    BY DEF Callback, BackStep, Return, TurnAway, AskGateway, CompleteBack, DenyBack, FailBack,
           SettlePayPay, Retry, TimeUp, SettleThreeDs, OnServer
  <2>2. FormTypes'
    BY <1>1 DEF PayInv, FormTypes, formVars
  <2>3. QED BY <1>1, <2>1, <2>2, PageStays
<1>2. ASSUME NEW to, End(to), run' = run
      PROVE  PayInv'
  <2>1. FormTypes' /\ mine' = {}
    BY <1>2, Emptied DEF End
  <2>2. QED BY <1>2, <2>1, PageMoves DEF PayInv, RunTypes
<1>3. CASE Return \/ TurnAway \/ AskGateway \/ CompleteBack \/ DenyBack \/ FailBack \/ Retry \/ TimeUp
  BY <1>1, <1>3 DEF Return, TurnAway, AskGateway, CompleteBack, DenyBack, FailBack, Retry, TimeUp, OnServer, pageVars
<1>4. CASE SettlePayPay \/ SettleThreeDs
  <2>1. run' = run /\ (UNCHANGED pageVars \/ \E to \in Pages : End(to))
    BY <1>4 DEF SettlePayPay, SettleThreeDs, Rest, Pages
  <2>2. QED BY <1>1, <1>2, <2>1 DEF pageVars
<1>5. QED BY <1>3, <1>4 DEF Callback, BackStep

LEMMA NextPays == PayInv /\ [CheckoutNext]_checkoutVars => PayInv'
<1>1. SUFFICES ASSUME PayInv, [CheckoutNext]_checkoutVars PROVE PayInv'
  OBVIOUS
<1>2. CASE UNCHANGED checkoutVars
  <2>1. FormTypes' /\ UNCHANGED <<run, mine, processing>>
    BY <1>1, <1>2 DEF checkoutVars, pageVars, formVars, PayInv, FormTypes
  <2>2. QED BY <1>1, <2>1, PageStays
<1>3. QED BY <1>1, <1>2, FormKeeps, CallKeeps, CallbackKeeps DEF CheckoutNext

\* A page pays once at a time, whatever the customer presses, and whichever
\* calls of pages that were left are still under way (handleCheckout sets
\* isProcessing first, and releases it only for its own page).
THEOREM NeverTwoPayments == CheckoutSpec => []OnePaymentPerPage
<1>1. PayInv => OnePaymentPerPage
  <2> DEFINE active == {a \in mine : Active(a)}
  <2>1. SUFFICES ASSUME PayInv PROVE Cardinality(active) <= 1
    BY DEF OnePaymentPerPage
  <2>2. CASE active = {}
    <3>1. Cardinality(active) = 0
      BY <2>2, FS_EmptySet
    <3>2. QED BY <3>1
  <2>3. ASSUME NEW a \in active PROVE Cardinality(active) <= 1
    <3>1. active = {a}
      BY <2>1, <2>3 DEF PayInv, Single
    <3>2. Cardinality(active) = 1
      BY <3>1, FS_Singleton
    <3>3. QED BY <3>2
  <2>4. QED BY <2>2, <2>3
<1>2. QED BY <1>1, InitPays, NextPays, PTL DEF CheckoutSpec

-----------------------------------------------------------------------------
(* What a page tells                                                       *)
(*                                                                         *)
(* What the server has found out on the way back, and what its answer knows *)
(* of the payment (BackKnows); that a payment is charged only after the     *)
(* call that began it (EndsFirst), so that no later answer of a call is     *)
(* about it; and that no way back is still about the payment a failure is   *)
(* shown for (PageIsAbout).  A card that comes back is not charged yet:     *)
(* that is what a failure shown before the first look relies on.            *)

Backs == [pc : {"idle", "sent", "captured", "denied", "answered", "waiting"},
          kind : {"none", "paypay", "threeDs"}, attempt : Attempts \cup {NoAttempt},
          answer : {"none", "order", "no", "redirect", "pending", "again", "nothing"},
          here : {"here", "left", "gone"}]

BillTypes == /\ bill \in [Attempts -> Bills] /\ gate \in [Attempts -> Gates]
             /\ lost \in Nat /\ back \in Backs

Verdict == \A a \in Attempts : bill[a] = "failed" => lost > 0 \/ gate[a] = "void"

EndsFirst == /\ \A a \in Attempts : gate[a] = "charged" => run[a].pc = "over"
             /\ back.pc # "idle" => back.attempt \in Attempts
             /\ back.attempt \in Attempts => run[back.attempt].pc = "over"

IsCard(a)    == run[a].method # "paypay"
Uncharged(a) == lost > 0 \/ gate[a] # "charged"

BackKnows ==
    /\ (back.answer # "none") <=> (back.pc = "answered")
    /\ back.pc = "waiting" \/ back.answer \in {"pending", "again"} => back.kind = "paypay"
    /\ back.pc # "idle" => back.kind \in {"paypay", "threeDs"} /\ (back.kind = "threeDs" <=> IsCard(back.attempt))
    /\ back.pc = "denied"    => gate[back.attempt] = "void"
    /\ back.answer = "order" => bill[back.attempt] = "paid"
    /\ back.kind = "threeDs" /\ (back.pc = "sent" \/ back.answer = "redirect") => Uncharged(back.attempt)
    /\ back.answer = "nothing" => lost > 0
    /\ back.answer = "no" => \/ lost > 0 \/ gate[back.attempt] = "void"
                             \/ back.kind = "threeDs" /\ gate[back.attempt] # "charged"
                             \/ back.attempt \in overtaken

PageIsAbout ==
    /\ page \in {"gateway", "paypay", "threeDs", "complete", "failed"} =>
          about \in Attempts /\ run[about].pc = "over"
    /\ page \in {"gateway", "failed"}   => about # back.attempt
    /\ page = "gateway" /\ IsCard(about) => Uncharged(about)

Telling == BillTypes /\ Verdict /\ EndsFirst /\ BackKnows /\ PageIsAbout /\ PageTellsTruth

\* No way back is under way in the record of none.
LEMMA NoneBack ==
  /\ IdleBack \in Backs /\ IdleBack.pc = "idle" /\ IdleBack.answer = "none"
  /\ IdleBack.kind = "none" /\ IdleBack.attempt \notin Attempts
BY NoCardAssumption DEF IdleBack, Backs, NoAttempt, Attempts

LEMMA InitTells == CheckoutInit => Telling
<1>1. SUFFICES ASSUME CheckoutInit PROVE Telling
  OBVIOUS
<1>2. BillTypes
  BY <1>1, NoneBack DEF CheckoutInit, BillTypes, Bills, Gates
<1>3. Verdict /\ EndsFirst /\ BackKnows /\ PageIsAbout /\ PageTellsTruth
  BY <1>1, NoneBack DEF CheckoutInit, Verdict, EndsFirst, BackKnows, PageIsAbout, PageTellsTruth
<1>4. QED BY <1>2, <1>3 DEF Telling

-----------------------------------------------------------------------------
(* Four kinds of steps                                                     *)

\* Leaving a page takes nothing from what the server has found out.
SameBack == /\ back'.pc = back.pc /\ back'.kind = back.kind
            /\ back'.attempt = back.attempt /\ back'.answer = back.answer
BackStays == back' \in Backs /\ (back' = IdleBack \/ SameBack)

LEMMA DisposedStays ==
  ASSUME BillTypes, back' \in {back, IdleBack, Disposed, [back EXCEPT !.here = "gone"]}
  PROVE  BackStays
BY NoneBack DEF BillTypes, BackStays, SameBack, Disposed, Backs

\* Nothing changes that a page could tell.
LEMMA NothingTold ==
  ASSUME Telling, UNCHANGED <<bill, gate, overtaken, lost, page, about, run, back>>, late => late'
  PROVE  Telling'
BY DEF Telling, BillTypes, Verdict, EndsFirst, BackKnows, PageIsAbout, PageTellsTruth,
       IsCard, Uncharged, Attempts, Backs

\* A call of handleCheckout takes a step, without another page.
LEMMA CallTells ==
  ASSUME Telling, PayInv, NEW a \in Attempts, run[a].pc # "over",
         \A b \in Attempts \ {a} : run'[b] = run[b] /\ bill'[b] = bill[b] /\ gate'[b] = gate[b],
         bill' \in [Attempts -> Bills], gate' \in [Attempts -> Gates], lost' \in Nat, lost' >= lost,
         gate'[a] # "charged", bill'[a] = "failed" => lost' > 0 \/ gate'[a] = "void",
         UNCHANGED <<overtaken, page, about, back, late>>
  PROVE  Telling'
<1>1. BillTypes'
  BY DEF Telling, BillTypes, Backs, Attempts
<1>2. Verdict'
  BY DEF Telling, BillTypes, Verdict
<1>3. EndsFirst'
  BY DEF Telling, EndsFirst, BillTypes
<1>4. BackKnows'
  BY DEF Telling, EndsFirst, BackKnows, BillTypes, Backs, IsCard, Uncharged
<1>5. PageIsAbout'
  BY DEF Telling, PageIsAbout, BillTypes, IsCard, Uncharged
<1>6. PageTellsTruth'
  BY DEF Telling, PageIsAbout, PageTellsTruth, BillTypes
<1>7. QED BY <1>1, <1>2, <1>3, <1>4, <1>5, <1>6 DEF Telling

\* Another page comes; what was under way goes on, or ends.
LEMMA PageTells ==
  ASSUME Telling, PayInv, NEW a, NEW to \in {"elsewhere", "checkout", "gateway", "complete", "failed"},
         \A b \in Attempts : run'[b].method = run[b].method /\ (run'[b] = run[b] \/ run'[b].pc = "over"),
         page' = to, about' = a, BackStays,
         to \in {"gateway", "complete", "failed"} => a \in Attempts /\ run'[a].pc = "over",
         to \in {"gateway", "failed"} => a # back'.attempt,
         to = "gateway" /\ IsCard(a) => Uncharged(a),
         to = "complete" => bill[a] = "paid",
         to = "failed" => (lost = 0 /\ ~late /\ a \notin overtaken => gate[a] # "charged"),
         UNCHANGED <<payVars, lost, late>>
  PROVE  Telling'
<1>1. UNCHANGED <<bill, gate, overtaken>>
  BY DEF payVars
<1>2. BillTypes' /\ Verdict'
  BY <1>1 DEF Telling, BillTypes, Verdict, BackStays, Attempts, Backs
<1>3. EndsFirst'
  BY <1>1, NoneBack DEF Telling, EndsFirst, BackStays, SameBack
<1>4. BackKnows'
  BY <1>1, NoneBack DEF Telling, EndsFirst, BackKnows, BackStays, SameBack, IsCard, Uncharged
<1>5. PageIsAbout'
  BY <1>1 DEF PageIsAbout, IsCard, Uncharged
<1>6. PageTellsTruth'
  BY <1>1 DEF PageTellsTruth
<1>7. QED BY <1>2, <1>3, <1>4, <1>5, <1>6 DEF Telling

\* The server, or the page that called it, goes on with the way back.
LEMMA BackTells ==
  ASSUME Telling, PayInv, NEW b \in Bills, NEW g \in Gates,
         NEW pc \in {"sent", "captured", "denied", "answered", "waiting"},
         NEW answer \in {"none", "order", "no", "redirect", "pending", "again", "nothing"},
         back.pc # "idle", back' = [back EXCEPT !.pc = pc, !.answer = answer],
         bill' = [bill EXCEPT ![back.attempt] = b], bill[back.attempt] = "paid" => b = "paid",
         gate' = [gate EXCEPT ![back.attempt] = g], b = "failed" => lost' > 0 \/ g = "void",
         overtaken \subseteq overtaken', lost' \in Nat, lost' >= lost, BackKnows',
         UNCHANGED <<page, about, run, late>>
  PROVE  Telling'
<1>1. back.attempt \in Attempts /\ run[back.attempt].pc = "over" /\ back'.attempt = back.attempt
  BY DEF Telling, BillTypes, EndsFirst, Backs
<1>2. /\ bill'[back.attempt] = b /\ gate'[back.attempt] = g
      /\ \A a \in Attempts \ {back.attempt} : bill'[a] = bill[a] /\ gate'[a] = gate[a]
  BY <1>1 DEF Telling, BillTypes
<1>3. BillTypes'
  <2>1. back' \in Backs
    BY DEF Telling, BillTypes, Backs
  <2>2. QED BY <2>1 DEF Telling, BillTypes, Attempts, Backs
<1>4. Verdict'
  BY <1>2 DEF Telling, BillTypes, Verdict
<1>5. EndsFirst'
  BY <1>1, <1>2 DEF Telling, EndsFirst
<1>6. PageIsAbout'
  BY <1>1, <1>2 DEF Telling, BillTypes, PageIsAbout, IsCard, Uncharged
<1>7. PageTellsTruth'
  BY <1>1, <1>2 DEF Telling, BillTypes, PageIsAbout, PageTellsTruth
<1>8. QED BY <1>3, <1>4, <1>5, <1>6, <1>7 DEF Telling

-----------------------------------------------------------------------------
(* The steps                                                               *)

\* The form, the customer's PayPay app, and the webhooks.
LEMMA FormTells ==
  ASSUME Telling, PayInv, AtCheckout \/ PayInApp \/ (\E a \in Attempts : Webhook(a))
  PROVE  Telling'
<1>1. CASE OpenCheckout \/ Leave
  <2>1. PICK to \in {"elsewhere", "checkout"} : page' = to /\ about' = NoAttempt
    BY <1>1 DEF OpenCheckout, Leave, Show
  <2>2. BackStays /\ UNCHANGED <<payVars, run, lost, late>>
    BY <1>1, DisposedStays DEF OpenCheckout, Leave, backVars, Telling
  <2>3. QED BY <2>1, <2>2, PageTells
<1>2. CASE LoadWidget \/ ChooseMethod \/ ChooseCard \/ CheckBoxes
  BY <1>2, NothingTold DEF LoadWidget, ChooseMethod, ChooseCard, CheckBoxes, backVars, payVars
<1>3. CASE PayInApp
  <2>1. /\ page \in {"gateway", "paypay"} /\ gate[about] = "open" /\ ~IsCard(about)
        /\ UNCHANGED <<bill, overtaken, page, about, run, back, late, lost>>
    BY <1>3 DEF PayInApp, pageVars, backVars, IsCard
  <2>2. about \in Attempts /\ run[about].pc = "over"
    BY <2>1 DEF Telling, PageIsAbout
  <2>3. PICK g \in {"charged", "void"} : gate' = [gate EXCEPT ![about] = g]
    BY <1>3 DEF PayInApp
  <2>4. gate'[about] = g /\ \A b \in Attempts \ {about} : gate'[b] = gate[b]
    BY <2>2, <2>3 DEF Telling, BillTypes
  <2>5. BillTypes' /\ Verdict' /\ EndsFirst' /\ PageTellsTruth'
    BY <2>1, <2>2, <2>3, <2>4 DEF Telling, BillTypes, Verdict, EndsFirst, PageTellsTruth, Attempts, Backs, Gates
  <2>6. BackKnows'
    BY <2>1, <2>2, <2>4 DEF Telling, BillTypes, EndsFirst, BackKnows, IsCard, Uncharged, Backs
  <2>7. PageIsAbout'
    BY <2>1, <2>2 DEF Telling, PageIsAbout, IsCard, Uncharged
  <2>8. QED BY <2>5, <2>6, <2>7 DEF Telling
<1>4. ASSUME NEW a \in Attempts, Webhook(a) PROVE Telling'
  <2>1. /\ bill[a] = "open" /\ gate[a] # "open"
        /\ UNCHANGED <<gate, overtaken, page, about, run, back, late, lost>>
    BY <1>4 DEF Webhook, pageVars, backVars
  <2>2. bill' \in [Attempts -> Bills] /\ \A b \in Attempts \ {a} : bill'[b] = bill[b]
    BY <1>4 DEF Webhook, Telling, BillTypes, Bills
  <2>3. bill'[a] = "failed" => gate[a] = "void"
    BY <1>4, <2>1 DEF Webhook, Telling, BillTypes, Gates
  <2>4. BillTypes' /\ Verdict' /\ EndsFirst'
    BY <2>1, <2>2, <2>3 DEF Telling, BillTypes, Verdict, EndsFirst, Attempts, Backs
  <2>5. BackKnows' /\ PageIsAbout' /\ PageTellsTruth'
    BY <2>1, <2>2 DEF Telling, BillTypes, EndsFirst, BackKnows, PageIsAbout, PageTellsTruth, IsCard, Uncharged, Backs
  <2>6. QED BY <2>4, <2>5 DEF Telling
<1>5. QED BY <1>1, <1>2, <1>3, <1>4 DEF AtCheckout

\* Nothing a call does before it is over is about a charged payment.
LEMMA NotYetCharged ==
  ASSUME Telling, NEW a \in Attempts, run[a].pc # "over"
  PROVE  gate[a] # "charged" /\ a # back.attempt /\ a # IdleBack.attempt
BY NoneBack DEF Telling, EndsFirst

\* handleCheckout.
LEMMA CheckoutTells ==
  ASSUME Telling, PayInv, NEW a \in Attempts, Checkout(a)
  PROVE  Telling'
<1>1. run \in [Attempts -> Runs] /\ lost \in Nat /\ bill \in [Attempts -> Bills] /\ gate \in [Attempts -> Gates]
  BY DEF PayInv, RunTypes, Telling, BillTypes
<1>2. run[a].pc # "over"
  BY DEF Checkout, Pay, IdleRun, ServeCheckout, SettleCheckout, CreateToken, ServeFinalize, SettleFinalize
<1>3. gate[a] # "charged" /\ a # back.attempt /\ a # IdleBack.attempt
  BY <1>2, NotYetCharged
<1>4. bill[a] = "failed" => lost > 0 \/ gate[a] = "void"
  BY DEF Telling, Verdict
\* The call goes on, or ends, on the same page.
<1>5. ASSUME \A b \in Attempts \ {a} : run'[b] = run[b], UNCHANGED <<payVars, page, about, back, late, lost>>
      PROVE  Telling'
  <2>1. UNCHANGED <<bill, gate, overtaken>>
    BY <1>5 DEF payVars
  <2>2. QED BY <1>1, <1>2, <1>3, <1>4, <1>5, <2>1, CallTells
<1>6. ASSUME LeaveSite(a), run[a].pc = "answered", UNCHANGED <<payVars, lost, late>>
      PROVE  Telling'
  <2>1. \A b \in Attempts : run'[b].method = run[b].method /\ (run'[b] = run[b] \/ run'[b].pc = "over")
    BY <1>6 DEF LeaveSite, Over, IdleRun
  <2>2. BackStays
    BY <1>6, DisposedStays DEF LeaveSite, Telling
  <2>3. page' = "gateway" /\ about' = a
    BY <1>6 DEF LeaveSite, Show
  <2>4. run'[a].pc = "over"
    BY <1>6 DEF LeaveSite, Active, Over, IdleRun
  <2>5. a # back'.attempt
    BY <1>3, <2>2 DEF BackStays, SameBack
  <2>6. Uncharged(a)
    BY <1>3 DEF Uncharged
  <2>7. QED BY <1>6, <2>1, <2>2, <2>3, <2>4, <2>5, <2>6, PageTells
<1>7. ASSUME NEW to, to = "failed", run' = [run EXCEPT ![a] = Over(a)], Show(to, a), back' = Disposed, UNCHANGED <<payVars, lost, late>>
      PROVE  Telling'
  <2>1. run'[a].pc = "over" /\ \A b \in Attempts : run'[b].method = run[b].method /\ (run'[b] = run[b] \/ run'[b].pc = "over")
    BY <1>1, <1>7 DEF Over, IdleRun
  <2>2. BackStays
    BY <1>7, DisposedStays DEF Telling
  <2>3. a # back'.attempt
    BY <1>3, <2>2 DEF BackStays, SameBack
  <2>4. QED BY <1>3, <1>7, <2>1, <2>2, <2>3, PageTells DEF Show
<1>8. CASE Pay(a)
  BY <1>1, <1>5, <1>8 DEF Pay, backVars
<1>9. CASE ServeCheckout(a) \/ ServeFinalize(a)
  <2>1. UNCHANGED <<overtaken, page, about, back, late>>
    BY <1>9 DEF ServeCheckout, ServeFinalize, pageVars, backVars
  <2>2. \A b \in Attempts \ {a} : run'[b] = run[b]
    BY <1>1, <1>9 DEF ServeCheckout, ServeFinalize, Answer
  <2>3. /\ bill' \in [Attempts -> Bills] /\ \A b \in Attempts \ {a} : bill'[b] = bill[b]
        /\ gate' \in [Attempts -> Gates] /\ \A b \in Attempts \ {a} : gate'[b] = gate[b]
        /\ lost' \in {lost, lost + 1}
    BY <1>1, <1>9 DEF ServeCheckout, ServeFinalize, GetsLost, Bills, Gates
  <2>4. gate'[a] # "charged" /\ (bill'[a] = "failed" => lost' > 0 \/ gate'[a] = "void")
    BY <1>1, <1>3, <1>4, <1>9 DEF ServeCheckout, ServeFinalize, GetsLost
  <2>5. lost' \in Nat /\ lost' >= lost
    BY <1>1, <2>3
  <2>6. QED BY <1>2, <2>1, <2>2, <2>3, <2>4, <2>5, CallTells
<1>10. CASE SettleCheckout(a)
  BY <1>1, <1>5, <1>6, <1>10 DEF SettleCheckout, Complain, pageVars
<1>11. CASE CreateToken(a)
  BY <1>1, <1>5, <1>7, <1>11 DEF CreateToken, pageVars
<1>12. CASE SettleFinalize(a)
  <2>1. LandsOn(run[a].answer) = "failed"
    BY <1>1 DEF Runs, LandsOn
  <2>2. QED BY <1>6, <1>7, <1>12, <2>1 DEF SettleFinalize
<1>13. QED BY <1>8, <1>9, <1>10, <1>11, <1>12 DEF Checkout

\* The server's part of the way back: each step, and what it has found out then.
LEMMA ServerTells ==
  ASSUME Telling, PayInv, TurnAway \/ AskGateway \/ CompleteBack \/ DenyBack \/ FailBack
  PROVE  Telling'
<1> DEFINE a == back.attempt
<1>1. /\ a \in Attempts /\ bill[a] \in Bills /\ gate[a] \in Gates /\ lost \in Nat /\ back.pc # "idle"
      /\ bill = [bill EXCEPT ![a] = bill[a]] /\ gate = [gate EXCEPT ![a] = gate[a]]
  BY DEF TurnAway, AskGateway, CompleteBack, DenyBack, FailBack, Telling, EndsFirst, BillTypes
<1>2. UNCHANGED <<page, about, run, late>> /\ (lost' = lost \/ lost' = lost + 1)
  BY DEF TurnAway, AskGateway, CompleteBack, DenyBack, FailBack, OnServer, pageVars, GetsLost
<1>3. back.kind \in {"paypay", "threeDs"} /\ (back.kind = "threeDs" <=> IsCard(a)) /\ (PayPayBack <=> back.kind = "paypay")
  BY <1>1 DEF Telling, BackKnows, PayPayBack
\* One step of the server, with the verdict it writes and the answer it gives.
<1> DEFINE Step(b, g, pc, answer) ==
        /\ bill' = [bill EXCEPT ![a] = b] /\ (bill[a] = "paid" => b = "paid")
        /\ gate' = [gate EXCEPT ![a] = g] /\ (b = "failed" => lost' > 0 \/ g = "void")
        /\ overtaken \subseteq overtaken' /\ BackGoes(pc, answer)
        /\ ((answer # "none") <=> (pc = "answered"))
        /\ (answer \in {"pending", "again"} => back.kind = "paypay")
        /\ pc = "denied"    => g = "void"
        /\ pc # "sent" /\ (answer = "order" => b = "paid") /\ (answer = "nothing" => lost' > 0)
        /\ back.kind = "threeDs" /\ answer = "redirect" => lost' > 0 \/ g # "charged"
        /\ answer = "no" => \/ lost' > 0 \/ g = "void" \/ a \in overtaken'
                            \/ back.kind = "threeDs" /\ g # "charged"
<1>4. ASSUME NEW b \in Bills, NEW g \in Gates, NEW pc \in {"captured", "denied", "answered"},
             NEW answer \in {"none", "order", "no", "redirect", "pending", "again", "nothing"},
             Step(b, g, pc, answer)
      PROVE  Telling'
  <2>1. back' = [back EXCEPT !.pc = pc, !.answer = answer] /\ lost' \in Nat /\ lost' >= lost
    BY <1>1, <1>2, <1>4 DEF BackGoes
  <2>2. back'.pc = pc /\ back'.answer = answer /\ back'.attempt = a /\ back'.kind = back.kind
    BY <2>1 DEF Telling, BillTypes, Backs
  <2>3. bill'[a] = b /\ gate'[a] = g
    BY <1>1, <1>4 DEF Telling, BillTypes
  <2>4. BackKnows'
    BY <1>1, <1>2, <1>3, <1>4, <2>2, <2>3 DEF BackKnows, IsCard, Uncharged
  <2>5. QED BY <1>1, <1>2, <1>4, <2>1, <2>4, BackTells
<1>5. CASE TurnAway
  <2>1. /\ back.pc = "sent" /\ UNCHANGED <<bill, gate, overtaken, lost>>
        /\ \/ AnswerBack("order") /\ bill[a] = "paid"
           \/ AnswerBack("no") /\ (bill[a] = "failed" \/ ~PayPayBack)
    BY <1>5 DEF TurnAway, payVars
  <2>2. bill[a] = "failed" => lost > 0 \/ gate[a] = "void"
    BY <1>1 DEF Telling, Verdict
  <2>3. ~PayPayBack => lost > 0 \/ gate[a] # "charged"
    BY <1>1, <1>3, <2>1 DEF Telling, BackKnows, Uncharged
  <2>4. \E answer \in {"order", "no"} : Step(bill[a], gate[a], "answered", answer)
    BY <1>1, <1>3, <2>1, <2>2, <2>3 DEF AnswerBack
  <2> HIDE DEF Step
  <2>5. QED BY <1>1, <1>4, <2>4
<1>6. CASE AskGateway
  <2>1. /\ back.pc = "sent" /\ bill[a] = "open" /\ UNCHANGED <<bill, overtaken, lost>>
        /\ \/ gate' = [gate EXCEPT ![a] = "charged"] /\ BackGoes("captured", "none")
           \/ gate' = [gate EXCEPT ![a] = "void"] /\ BackGoes("denied", "none")
           \/ gate' = gate /\ gate[a] # "charged" /\ BackGoes("answered", IF PayPayBack THEN "pending" ELSE "redirect")
    BY <1>6 DEF AskGateway, Sets, AnswerBack
  <2>2. \/ Step("open", "charged", "captured", "none") \/ Step("open", "void", "denied", "none")
        \/ Step("open", gate[a], "answered", IF PayPayBack THEN "pending" ELSE "redirect")
    BY <1>1, <1>3, <2>1
  <2> HIDE DEF Step
  <2>3. {"open"} \subseteq Bills /\ {"charged", "void"} \subseteq Gates
    BY DEF Bills, Gates
  <2>4. QED BY <1>1, <1>4, <2>2, <2>3
<1>7. CASE CompleteBack
  <2>1. /\ UNCHANGED <<gate, lost>>
        /\ \/ bill' = [bill EXCEPT ![a] = "paid"] /\ AnswerBack("order") /\ UNCHANGED overtaken
           \/ PayPayBack /\ AnswerBack("again") /\ UNCHANGED <<bill, overtaken>>
           \/ ~PayPayBack /\ AnswerBack("no") /\ UNCHANGED bill /\ overtaken' = overtaken \cup {a}
    BY <1>7 DEF CompleteBack, Sets, ServerError
  <2>2. bill[a] = "failed" => lost' > 0 \/ gate[a] = "void"
    BY <1>1, <2>1 DEF Telling, Verdict
  <2>3. \/ Step("paid", gate[a], "answered", "order")
        \/ \E answer \in {"no", "again"} : Step(bill[a], gate[a], "answered", answer)
    BY <1>1, <1>3, <2>1, <2>2 DEF AnswerBack
  <2> HIDE DEF Step
  <2>4. "paid" \in Bills
    BY DEF Bills
  <2>5. QED BY <1>1, <1>4, <2>3, <2>4
<1>8. CASE DenyBack
  <2>1. /\ UNCHANGED <<gate, overtaken, lost>> /\ gate[a] = "void"
        /\ \E answer \in {"pending", "no", "again"} :
              AnswerBack(answer) /\ (answer \in {"pending", "again"} => PayPayBack)
        /\ UNCHANGED bill \/ (bill[a] = "open" /\ bill' = [bill EXCEPT ![a] = "failed"])
    BY <1>8 DEF DenyBack, Sets, ServerError, Telling, BackKnows
  <2>2. PICK b \in {bill[a], "failed"}, answer \in {"pending", "no", "again"} : Step(b, gate[a], "answered", answer)
    BY <1>1, <1>3, <2>1 DEF AnswerBack
  <2> HIDE DEF Step
  <2>3. b \in Bills
    BY <1>1 DEF Bills
  <2>4. QED BY <1>1, <1>4, <2>2, <2>3
<1>9. CASE FailBack
  <2>1. /\ lost' = lost + 1 /\ UNCHANGED overtaken
        /\ \E answer \in {"again", "nothing", "no"} : AnswerBack(answer) /\ (answer = "again" => PayPayBack)
        /\ UNCHANGED bill \/ (bill[a] = "open" /\ bill' = [bill EXCEPT ![a] = "failed"])
        /\ UNCHANGED gate \/ gate' = [gate EXCEPT ![a] = "charged"]
    BY <1>9 DEF FailBack, GetsLost, Sets, ServerError
  <2>2. PICK b \in {bill[a], "failed"}, g \in {gate[a], "charged"}, answer \in {"again", "nothing", "no"} :
          Step(b, g, "answered", answer)
    BY <1>1, <1>3, <2>1 DEF AnswerBack
  <2> HIDE DEF Step
  <2>3. b \in Bills /\ g \in Gates
    BY <1>1 DEF Bills, Gates
  <2>4. QED BY <1>1, <1>4, <2>2, <2>3
<1>10. QED BY <1>5, <1>6, <1>7, <1>8, <1>9

\* The customer comes back, and is shown what was answered.
LEMMA CallbackTells ==
  ASSUME Telling, PayInv, Callback
  PROVE  Telling'
<1>1. /\ run \in [Attempts -> Runs] /\ lost \in Nat /\ bill \in [Attempts -> Bills] /\ gate \in [Attempts -> Gates]
      /\ back.pc # "idle" => back.attempt \in Attempts /\ run[back.attempt].pc = "over"
      /\ back.attempt # IdleBack.attempt \/ back.pc = "idle"
  BY NoneBack DEF PayInv, RunTypes, Telling, BillTypes, EndsFirst
<1>2. CASE Return
  <2>1. /\ page = "gateway" /\ about \in Attempts /\ run[about].pc = "over" /\ back.pc = "idle"
        /\ about # back.attempt /\ (IsCard(about) => Uncharged(about))
    BY <1>2 DEF Return, Telling, PageIsAbout
  <2>2. UNCHANGED <<bill, gate, overtaken, about, run, lost>> /\ late' = FALSE
    BY <1>2 DEF Return, payVars
  <2>3. CASE page' = "failed" /\ back' = back /\ bill[about] = "failed"
    <3>1. BillTypes' /\ Verdict' /\ EndsFirst' /\ BackKnows'
      BY <2>2, <2>3 DEF Telling, BillTypes, Verdict, EndsFirst, BackKnows, IsCard, Uncharged, Attempts, Backs
    <3>2. lost > 0 \/ gate[about] = "void"
      BY <2>1, <2>3 DEF Telling, Verdict
    <3>3. PageIsAbout' /\ PageTellsTruth'
      BY <1>1, <2>1, <2>2, <2>3, <3>2 DEF PageIsAbout, PageTellsTruth
    <3>4. QED BY <3>1, <3>3 DEF Telling
  <2>4. ASSUME NEW kind \in {"paypay", "threeDs"}, kind = "threeDs" <=> IsCard(about), page' = kind,
               back' = [pc |-> "sent", kind |-> kind, attempt |-> about, answer |-> "none", here |-> "here"]
        PROVE  Telling'
    <3>1. BillTypes' /\ Verdict'
      BY <2>1, <2>2, <2>4 DEF Telling, BillTypes, Verdict, Backs, Attempts
    <3>2. EndsFirst' /\ BackKnows'
      BY <2>1, <2>2, <2>4 DEF Telling, EndsFirst, BackKnows, IsCard, Uncharged
    <3>3. PageIsAbout' /\ PageTellsTruth'
      BY <2>1, <2>2, <2>4 DEF PageIsAbout, PageTellsTruth
    <3>4. QED BY <3>1, <3>2, <3>3 DEF Telling
  <2>5. QED BY <1>2, <2>3, <2>4 DEF Return, IsCard
\* The request has its answer, and the page its end.
<1>3. ASSUME NEW to \in {"complete", "failed", "gateway"}, End(to), back.pc = "answered",
             UNCHANGED <<payVars, run, late, lost>>,
             to = "complete" => back.answer = "order",
             to = "failed"   => late \/ back.answer = "no",
             to = "gateway"  => ~IsCard(back.attempt) \/ back.answer \in {"redirect", "nothing"}
      PROVE  Telling'
  <2>1. page' = to /\ about' = back.attempt /\ back' = IdleBack
    BY <1>3 DEF End, Show
  <2>2. BackStays
    BY <2>1, NoneBack DEF BackStays
  <2>3. to = "complete" => bill[back.attempt] = "paid"
    BY <1>3 DEF Telling, BackKnows
  <2>4. to = "failed" => (lost = 0 /\ ~late /\ back.attempt \notin overtaken => gate[back.attempt] # "charged")
    BY <1>3 DEF Telling, BackKnows
  <2>5. to = "gateway" /\ IsCard(back.attempt) => Uncharged(back.attempt)
    BY <1>3 DEF Telling, BackKnows, Uncharged
  <2>6. QED BY <1>1, <1>3, <2>1, <2>2, <2>3, <2>4, <2>5, PageTells
\* The answer is dropped, or waited for again.
<1>4. ASSUME Rest(IdleBack), UNCHANGED <<payVars, run, late, lost>>
      PROVE  Telling'
  <2>1. UNCHANGED <<bill, gate, overtaken, page, about>> /\ back' = IdleBack
    BY <1>4 DEF Rest, pageVars, payVars
  <2>2. BillTypes' /\ Verdict' /\ EndsFirst' /\ PageTellsTruth'
    BY <1>4, <2>1, NoneBack DEF Telling, BillTypes, Verdict, EndsFirst, PageTellsTruth, Attempts, Backs
  <2>3. BackKnows' /\ PageIsAbout'
    BY <1>4, <2>1, NoneBack DEF Telling, BackKnows, PageIsAbout, IsCard, Uncharged
  <2>4. QED BY <2>2, <2>3 DEF Telling
<1>5. ASSUME NEW pc \in {"waiting", "sent"}, back' = [back EXCEPT !.pc = pc, !.answer = "none"],
             back.pc # "idle", back.kind = "paypay",
             UNCHANGED <<payVars, page, about, run, late, lost>>
      PROVE  Telling'
  <2>1. back'.pc = pc /\ back'.answer = "none" /\ back'.kind = back.kind /\ back'.attempt = back.attempt
    BY <1>5 DEF Telling, BillTypes, Backs
  <2>2. BackKnows'
    BY <1>5, <2>1 DEF Telling, BackKnows, IsCard, Uncharged
  <2>3. /\ bill[back.attempt] \in Bills /\ gate[back.attempt] \in Gates
        /\ bill' = [bill EXCEPT ![back.attempt] = bill[back.attempt]]
        /\ gate' = [gate EXCEPT ![back.attempt] = gate[back.attempt]] /\ overtaken' = overtaken
    BY <1>1, <1>5 DEF payVars
  <2>4. bill[back.attempt] = "failed" => lost > 0 \/ gate[back.attempt] = "void"
    BY <1>1, <1>5 DEF Telling, Verdict
  <2>5. back.attempt \in Attempts /\ lost' \in Nat /\ lost' >= lost /\ overtaken \subseteq overtaken'
    BY <1>1, <1>5, <2>3
  <2>6. UNCHANGED <<page, about, run, late>> /\ UNCHANGED lost
    BY <1>5
  <2>7. pc \in {"sent", "captured", "denied", "answered", "waiting"}
    OBVIOUS
  <2>8. QED BY <1>5, <2>2, <2>3, <2>4, <2>5, <2>6, <2>7, BackTells
<1>6. CASE SettlePayPay
  <2>1. PayPayBack => ~IsCard(back.attempt) /\ back.kind = "paypay"
    BY <1>6 DEF SettlePayPay, PayPayBack, Telling, BackKnows
  <2>2. QED BY <1>3, <1>4, <1>5, <1>6, <2>1 DEF SettlePayPay, Rest, pageVars
<1>7. CASE Retry
  <2>1. back.answer = "none" /\ back = [back EXCEPT !.answer = "none"] /\ back.kind = "paypay"
    BY <1>7 DEF Retry, Telling, BackKnows, BillTypes, Backs
  <2>2. back' = [back EXCEPT !.pc = "sent", !.answer = "none"]
    BY <1>7, <2>1 DEF Retry, Telling, BillTypes, Backs
  <2>3. QED BY <1>5, <1>7, <2>1, <2>2 DEF Retry, pageVars
<1>8. CASE TimeUp
  BY <1>8, NothingTold DEF TimeUp, pageVars, payVars
<1>9. CASE SettleThreeDs
  <2>1. back.answer \in {"order", "no", "redirect", "nothing"}
    BY <1>9 DEF SettleThreeDs, PayPayBack, Telling, BackKnows, BillTypes, Backs
  <2>2. QED BY <1>3, <1>4, <1>9, <2>1 DEF SettleThreeDs
<1>10. QED BY <1>2, <1>6, <1>7, <1>8, <1>9, ServerTells DEF Callback, BackStep

LEMMA NextTells == Telling /\ PayInv /\ [CheckoutNext]_checkoutVars => Telling'
<1>1. SUFFICES ASSUME Telling, PayInv, [CheckoutNext]_checkoutVars PROVE Telling'
  OBVIOUS
<1>2. CASE UNCHANGED checkoutVars
  BY <1>1, <1>2, NothingTold DEF checkoutVars, pageVars, backVars, payVars
<1>3. QED BY <1>1, <1>2, FormTells, CheckoutTells, CallbackTells DEF CheckoutNext

\* The page a customer ends on tells what became of the payment, whichever
\* pages were left while requests were under way, however many payments were
\* begun, and whichever webhooks came between the steps of a way back
\* (handleFinalizeResponse, PayPayCallback, redirectByThreeDsResult).
THEOREM PaymentsAreToldRight == CheckoutSpec => []PageTellsTruth
<1>1. Telling => PageTellsTruth
  BY DEF Telling
<1>2. QED BY <1>1, InitPays, NextPays, InitTells, NextTells, PTL DEF CheckoutSpec
=============================================================================
