---------------------------- MODULE CheckoutPage ----------------------------
(***************************************************************************)
(* Paying in the browser: the checkout page with its form and the gateway's *)
(* card widget, the requests handleCheckout sends one after the other, the  *)
(* gateway's own site, and the two pages it sends the customer back to.     *)
(* A page that is left does not take its requests with it: their answers    *)
(* still arrive, and still navigate.  Leaving the site does.                *)
(*                                                                         *)
(* The server is what these requests see of PaymentFlow: an attempt places  *)
(* one order, whose payment is open, paid or failed here, and open, charged *)
(* or void at the gateway; a webhook may bring the one in line with the     *)
(* other at any time.  The way back asks the gateway first and writes the   *)
(* verdict later.  Amounts, texts and waiting times are left out.           *)
(***************************************************************************)
EXTENDS Naturals, FiniteSets

CONSTANTS
    MaxAttempts,\* bound: presses of the pay button, each with its order
    Cards,      \* the customer's saved cards
    NoCard,
    MaxStays,   \* bound: visits to the checkout page
    MaxLost     \* bound: requests that fail, to the server or from it, for other reasons

ASSUME NoCardAssumption == NoCard \notin Cards /\ MaxAttempts \in Nat
ASSUME CheckoutBounds   == MaxStays \in Nat /\ MaxLost \in Nat

VARIABLES
    bill,                   \* the order of each attempt, see Bills
    gate,                   \* the same payment at the gateway, see Gates
    overtaken,              \* history: charges a webhook told before their own request
    page, about,            \* the page shown and the attempt it is about
    method, picked,         \* paymentMethod, selectedSavedCardId
    save,                   \* saveCard and saveAsDefault: "no", "yes", "default"
    sdk, formError, form,   \* useFincode: isReady or error; its sticky error; uiRef
    processing,             \* isProcessing
    run,                    \* handleCheckout, as often as it was called
    mine,                   \* the calls of the page as it is mounted now
    back,                   \* PayPayCallback's effect, or the callback of 3-D Secure
    late,                   \* its MAX_WAIT_MS is over
    stays, lost

formVars   == <<method, picked, save>>
widgetVars == <<sdk, formError, form>>
pageVars   == <<page, about, formVars, widgetVars, processing, mine>>
backVars   == <<back, late>>
payVars    == <<bill, gate, overtaken>>
checkoutVars == <<payVars, pageVars, run, backVars, stays, lost>>

Attempts  == 1 .. MaxAttempts
NoAttempt == 0
Methods == {"new_card", "saved_card", "paypay"}
Bills   == {"none", "open", "paid", "failed"}
Gates   == {"open", "charged", "void"}
Pages   == {"elsewhere", "checkout", "gateway", "paypay", "threeDs", "complete", "failed"}
IdleRun  == [pc |-> "idle", method |-> "none", card |-> NoCard, save |-> "no", answer |-> "none"]
IdleBack == [pc |-> "idle", kind |-> "none", attempt |-> NoAttempt, answer |-> "none", here |-> "gone"]
Active(a) == run[a].pc \notin {"idle", "over"}

CheckoutInit ==
    /\ bill = [a \in Attempts |-> "none"] /\ gate = [a \in Attempts |-> "open"]
    /\ overtaken = {}
    /\ page = "elsewhere" /\ about = NoAttempt
    /\ method = "none" /\ picked = NoCard
    /\ save = "no"
    /\ sdk = "absent" /\ formError = FALSE /\ form = FALSE
    /\ processing = FALSE
    /\ run = [a \in Attempts |-> IdleRun] /\ mine = {}
    /\ back = IdleBack /\ late = FALSE
    /\ stays = 0 /\ lost = 0

GetsLost == lost < MaxLost /\ lost' = lost + 1

-----------------------------------------------------------------------------
\* The page and its form.

\* CardPaymentForm's effect: the widget is mounted when it can be, and the
\* error of a mount that failed stays.
WantsForm == method' = "new_card" /\ sdk' = "ready" /\ ~formError

MountForm ==
    IF WantsForm
    THEN form' \in BOOLEAN /\ formError' = ~form'
    ELSE form' = FALSE /\ UNCHANGED formError

\* useCheckoutForm: the default card, or the first, if there is one.
OpenCheckout ==
    /\ page = "elsewhere" /\ stays < MaxStays /\ stays' = stays + 1
    /\ page' = "checkout" /\ about' = NoAttempt
    /\ IF Cards = {} THEN method' = "none" /\ picked' = NoCard
       ELSE method' = "saved_card" /\ picked' \in Cards
    /\ save' = "no"
    /\ sdk' \in {"loading", "ready", "error"} \* "ready" when the script is there
    /\ formError' = FALSE /\ form' = FALSE
    /\ processing' = FALSE /\ mine' = {}
    /\ UNCHANGED <<payVars, run, backVars, lost>>

\* The script of useFincode has loaded, and Fincode(publicKey) worked, or not.
LoadWidget ==
    /\ page = "checkout" /\ sdk = "loading"
    /\ sdk' \in {"ready", "error"} /\ UNCHANGED formVars
    /\ MountForm
    /\ UNCHANGED <<payVars, page, about, processing, run, mine, backVars, stays, lost>>

\* PaymentMethodSelector and SavedCardSelector, disabled while processing.
ChooseMethod ==
    /\ page = "checkout" /\ ~processing
    /\ method' \in Methods \ {method} /\ UNCHANGED sdk
    /\ MountForm
    /\ UNCHANGED <<payVars, page, about, picked, save, processing, run,
                   mine, backVars, stays, lost>>

ChooseCard ==
    /\ page = "checkout" /\ ~processing /\ method = "saved_card"
    /\ picked' \in Cards \ {picked}
    /\ UNCHANGED <<payVars, page, about, method, save, widgetVars, processing,
                   run, mine, backVars, stays, lost>>

\* handleSetSaveCard and handleSetSaveAsDefault.
CheckBoxes ==
    /\ page = "checkout" /\ ~processing /\ method = "new_card"
    /\ \/ save' = IF save = "no" THEN "yes" ELSE "no"
       \/ save # "no" /\ save' = IF save = "yes" THEN "default" ELSE "yes"
    /\ UNCHANGED <<payVars, page, about, method, picked, widgetVars, processing, run,
                   mine, backVars, stays, lost>>

\* savedCardId, and isCheckoutDisabled.
SavedCardId == IF method = "saved_card" THEN picked ELSE NoCard
\* Mutant: the button is not disabled while a payment is under way.
CanPayTwice == page = "checkout" /\ method # "none"

CanPay ==
    /\ page = "checkout" /\ ~processing /\ method # "none"
    /\ method = "new_card" => sdk = "ready"
    /\ method = "saved_card" => SavedCardId # NoCard

\* handleCheckout up to its request.  What it will send is what the form says now.
Pay(a) ==
    /\ CanPay /\ run[a] = IdleRun /\ \A b \in 1 .. a - 1 : run[b] # IdleRun
    /\ processing' = TRUE
    /\ run' = [run EXCEPT ![a] =
                 [IdleRun EXCEPT !.pc = "checkout", !.method = method, !.card = SavedCardId,
                                 !.save = save]]
    /\ mine' = mine \cup {a}
    /\ UNCHANGED <<payVars, page, about, formVars, widgetVars, backVars, stays, lost>>

\* Every way to another page ends the form.  A page of this site leaves the
\* calls of handleCheckout and the request of PayPayCallback to themselves
\* (isDisposed is set, and a timer is cleared); the gateway's site ends every
\* script, and the server alone goes on with what it has begun.
Show(to, a) ==
    /\ page' = to /\ about' = a
    /\ method' = "none" /\ picked' = NoCard /\ save' = "no"
    /\ sdk' = "absent" /\ formError' = FALSE /\ form' = FALSE
    /\ processing' = FALSE /\ mine' = {}

Over(a) == [IdleRun EXCEPT !.pc = "over", !.method = run[a].method]
Disposed == CASE back.pc \in {"idle", "waiting"} -> IdleBack
              [] back.here = "here" -> [back EXCEPT !.here = "left"]
              [] OTHER -> back

LeaveSite(a) ==
    /\ Show("gateway", a)
    /\ run' = [b \in Attempts |-> IF Active(b) THEN Over(b) ELSE run[b]]
    /\ back' = IF back.pc \in {"sent", "captured", "denied"} THEN [back EXCEPT !.here = "gone"] ELSE IdleBack

\* The customer goes back, or opens another page of the site.
Leave ==
    /\ page # "elsewhere"
    /\ Show("elsewhere", NoAttempt) /\ back' = Disposed
    /\ UNCHANGED <<payVars, run, late, stays, lost>>

-----------------------------------------------------------------------------
\* handleCheckout.

Answer(a, answer) == run' = [run EXCEPT ![a].pc = "answered", ![a].answer = answer]

\* CheckoutController::checkout: the order is placed, or not.
ServeCheckout(a) ==
    /\ run[a].pc = "checkout"
    /\ \/ bill' = [bill EXCEPT ![a] = "open"] /\ Answer(a, "placed") /\ UNCHANGED lost
       \/ Answer(a, "error") /\ UNCHANGED <<bill, lost>>
       \/ bill' \in {bill, [bill EXCEPT ![a] = "open"]} /\ Answer(a, "error") /\ GetsLost
    /\ UNCHANGED <<gate, overtaken, pageVars, backVars, stays>>

\* Mutant: the button is not released.
ComplainOnly(a) ==
    /\ run' = [run EXCEPT ![a] = Over(a)]
    /\ UNCHANGED <<processing, page, about, formVars, widgetVars, mine, back>>

\* The error is shown and the button released, if the page is still there.
Complain(a) ==
    /\ run' = [run EXCEPT ![a] = Over(a)]
    /\ processing' = (processing /\ a \notin mine)
    /\ UNCHANGED <<page, about, formVars, widgetVars, mine, back>>

\* A new card is turned into a token first; a saved one is charged at once;
\* PayPay's page is opened, if its address may be.
SettleCheckout(a) ==
    /\ run[a].pc = "answered" /\ run[a].answer \in {"placed", "error"}
    /\ IF run[a].answer = "error" THEN Complain(a)
       ELSE CASE run[a].method = "paypay" -> LeaveSite(a) \/ Complain(a)
              [] OTHER ->
                   /\ run' = [run EXCEPT ![a].pc = IF run[a].card = NoCard THEN "token" ELSE "finalize",
                                         ![a].answer = "none"]
                   /\ UNCHANGED <<pageVars, back>>
    /\ UNCHANGED <<payVars, late, stays, lost>>

\* createToken: it needs the widget this call began with, and a card in it.
CreateToken(a) ==
    /\ run[a].pc = "token"
    /\ \/ /\ form /\ a \in mine
          /\ run' = [run EXCEPT ![a].pc = "finalize"]
          /\ UNCHANGED <<pageVars, back>>
       \/ /\ run' = [run EXCEPT ![a] = Over(a)]
          /\ Show("failed", a) /\ back' = Disposed
    /\ UNCHANGED <<payVars, late, stays, lost>>

\* CheckoutController::finalize for a card: a challenge; or refused by the
\* gateway, or given up before or after it with the payment left as it is.
ServeFinalize(a) ==
    /\ run[a].pc = "finalize"
    /\ \/ Answer(a, "redirect") /\ UNCHANGED <<bill, gate, lost>>
       \/ /\ bill' = [bill EXCEPT ![a] = "failed"] /\ gate' = [gate EXCEPT ![a] = "void"]
          /\ Answer(a, "no") /\ UNCHANGED lost
       \/ Answer(a, "no") /\ UNCHANGED <<bill, gate>> /\ (UNCHANGED lost \/ GetsLost)
    /\ UNCHANGED <<overtaken, pageVars, backVars, stays>>

\* Mutant: an answer without an address counts as success.
LandsAnyway(answer) == "complete"

\* Where an answer leads that does not lead off the site.
LandsOn(answer) == IF answer = "order" THEN "complete" ELSE "failed"

\* handleFinalizeResponse; an unsafe address counts as a failure.
SettleFinalize(a) ==
    /\ run[a].pc = "answered" /\ run[a].answer \in {"order", "redirect", "no"}
    /\ \/ run[a].answer = "redirect" /\ LeaveSite(a)
       \/ /\ run' = [run EXCEPT ![a] = Over(a)]
          /\ Show(LandsOn(run[a].answer), a)
          /\ back' = Disposed
    /\ UNCHANGED <<payVars, late, stays, lost>>

-----------------------------------------------------------------------------
\* The gateway's site and the way back.

\* The customer pays in the PayPay app or gives up, before the way back or after.
PayInApp ==
    /\ page \in {"gateway", "paypay"} /\ run[about].method = "paypay"
    /\ gate[about] = "open"
    /\ gate' \in {[gate EXCEPT ![about] = g] : g \in {"charged", "void"}}
    /\ UNCHANGED <<bill, overtaken, pageVars, run, backVars, stays, lost>>

\* The webhook of a payment the gateway is done with, PayPay's or a card's.
Webhook(a) ==
    /\ bill[a] = "open" /\ gate[a] # "open"
    /\ bill' = [bill EXCEPT ![a] = IF gate[a] = "charged" THEN "paid" ELSE "failed"]
    /\ UNCHANGED <<gate, overtaken, pageVars, run, backVars, stays, lost>>

\* PayPayCallback's page sends its request at once, unless its payment has
\* failed; for 3-D Secure the way back is itself the request, of the web route.
\* One way back at a time.
Return ==
    /\ page = "gateway" /\ back.pc = "idle"
    /\ LET kind == IF run[about].method = "paypay" THEN "paypay" ELSE "threeDs" IN
       IF kind = "paypay" /\ bill[about] = "failed" THEN page' = "failed" /\ UNCHANGED back
       ELSE /\ page' = kind
            /\ back' = [pc |-> "sent", kind |-> kind, attempt |-> about, answer |-> "none", here |-> "here"]
    /\ late' = FALSE
    /\ UNCHANGED <<payVars, about, formVars, widgetVars, processing, run, mine, stays, lost>>

PayPayBack == back.kind = "paypay"
Sets(f, x)  == [f EXCEPT ![back.attempt] = x]
BackGoes(pc, answer) == back' = [back EXCEPT !.pc = pc, !.answer = answer]
AnswerBack(answer)   == BackGoes("answered", answer)
\* An exception of the server: PayPayCallback asks again, the web route fails.
ServerError == IF PayPayBack THEN "again" ELSE "no"
OnServer == UNCHANGED <<pageVars, run, late, stays>>

\* The payment is over already, which 3-D Secure takes for a failure unless it
\* happens after its first look; or the challenge comes without its parameter.
TurnAway ==
    /\ back.pc = "sent"
    /\ \/ bill[back.attempt] = "paid" /\ AnswerBack("order")
       \/ bill[back.attempt] = "failed" /\ AnswerBack("no")
       \/ ~PayPayBack /\ AnswerBack("no")
    /\ OnServer /\ UNCHANGED <<payVars, lost>>

\* confirm and executeAuthentication, confirmAndExecute: the gateway is asked, and
\* charges a card or refuses it.  PayPay's EXPIRED and FAILED pass for pending.
AskGateway ==
    LET g == gate[back.attempt]
        decides == ~PayPayBack /\ g = "open"
    IN /\ back.pc = "sent" /\ bill[back.attempt] = "open"
       /\ \/ (g = "charged" \/ decides) /\ gate' = Sets(gate, "charged") /\ BackGoes("captured", "none")
          \/ (g = "void" \/ decides) /\ gate' = Sets(gate, "void") /\ BackGoes("denied", "none")
          \/ /\ decides \/ (PayPayBack /\ g # "charged")
             /\ AnswerBack(IF PayPayBack THEN "pending" ELSE "redirect") /\ UNCHANGED gate
       /\ OnServer /\ UNCHANGED <<bill, overtaken, lost>>

\* Their transaction, some time later: an order that a webhook has moved on
\* meanwhile cannot be moved again, and transitionTo throws.
CompleteBack ==
    /\ back.pc = "captured"
    /\ IF bill[back.attempt] = "open"
       THEN bill' = Sets(bill, "paid") /\ AnswerBack("order") /\ UNCHANGED overtaken
       ELSE /\ AnswerBack(ServerError) /\ UNCHANGED bill
            /\ overtaken' = IF PayPayBack THEN overtaken ELSE overtaken \cup {back.attempt}
    /\ OnServer /\ UNCHANGED <<gate, lost>>

\* PayPay's confirm says no more than that it is not confirmed.
DenyBack ==
    /\ back.pc = "denied"
    /\ IF bill[back.attempt] = "open"
       THEN bill' = Sets(bill, "failed") /\ AnswerBack(IF PayPayBack THEN "pending" ELSE "no")
       ELSE AnswerBack(ServerError) /\ UNCHANGED bill
    /\ OnServer /\ UNCHANGED <<gate, overtaken, lost>>

\* Request or answer is lost; the gateway's exception fails the payment, charged
\* or not, or the session is over (401); the transaction is aborted.
FailBack ==
    /\ GetsLost
    /\ \/ back.pc \in {"sent", "answered"} /\ AnswerBack(IF PayPayBack THEN "again" ELSE "nothing")
          /\ UNCHANGED <<bill, gate>>
       \/ /\ back.pc = "sent" /\ AnswerBack("no")
          /\ UNCHANGED bill \/ (bill[back.attempt] = "open" /\ bill' = Sets(bill, "failed"))
          /\ UNCHANGED gate \/ (~PayPayBack /\ gate[back.attempt] = "open" /\ gate' = Sets(gate, "charged"))
       \/ back.pc \in {"captured", "denied"} /\ AnswerBack(ServerError) /\ UNCHANGED <<bill, gate>>
    /\ OnServer /\ UNCHANGED overtaken

Rest(b) == back' = b /\ UNCHANGED pageVars
End(to) == back' = IdleBack /\ Show(to, back.attempt)

\* finalizePayment after its request: success navigates even from a page that
\* was left, failure does not; otherwise it waits, but not for ever.
SettlePayPay ==
    /\ back.pc = "answered" /\ PayPayBack
    /\ IF back.here = "gone" THEN Rest(IdleBack)
       ELSE IF back.answer = "order" THEN End("complete")
       ELSE IF back.here = "left" THEN Rest(IdleBack)
       ELSE IF back.answer = "no" \/ late THEN End("failed")
       ELSE Rest([back EXCEPT !.pc = "waiting", !.answer = "none"])
    /\ UNCHANGED <<payVars, run, late, stays, lost>>

Retry ==
    /\ back.pc = "waiting" /\ back' = [back EXCEPT !.pc = "sent"]
    /\ UNCHANGED <<payVars, pageVars, run, late, stays, lost>>

\* canRetry turns false.
TimeUp ==
    /\ page = "paypay" /\ ~late /\ late' = TRUE
    /\ UNCHANGED <<payVars, pageVars, run, back, stays, lost>>

\* redirectByThreeDsResult, followed by a browser that still waits for it.  What
\* fails to load may be sent again from where it was.
SettleThreeDs ==
    /\ back.pc = "answered" /\ ~PayPayBack
    /\ IF back.here # "here" THEN Rest(IdleBack)
       ELSE End(CASE back.answer = "order" -> "complete"
                  [] back.answer = "no" -> "failed"
                  [] OTHER -> "gateway")
    /\ UNCHANGED <<payVars, run, late, stays, lost>>

-----------------------------------------------------------------------------
AtCheckout == OpenCheckout \/ LoadWidget \/ ChooseMethod \/ ChooseCard \/ CheckBoxes \/ Leave
Checkout(a) == Pay(a) \/ ServeCheckout(a) \/ SettleCheckout(a) \/ CreateToken(a)
                \/ ServeFinalize(a) \/ SettleFinalize(a)
BackStep == TurnAway \/ AskGateway \/ CompleteBack \/ DenyBack \/ SettlePayPay \/ Retry \/ SettleThreeDs
Callback == Return \/ BackStep \/ FailBack \/ TimeUp

CheckoutNext ==
    AtCheckout \/ PayInApp \/ Callback \/ \E a \in Attempts : Checkout(a) \/ Webhook(a)

\* Requests end at the latest with REQUEST_TIMEOUT_MS, the widget calls back,
\* timers fire.  The customer may stay on the gateway's site.
CheckoutFairness ==
    /\ \A a \in Attempts : WF_checkoutVars(ServeCheckout(a) \/ SettleCheckout(a) \/ CreateToken(a)
                                           \/ ServeFinalize(a) \/ SettleFinalize(a))
    /\ WF_checkoutVars(BackStep)
    /\ WF_checkoutVars(TimeUp)

CheckoutSpec == CheckoutInit /\ [][CheckoutNext]_checkoutVars /\ CheckoutFairness

-----------------------------------------------------------------------------
\* The page a customer ends on tells what became of the payment: "complete"
\* only for one that is paid, "failed" for one that is not charged, and never
\* will be; unless a request failed for other reasons, PayPay was waited for in
\* vain, or the webhook of a card overtook the request that charged it
\* (handleFinalizeResponse, PayPayCallback, redirectByThreeDsResult).
PageTellsTruth ==
    /\ page = "complete" => bill[about] = "paid"
    /\ page = "failed" /\ lost = 0 /\ ~late /\ about \notin overtaken => gate[about] # "charged"

\* A page pays once at a time, whatever the customer presses while requests
\* are under way; a second payment takes leaving the page (isProcessing lives
\* in the page, not in the cart).
OnePaymentPerPage == Cardinality({a \in mine : Active(a)}) <= 1

\* No payment spins for ever: the button is released or another page comes,
\* and both pages the gateway returns to are left, unless a challenge keeps
\* asking for another one.
PaymentsEnd ==
    /\ []<>~processing
    /\ []<>(page \notin {"paypay", "threeDs"})
=============================================================================
