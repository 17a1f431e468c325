# Fleximo in TLA+

Fleximo is a mobile-order system for restaurants: customers order and pay from
a table, the payment gateway fincode charges card or PayPay, and the kitchen
works through the paid orders on a display (KDS).  This directory holds
specifications of its back end and of the browser's side of it, the TLC runs
that check them on small instances, and TLAPS proofs of what holds on every
instance.

    tlc -workers 2 -config PayCard.cfg MCPaymentFlow
    tlc -workers 2 -config StaffPages.cfg StaffPages
    tlapm PaymentFlowProofs.tla
    tlapm PaymentRefinement.tla
    tlapm CheckoutCartProofs.tla
    tlapm CheckoutPageProofs.tla
    tlapm CardVaultProofs.tla
    tlapm MenuCatalogProofs.tla
    tlapm StaffPagesProofs.tla
    tlapm CustomerPagesProofs.tla

## The system

| Component | State | Operations | Talks to | Hard part | What makes it correct |
|---|---|---|---|---|---|
| Status machines (`OrderStatus`, `PaymentStatus`, `Order`, `Payment`) | `orders.status`, `payments.status` | `transitionTo` under a row lock | every writer below | two rows that must agree | a failed payment never has a confirmed order, no status goes back |
| Checkout and payment (`CheckoutOrchestrator`, `PaymentService`, `CardPaymentService`, `PayPayPaymentService`, `ThreeDsPaymentService`) | the rows, `payments.fincode_id` | checkout, finalize, 3DS callback (web and API) | gateway, in the middle of the request | a status read before a gateway call and used after it; a call that times out but charged; a process that dies half-way | nothing unpaid is confirmed, no charge is lost, every request ends |
| Webhooks (`FincodeWebhookController`, `WebhookService`, `ProcessPaymentWebhookJob`) | `webhook_logs`, the job queue | receive, dispatch, process, retry, give up | rows | redelivery, reordering, retries after commit, races with the customer's request | each event has its effect once, a log row tells the truth |
| Gateway client (`FincodeClient`, `FincodeRequestExecutor`) | none | one HTTP call, retried | fincode | retry after an answer was lost | at most one payment per attempt |
| Cart and order creation (`CartService`, `OrderCreationService`, `OrderNumberGenerator`) | carts, items, number sequence | add, change, remove, check out | checkout | two checkouts of one cart | one order per cart, unique numbers |
| Idempotency (`EnsureIdempotencyKey`) | `idempotency_keys` | begin, store, replay, expire | checkout | a retry while the first still runs or after it died | one execution per key |
| Kitchen board (`KdsService`, `useKdsPolling`, `useKdsOrderActions`, `useReadyAutoComplete`) | order status; the browser's cards, the time of its last poll, the updates it waits for | poll, advance, reject, complete by itself | rows, through polls and PATCHes | polls that overlap and overtake an update; incremental answers; a rollback of the whole list | the board converges to the rows; an incremental poll passes over nothing |
| Cart store (`cartStore.ts`) | an optimistic copy of the cart, a queue of quantities | add, change, remove, clear, fetch, log out | cart API | a debounce, batches, answers out of order, rollbacks over newer choices | the last choice wins; when all is quiet the store shows the server's cart |
| Checkout page (`useCheckoutPayment`, `useFincode`, `PayPayCallback`, `CheckoutPageController`) | form, widget, the request under way | pay, make a token, follow the redirects, come back | checkout API, the gateway's pages | requests that outlive their page, a second press, polling that gives up, a webhook between the gateway's answer and the verdict | one payment at a time, the last page tells what became of it |
| Order pages (`useOrderStatusPolling`, `usePollingTimer`) | badge, timer, ring | poll, hide, show, ring, order again | order status API | overlapping polls, hidden tabs, failures | the badge never goes back, the end is shown, a ready order rings |
| Saved cards (`FincodeCustomerService`, `useCardManagement`) | `fincode_customers`, `fincode_cards`; the gateway's; the page's list | register, delete | gateway | a lock that expires, a lost answer, a second tab | each row has its card at the gateway, the page shows the rows |
| Menu (`MenuItemService` and its kin, `PublicMenuService`, `CartOptionValidator`, the menu pages) | rows of items, groups, options, categories; the cached menu; forms | edit, toggle, delete, read, choose, add to the cart | cart | a cache dropped before the commit, a drop that fails, forms filled in from an old menu, a toggle without a target on a list that loads late | a cached menu is old only by a known race, a refusal has a reason, a toast is true |
| Dashboard (`cachedGet`, `useDashboardDataFetcher`, the chart hooks) | cache, shared requests, figures of each chart | open, choose a period, retry | dashboard API | older answers under a newer label, shared requests, stale entries | a chart shows the period it names, nothing spins for ever |
| Business hours, analytics on the server, tenancy and accounts, favorites, other pages | - | - | - | time zones, aggregation | not modelled, see below |

## The modules

| Module | What it is |
|---|---|
| `Statuses` | the two enumerations with their transition tables |
| `OrderLifecycle` | the abstract promise: how the status of an order, its payment, the charge and the refund may move, without requests, webhooks or faults |
| `PaymentFlow` | checkout, payment, webhooks and kitchen, step by step |
| `PaymentFlowProofs` | the inductive invariant and its proof |
| `PaymentRefinement` | the proofs that order and payment agree and that `PaymentFlow` implements `OrderLifecycle` |
| `CheckoutCart` | a customer's cart and the checkouts of it, each under an idempotency key |
| `CheckoutCartProofs` | its inductive invariant and the proof |
| `KdsBoard` | the kitchen's board in the browser against the orders on the server |
| `Dashboard` | the charts, the requests they share and the cache of `cachedGet` |
| `StaffPages` | the two pages of the staff, of which a device shows one |
| `StaffPagesProofs` | the proofs about both: what a chart shows, what a poll may pass over |
| `CartStore` | the cart in the browser, its queue of quantities, and the way to the order |
| `CheckoutPage` | paying in the browser, up to the page that tells how it ended |
| `CheckoutPageProofs` | the proofs that it pays once at a time and that the last page tells the truth |
| `OrderWatch` | the pages that wait for an order |
| `CardVault` | saved cards: two tabs, the service, the gateway |
| `CardVaultProofs` | the proofs that a saved card is the gateway's and that a page shows the cards that are saved |
| `CustomerPages` | the four pages of a customer, of which a browser shows one |
| `CustomerPagesProofs` | the proofs about the cart and the order page (the other two have their own) |
| `MenuCatalog` | the menu: the staff's edits, the cache, the customer's form, the server's check |
| `MenuCatalogProofs` | the proofs about the cache, the toasts and the customer's form |
| `MCPaymentFlow`, `MCCheckoutCart`, `MCMenuCatalog` | symmetry and values, for TLC; the first two extend the proofs, whose invariants the runs check too |

`PaymentFlow` starts where a checkout has placed its order; `CheckoutCart` has
the steps before and after it, and the whole of `PaymentService::initiate` is
one step there, which starts a payment or fails it.  The browser's modules see
the server as what it may answer: `CheckoutPage` reduces `PaymentFlow` to a bill
that is open, paid or failed, `KdsBoard` and `OrderWatch` use its status machine
(`Statuses`) for every move of an order.

### PaymentFlow and the code

A database transaction is one action, since every status in it is read under
the row lock it is written with (`lockForUpdate` in `transitionTo`).  A gateway
call is one action and the handling of its answer the next, so webhooks, other
requests, the kitchen and crashes come in between.  `pc[r]` names the next
step of request slot `r`:

| pc | code |
|---|---|
| `initiate`, `create`, `execute`, `save` | `processCheckout` after the order is committed: `PaymentService::initiate`, then `initiateCardPayment` or `PayPayPaymentService::initiate` |
| `get`, `confirm`, `deny` | `finalizePayment` without token: `PayPayPaymentService::confirm` |
| `markProcessing`, `exec` | `finalizePayment` with a card: `executePaymentFor3ds` |
| `auth`, `authResult`, `capture`, `complete`, `reject` | the 3DS callback: `process3dsCallback` and `ThreeDsPaymentService` |
| `fail`, `fbPayment`, `fbOrder` | `handleFincodeException`: one transaction, then its two fallbacks |

`order`, `payment` and `linked` are columns; `announced` counts
`PaymentCompleted` events; `log`, `job` and `tries` are the webhook log row,
its queued job and the attempts used.  `gateway` and `sent` are the external
service, modelled from how the code uses it: the state of the payment at
fincode and the events it has sent, which it may send again at any time and in
any order.  `CheckoutOrchestrator` creates one payment per order, so the
payment is named by its order.

Faults, each with a bound: a gateway call that ends in an exception after it
may or may not have taken effect (`MaxApiErrors`), a PHP process or queue
worker that dies between two steps (`MaxCrashes`), a transaction the database
aborts (`MaxDbErrors`).  `RepeatAnswers` leaves open whether fincode answers a
second capture like the first one or with an error.

A callback may come for a payment that has no access id yet, which fails it
(`Callback`); a saved card that is not the customer's is refused before the
gateway is asked (`RefuseSavedCard`); a PayPay payment in an error state may
answer as pending, since `toPaymentStatus` takes EXPIRED for that
(`GetPayment`).

Left out: amounts, the cart (the order is taken as created), the wording of
answers, log lines, the signature checks (a request that fails them changes
nothing), and the retries inside `FincodeRequestExecutor`, which are one call
here.

### CheckoutCart and the code

`EnsureIdempotencyKey` wraps the handler: `Begin` is `getOrCreateRecord` and
the answer for a key that is in use, belongs to another request or has an
answer; `Store` is `persistResponse`, which keeps any answer but a 5xx.
In between, `pc[r]` names the next step:

| pc | code |
|---|---|
| `load` | `CheckoutRequest::getCart`: the cart and its items, which may not be empty |
| `validate` | the rest of `validateForCheckout`, which loads the items a second time (`saw`) |
| `place` | the transaction under the locks on cart and restaurant: `createFromCart` |
| `initiate` | `PaymentService::initiate`, outside it |
| `clear` | `clearItems` in a transaction of its own, tried twice |
| `respond` | the order is read again (`refresh`, outside any `try`) and the 201 is built |
| `answer` | back in the middleware |

`record`, `hash` and `expired` are columns of `idempotency_keys` (`hash` is the
request: the cart it names); `owner`, `ordersOf`, `freed` and `kept` are history:
who will still write the row, the orders placed since it was created, those
whose payment had started when a 5xx freed the key, and those whose items
`clearItems` left in the cart.  An item is added at
most once, so that an item in two orders was ordered twice.  What a check may
refuse for data the model has not (an unavailable item, a paused restaurant)
it may always refuse.

Faults: a step that ends in a 5xx, also after the payment has started, or a
clear that fails twice (`MaxErrors`), and a killed process (`MaxCrashes`), which leaves its key unanswered until it
expires.  A key expires only when no request works under it: 30 minutes
(`TTL_MINUTES`) are far longer than PHP lets a request run.

Left out: amounts, options of an item, updates of a quantity, the order code
and its number sequence, several carts of one customer (they share no row).

### The browser's modules and the code

In all of them a request is three steps: sent, served, settled.  What the
server does is one of them, what the page does with the answer another, so that
answers overlap and overtake one another, and a request that fails may have
been served or not.  `MaxFails`, `MaxLost`, `MaxMisses`, `MaxMishaps` and
`MaxOutages` bound such failures, `MaxEvents`, `MaxActs`, `MaxPresses` and
their like what people do.

`KdsBoard`: `card` is the list of orders (status, and whether `ready_at` is
known), `since` and `count` the refs of `useKdsPolling`, `expects` the guard of
`STATUS_SYNC_GUARD_TTL_MS`.  `Ask`, `Answer`, `Apply` are `fetchOrders`, the
query of `KdsService::getOrders` and the merge or the replacement of the list.
`Begin`, `Serve`, `Agreed`, `RollBack` are `updateOrderStatus`; `Tap`,
`Intend`, `CarryOut` the buttons, the dialog and the long press, which act on
what the card was when they began.  Time is a clock in whole seconds, as in
`updated_at`: two changes may fall into one second.  The board stays open and
it stays the same day.

`Dashboard`: `store`, `fresh`, `kept` are the entries of `cache.ts`, in order of
use, `inflight` its map of shared requests.  `Fetch` is `fetchData` down to
what `cachedGet` finds; `Settle` is the end of both, for everybody who waits.
`overtaken` is history: a card that asked for something else before its answer
came.

`CartStore`: `queued`, `timer`, `flushing`, `again` are the module variables of
`cartStore.ts`, `seq` is `quantityOperationSeq`, and `sent` is the batch under
way.  `Flush`, `ServeUpdate`, `SettleUpdate` are `flushQuantityUpdates`;
`TakenBack` is `rollbackOptimisticQuantityUpdate`.  An item is its quantity,
and each is added at most once.  `GoToCheckout`, `ServeVisit` and `ShowCheckout`
are the `router.visit` to the checkout: it is asked for, the server renders the
page from its own cart (`quote`), and the page arrives; until then the cart page
stays in use.  `PlaceOrder` is `createFromCart`, which takes the cart as it is by
then.  `hurried` is history: a change was under way when the page was rendered,
or made before it arrived.

`CheckoutPage`: `run[a]` is the a-th call of `handleCheckout`, from its request
through the widget's token and `finalize` to a redirect; `mine` are the calls
of the page that is mounted, since only they may change it.  `bill` is what the
site's rows say of an attempt, `gate` what the gateway does, and `Webhook` may
bring the first in line with the second at any time, for a card as for PayPay.
`back` is the way back: the effect of `PayPayCallback`, or the web route
`threeDsCallback`, which is where the gateway returns to after 3-D Secure
(`ThreeDsCallback.tsx` is rendered by no route).  It looks at the payment
(`TurnAway`), asks the gateway (`AskGateway`) and writes the verdict in a later
transaction (`CompleteBack`, `DenyBack`), which throws if a webhook was there
first: PayPay's page then asks again, the web route shows the failed page.
`FailBack` has the exceptions and lost answers, 401 among them.  A page of the
site that is left leaves its requests running; the gateway's site ends them.

`OrderWatch`: `runFetcher`, `scheduleNextPoll` and `handleVisibilityChange` of
`usePollingTimer`, and the fetcher of `useOrderStatusPolling`, used by two
pages.  A tab that is shown asks at once, whatever is under way.

`CardVault`: `reg[t].pc` follows `ensureCustomerExists` (find, lock, check,
create, insert) and `registerCustomerWithCard` (card, save), `del[t].pc`
`deleteCard`.  The lock expires whatever its holder does; the row of a customer
is unique.  The gateway is modelled from its use: it numbers what it makes.

`MenuCatalog`: a change is sent, admitted (route binding, request rules),
written (`withMenuMutation`: the rows are locked and the cached menu is
dropped), committed and, if it is one of an item, followed by a second drop
(`Notify`: `TenantMenuUpdated`).  Either drop may fail, which is only logged.
`store` says where the cache is: in the shop's database, the default, a drop is
part of the transaction, holds the entry until the commit (`Held`) and is seen
with it; elsewhere it is seen at once.  A reader without a cached menu builds one
from the committed rows and stores it later.  After its answer a page has a toast
and a free button at once, while the list is still to be loaded (`asked`,
`lists`), or never is.  A change of an item writes what the form sends and no
other column.  `MenuOf` is `buildMenuData` for one item,
`FormAccepts` is `isValid` of `useItemDetailForm`, `OptionsAccepted` is
`CartOptionValidator`.

`StaffPages` and `CustomerPages` run several of these modules: a device shows
one page, and which one is chosen at the start.  They share no variable, so
the composition adds no interaction; it lets one run ask about all of them,
under one fairness condition.

## The runs

A run of `PaymentFlow` has one order: orders share no row, so a second one
adds interleavings but no interaction.  (`PayLive` has a card and a PayPay
order to choose from, and `OneOrder` keeps it to one of them.)  Two request
slots are enough for the races in question: the code never waits for another
request, and a third request meets the same rows.  `Tries` is the code's 3, and
2 in `PayCard`, where the faults are then enough to use them up.  In `DocDoubleCallback` callbacks come only
for payments the gateway knows (`NoStrayCallback`), so that the counterexample is
the double capture.  Deadlock is not checked there: when the order is closed and all jobs are done nothing is
left to do.  In `CheckoutCart` it is: somebody can always start another
request.

Two keys and two request slots are what `CheckoutCart` needs for a repeated
request and for two checkouts of one cart; two items and two carts, for one
that is emptied, dropped and filled again.  `CartKeys` has no second day, since
a cart that expires is dropped as by the customer; `CartAlone` has.

The pages stop where the people who use them have done all they may do, so
deadlock is not checked there either.  Two orders let one card be rolled back
while another moves on, and `StaffInit` lets ready cards complete themselves only
where both begin alike (otherwise the run takes too long); `FullEvery = 2` makes every other poll a full one; two
charts, two periods and two cache entries are enough to share a request, to
prune an entry and to overtake an answer; two items and one lost request, for a
batch that succeeds in part; two attempts, for a payment after the page was
left; two polls under way at once; two tabs, two customers at the gateway and
two cards; two devices, one reader, two options and two rules for the menu
(`SmallRules`: one demands a choice, one demands it by number).

| Run | Question | Bounds |
|---|---|---|
| `PayCard` | card: do order, payment, log and gateway agree, whatever overlaps or fails, also when a webhook job is rolled back, killed or gives up; does each step keep the promise? | 2 requests, one fault of each kind |
| `PayPayPay` | PayPay: the same, with up to three events for one charge, by the strengthened invariant of the proofs, which implies the others | 2 requests, 1 API error, 1 aborted transaction |
| `PayLive` | is a charged order served, does every request end? | card or PayPay, 1 request, no faults, fairness |
| `CartKeys` | does a key run one request, make one order and tell the truth, whatever fails, expires or changes meanwhile, and does a retry after a 5xx order nothing already paid?  The strengthened invariant of the proofs | 2 requests, 2 keys, 2 items, 2 orders, 2 carts, one fault of each kind |
| `CartAlone` | is anything ordered and paid twice by checkouts one after the other? | 1 request, 2 keys, 2 days, no faults, no edits meanwhile |
| `StaffPages` | does the board lose nothing and converge; does a chart show the period it names, are requests shared and forgotten, does every spinner end? | 2 orders, 2 events, 1 failure; 2 charts, 2 periods, 3 requests, 2 presses, 2 visits, 1 outage |
| `CustomerPages` | cart: does the last choice win, do store and server agree, is what is shown what is ordered, is everything sent?  Checkout: one payment, a true page, an end?  Order page: never back, an end, a ring?  Cards: is each row at the gateway and on the page? | 2 items, quantity up to 3, 5 acts; 2 attempts, 2 visits; 2 polls, 2 hidings; 2 tabs, 3 acts; one failure each |
| `MenuCatalog` | is the cached menu that of the rows but for the known races, is a refusal explained, is the toast true? | 2 devices, 1 reader, 2 changes or additions, either cache store; after the last of them no form is filled in and no list loaded, for neither could be sent (`FormsCount`) |

Fairness is weak and never asks anything of a person.  `FairSpec`: PHP goes on
with a request it has begun; fincode redelivers until it is acknowledged, the
controller that wrote a log row goes on to dispatch, and the queue worker takes
the jobs it holds.  Nobody owes a callback, an approval, a refund or a kitchen
action.  With a crash or a failed gateway call `ChargedIsServed` does not hold,
see below.  In the pages a request ends at the latest with
`REQUEST_TIMEOUT_MS`, timers fire, and what waits for an answer goes on
(`StaffFairness`, `CartFairness`, `CheckoutFairness`, `WatchFairness`).
`Converges` needs the timer of `usePollingTimer`, which polls for ever.

The properties name what the code does not promise, instead of leaving it out:
`Converges` holds when no timer completes orders by itself, `Agrees` when at
most one request has failed, `PageTellsTruth` unless a request failed for other
reasons, PayPay was waited for in vain or a card's webhook overtook the request
that charged it, `RetryOrdersNothingPaid` where `clearItems` has worked,
`ShownIsOrderedAtRest` unless a change was under way, `ToldIsTrue` where the list
was right until the commit,
`BadgeNeverGoesBack` unless requests overlapped, `EndIsShown` unless an older
answer came after the last, `ChartMatchesChoice` unless a newer choice overtook
an answer, `CacheIsCurrent` unless a menu built before a commit was stored after
the drop, or the drop failed.  Each of these
is a state TLC reaches; the history variable or counter in the property says
when.

### Where the code departs from its documentation

Each is a run that TLC refutes.

| Run | Statement | What happens |
|---|---|---|
| `DocDoubleCallback` | `process3dsCallback` judges by the latest status in the database | two callbacks overlap without any fault; the second capture is refused and fails the charged payment |
| `DocOneOrderPerCart` | the lock on the cart prevents concurrent checkouts of it | it ends before the cart is cleared: a checkout under another key orders the same items again |
| `DocFreshItems` | only carts of earlier days are dropped | `updated_at` stays at the day the row was created; items added today go with it |
| `DocMenuRefuses` | the form's check is the server's (`useItemDetailForm.ts:51`) | a required group that is switched off is not on the form, but the server demands a choice from it: the item cannot be ordered |

More that the models show, without a run of their own:

- README: "the fincode webhook is the source of truth".  A capture call times
  out after it charged; payment and order are failed at once, and the completed
  webhook cannot move a Failed payment, is logged as failed and never retried.
- `finalizePayment` is to treat a payment that the webhook confirmed first as
  success; if the webhook comes during the gateway call, `markAsPaid` throws.
  PayPay's page then asks again and ends well; after 3-D Secure the customer
  sees the failed page for a payment that is Completed (`overtaken`).
- `$order->refresh()` after the payment has started is outside any `try`: if it
  throws, the 5xx frees the key and a retry runs the checkout again.  It finds an
  empty cart, unless clearing it failed too (`RetryOrdersNothingPaid`).
- Whether the restaurant is open is to be checked again in the transaction that
  places the order; its business hours are not.
- The customer's request moves an order to PAID, which
  `docs/reference/order-statuses.md` reserves to the webhook; nothing cancels an
  order left in PENDING_PAYMENT, as the same page says; a refund changes only an
  order already Cancelled and never the payment (`HandleRefunded`).
- `clearItems` decides by the items loaded before the lock, so a cart emptied
  and refilled at that moment keeps what was ordered (`Clear`, `saw`).
- An order closed on another device stays on the board until the next full poll,
  because the incremental query asks only for visible statuses; a failed PATCH
  puts the whole list back to what it was (`RollBack`).
- A second refused quantity goes back to a value that was itself refused.
- A period chosen before the last answer came may end under the other's figures
  (`useDashboardDataFetcher` has no guard).
- A new card that is not to be the main one clears the mark of the main card on
  the page, not on the server.
- Two devices that both press "sold out" leave the item on sale; the toast of
  the second says what its own page showed.  The same happens to one who presses
  again before the list is loaded anew, or whose load failed.
- A quantity changed while the visit to the checkout is under way is ordered and
  not shown by the checkout page (`hurried`).
- A menu built before a change commits may be stored after its drop, and one
  whose drop failed stays, for an hour; a change of an item drops it a second
  time, changes of categories, groups and options do not.

## The proofs

`PaymentFlowProofs` proves, for any set of orders, any number of slots,
attempts and faults: `TypeCorrect`, `NeverUnpaid`, `NeverEarly`,
`NeverAnnouncedTwice`, `ProcessedTellsTruth`, `NeverRefundedEarly`.  None of
these is inductive alone.  That an order is confirmed only after a charge
needs, in the request that confirms, that it has seen the charge; in the
webhook, that a completed event is sent only for a charge; and in the gateway,
that it does not charge a payment still Pending, because then the order would
have to be confirmed from a status that refuses it.  These are the parts of
`IInv`: `Busy`, `Opening` and `HandedOver` of one request, `GatewayFollows` and
`Settled` of one order, `SentOK` and `LoggedOK` of one event, and `Alone`: until
the gateway's id is stored only the request that placed the order works on it,
but for callbacks of a card, which may only fail it (`Beside`).
Every action touches one order and at most one slot; the lemmas `RequestKeeps`,
`RowKeeps` and `SlotKeeps` carry the invariant to all the others.

An action theorem follows from it, `RepeatsChangeNothing` (`RepeatIsHarmless`):
a log row marked processed has left payment and order where both handlers write
nothing (`ProcessedIsFinal`), and the kitchen only leads further.

`PaymentRefinement` proves `RowsStayInStep` (`AgreeInv`), `NeverDisagree`
(`RecordsAgree`) and `Refinement` (`KeepsPromise`) from the assumption
`MaxDbErrors <= 1`.  The assumption is needed: if both the transaction of
`markPaymentAndOrderAsFailed` and the first of its fallbacks are aborted, the
second fallback fails the order alone, and TLC shows it with `MaxDbErrors = 2`.
`AgreeInv` adds to `IInv` that a failed order has a failed payment and what the
fallbacks have found.  The step lemmas map each action of the code to a step of
`OrderLifecycle` or to none; that those steps keep the two rows together is then
shown on `OrderLifecycle` only.

`CheckoutCartProofs` proves, for any number of requests, keys, items, orders,
days and faults: `TypeCorrect`, `NeverTwoRuns` (`OneRunPerKey`),
`NeverTwoOrders` (`OneOrderPerKey`), `RecordIsTrue` (`RecordTellsTruth`) and
`RetriesAreNew` (`RetryOrdersNothingPaid`).  Its invariant `CInv` says that a running
request holds its key (`Holds`: the row is busy, cannot expire, and is its
own), what is under the key at each of its steps (`Running`), and that no order
is under two keys (`Disjoint`), so that a payment started or failed by one
request cannot change what another key's row says.  `KeyMoves` carries the
invariant over the steps that take or leave a key, `SlotMoves` over those that
change no row of it.

`RetriesAreNew` has an invariant of its own, `FreedInv`: once a request is past
`clear` the items of its started order have left the cart, unless they were kept
(`Emptied`), where the cart was dropped they went with it (`Gone`), and no item
comes back (`Afresh`); so they are not there when the key has been freed
(`FreedLeft`), nor is any of them in the order of the retry.

`NothingTwice` (`OrderedOnce`) assumes `Alone`: one checkout at a time, a cart
left alone meanwhile, no fault.  These are the conditions the property names;
without the first `DocOneOrderPerCart` refutes what it says, and after a crash
between payment and `clearItems` the items can be ordered again under another
key.  There may be any number of orders, keys, items, carts and days.  `SoldInv` says that what a started payment has bought is not in the
cart, but for the order about to be cleared (`Bought`), that an item once bought
does not come back (`OnceAdded`), and that the items `clearItems` decides by are
those of the cart (`SeesCart`).

`CheckoutPageProofs` proves `NeverTwoPayments` (`OnePaymentPerPage`) and
`PaymentsAreToldRight` (`PageTellsTruth`) for any number of attempts, visits,
cards and lost requests.  A second press is ruled out by `isProcessing`, so
`PayInv` says that it is set while a call of the page is under way (`Spinning`),
and that a call of a page that was left cannot clear it for the page that took
its place.  The page that tells how a payment ended is shown by an answer that
was given before, perhaps to a page that is gone, so `Telling` says what the way
back knows of bill and gateway at each of its steps (`BackKnows`), that it
begins only when the call is over and nothing is charged before (`EndsFirst`),
that a bill is failed only if the gateway refuses the payment (`Verdict`), and
that no request about an attempt is left once a page has called it failed
(`PageIsAbout`).  The webhook that overtakes a card's request is the one case in
which the answer knows less than the gateway; the property names it.

`CardVaultProofs` proves `NeverACardWeLost` (`StoredIsAtGateway`) and
`PagesShowWhatIsStored` (`ShownAsStored`) for any number of tabs, cards,
customers and mishaps.  `VaultInv` says of a card that is about to be saved that
the gateway has it for the customer we know (`Known`), that no deletion is after
it (`Unsaved`) and that no other tab saves it (`Distinct`).  The lock is not in
it, for it may expire at any time: what keeps a second customer out is only that
`InsertCustomer` uses the one it finds.  `ShownInv` adds that there is one main
card (`OneMain`), that a list is behind the rows by what its own page has done
and not yet been told (`ListFollows`, `MainFollows`), and that a page registers
numbers nobody lists and deletes those it does (`Numbered`).

`StaffPagesProofs` proves, for any charts, periods, requests, orders, polls and
bounds: `OneRequestEach` (`OneRequestPerAddress`), `ChartsTellTruth`
(`ChartMatchesChoice`), `BoardTypeCorrect` (`BoardTypeOK`) and `PollsMissNothing`
(`PollLosesNothing`).  What a chart will show is decided by the request it waits
for, which another chart may have sent, and by the cache entry it may be given:
`DashInv` says that the map of shared requests names the ones that run, that a
card not overtaken waits only for what it chose last (`WaitsForChoice`) and that
an entry is of its own address (`EntriesAreOwn`).  `BoardInv` dates each answer
in the hands of the page: an order not changed since the second of the query is
in it as it is now, or not in it because it had not changed before
(`AnswersAreDated`).

`CustomerPagesProofs` proves, for any items, quantities, requests and bounds:
`ChoiceArrives` (`LastChoiceWins`), `OrderedAsShown` (`ShownIsOrderedAtRest`),
`SeesWhatServerHas` (`Agrees`) and `BadgeOnlyAdvances` (`BadgeNeverGoesBack`).
`CartInv` follows the last choice through queue, request and refusal
(`ChoiceTravels`), with one batch under way at a time (`OneBatch`) and nobody
holding a quantity of a row that was never added (`NotBornYet`).  A checkout page
rendered at rest shows the cart the server has, and goes on doing so until the
order unless the customer hurries (`QuoteStands`).  `SeenInv`
says of each item shown, and of each that an undone change may put back, where
the updates under way will lead it (`Right`), also with the one refusal spent
that `Agrees` allows (`EndsRight`).  `WatchInv` says that the one answer on its
way lies between the badge and the order (`OneAsks`, `AnswerBetween`); that no
transition of `Statuses` leads back (`MovesForward`) does the rest.

`MenuCatalogProofs` proves, for any staff, customers, options, rules and changes:
`CacheIsNeverOld` (`CacheIsCurrent`), `ToastsTellTruth` (`ToldIsTrue`),
`FormIsRefusedForAReason` (`RefusedForAReason`) and `MenuTypeCorrect`.
`CacheInv` says that a menu being built is that of the rows or was overtaken by a
commit (`BuildsAreCurrent`), and that a change which has dropped the cache finds
it empty, takes the entry with its commit, or knows that it was filled again
(`RacesAreKnown`).  `StaffInv` says what the pressed button, the route binding
and the commit of a toggle have each read of the item, however late the list is
loaded (`ToastInv`), that it cannot be toggled before it is made (`BirthInv`) and that
the groups, options and links a commit needs are held by its locks
(`LinksInv`).  `ReaderInv` says that what a dialog lets through fits the rule it
was opened with (`DialogFits`, `AddFits`); the server then refuses only for what
has changed since, which the action property names.

`AgreeInv` and `CInv` are also what `PayPayPay` and `CartKeys` check.

Constants are arbitrary but for named assumptions, which TLC evaluates on every
run: bounds are natural numbers, the values that stand for nothing
(`NoOrder`, `NoKey`, `NoCard`, `Nothing`, `Shut`) are not members of the sets
they are added to, `Tries` and `FullEvery` are not 0 as in the code, requests of
the order page, staff and options are finite in number (they are counted), and a
rule of an option group has numbers for its bounds, with `min <= max` and
`max >= 1`, which the form requests of the groups demand.

Only model-checked: liveness (`ChargedIsServed`, `RequestsEnd`, `Converges`,
`LoadingEnds`, `ChangesAreSent`, `PaymentsEnd`, `EndIsShown`, `ReadyRings`),
which needs fairness and `ENABLED`, beyond this prover.  Every other property
of the passing runs is stated by a theorem.

## Not modelled

- Favorites are single-row toggles; tenancy, roles and accounts scope queries
  and administer rows, without a protocol of their own.
- Analytics on the server is SQL over closed days; only its charts are here.
- Business hours are a pure function of weekday and clock; the models take its
  verdict.
- The remaining pages and widgets render what they are given.
- In modelled components: amounts and number sequences; the retries inside
  `FincodeRequestExecutor` (one call with an unknown effect); several carts of
  one customer; saving a card during a payment; the calendar day of the board's
  query, its filter tabs and the pause of orders; images and the order of menu
  items; the endpoints that attach or detach an option group, which no page
  calls; a menu build whose queries read different states of the rows.

## Plan

In order of weight:

1. Proofs: type correctness of the pages that have none as a theorem, and what
   `OrderLifecycle` promises on its own.
2. `GatewayCall`: the executor's retries and the idempotency key of one call, and
   a proof that it implements the one-step call of `PaymentFlow`.
3. `Locks`: the rows each transaction locks, in its order, and whether two of
   them can wait for each other; the number sequence and its unique codes.
4. `BusinessHours`, an operator against a reference definition.
