----------------------------- MODULE Dashboard -----------------------------
(***************************************************************************)
(* The shop's dashboard: cards that load the figures of the period chosen   *)
(* on them through cachedGet, and the cache behind it, which outlives the   *)
(* page.  A fresh entry answers at once; a stale one too, and is renewed    *)
(* in the background; without one the request is shared with whoever asked  *)
(* for the same address before.  Requests are retried.                     *)
(*                                                                         *)
(* Times are left out: an entry may turn stale, and stale ones are pruned   *)
(* when something is stored.  Figures are told apart by what they were      *)
(* asked for; drawing them, and who is logged in, are left out.             *)
(***************************************************************************)
EXTENDS Naturals, Sequences, FiniteSets

CONSTANTS
    Charts,     \* the cards that load figures
    SalesChart, \* the one rendered with figures by the server
    Periods,    \* SalesPeriod, DateRange, TopItemsPeriod, or a date
    FirstPeriod,\* the one a card begins with
    Nothing,    \* no figures, no entry, no request
    MaxRequests,\* bound: requests under way at the same time
    MaxEntries, \* MAX_CACHE_ENTRIES
    MaxRetries, \* DEFAULT_CACHE_CONFIG.maxRetries
    MaxPresses, \* bound: periods chosen
    MaxVisits,  \* bound: how often the dashboard is opened
    MaxOutages  \* bound: requests that fail

ASSUME SalesAssumption == SalesChart \in Charts /\ FirstPeriod \in Periods
ASSUME DashboardBounds == /\ MaxRequests \in Nat /\ MaxEntries \in Nat \ {0} /\ MaxRetries \in Nat /\ MaxPresses \in Nat
                          /\ MaxVisits \in Nat /\ MaxOutages \in Nat

VARIABLES
    open, mounted,          \* the dashboard is shown, and these cards of it
    chosen, figures,        \* of each card: period or range, and data
    loading, fetchError,
    store, fresh, kept,     \* the cache: keys, the least recently used first;
                            \* those not expired; the entries
    inflight,               \* address -> the request that callers share
    request, askers,        \* requests, and the cards that await each
    overtaken,              \* history: asked for something else before the answer came
    presses, visits, outages

pageVars  == <<open, mounted, chosen>>
dataVars  == <<figures, loading, fetchError>>
cacheVars == <<store, fresh, kept>>
netVars   == <<inflight, request, askers>>
dashVars  == <<pageVars, dataVars, cacheVars, netVars, overtaken, presses, visits, outages>>

\* A request's address says which card and which period it is for.
Addresses == Charts \X Periods
AddressOf(c, p) == <<c, p>>
Requests  == 1 .. MaxRequests
Unused    == [pc |-> "idle", of |-> Nothing, renews |-> FALSE, tries |-> 0]

\* undefined is neither a request nor an address.
ASSUME NothingAssumption == Nothing \notin Requests /\ Nothing \notin Addresses

DashInit ==
    /\ open = FALSE /\ mounted = {}
    /\ chosen = [c \in Charts |-> FirstPeriod]
    /\ figures = [c \in Charts |-> Nothing]
    /\ loading = [c \in Charts |-> FALSE] /\ fetchError = [c \in Charts |-> FALSE]
    /\ store = <<>> /\ fresh = {} /\ kept = [a \in Addresses |-> Nothing]
    /\ inflight = [a \in Addresses |-> Nothing]
    /\ request = [r \in Requests |-> Unused] /\ askers = [r \in Requests |-> {}]
    /\ overtaken = {}
    /\ presses = 0 /\ visits = 0 /\ outages = 0

-----------------------------------------------------------------------------
\* The cache.

Without(a) == SelectSeq(store, LAMBDA k : k # a)

\* apiCache.get moves the key to the end.
Touch(a) == store' = Append(Without(a), a) /\ UNCHANGED <<fresh, kept>>

\* apiCache.set: what has expired goes, then what was used least recently.
Put(a, entry) ==
    LET alive == Append(SelectSeq(Without(a), LAMBDA k : k \in fresh), a)
        held  == IF Len(alive) > MaxEntries THEN Tail(alive) ELSE alive
        keys  == {held[i] : i \in DOMAIN held}
    IN /\ store' = held
       /\ fresh' = (fresh \cup {a}) \cap keys
       /\ kept' = [k \in Addresses |-> IF k = a THEN entry ELSE IF k \in keys THEN kept[k] ELSE Nothing]

\* DEFAULT_CACHE_CONFIG.ttl has passed.
TurnStale(a) ==
    /\ a \in fresh /\ fresh' = fresh \ {a}
    /\ UNCHANGED <<pageVars, dataVars, store, kept, netVars, overtaken, presses, visits, outages>>

-----------------------------------------------------------------------------
\* Loading.

Send(r, a, renews) ==
    /\ request[r] = Unused /\ \A q \in 1 .. r - 1 : request[q] # Unused
    /\ request' = [request EXCEPT ![r] =
                     [Unused EXCEPT !.pc = "sent", !.of = a, !.renews = renews]]

\* A cached answer comes at once, whatever else the card is waiting for.
Cached(c, a) ==
    /\ figures' = [figures EXCEPT ![c] = kept[a]]
    /\ loading' = [loading EXCEPT ![c] = FALSE]
    /\ fetchError' = [fetchError EXCEPT ![c] = FALSE]
    /\ Touch(a)

\* Mutant: what was shown before stays until the answer comes.
AwaitsQuietly(c, r, initial) ==
    /\ askers' = [askers EXCEPT ![r] = @ \cup {c}]
    /\ UNCHANGED <<dataVars, cacheVars>>

Awaits(c, r, initial) ==
    /\ askers' = [askers EXCEPT ![r] = @ \cup {c}]
    /\ loading' = [loading EXCEPT ![c] = TRUE]
    /\ fetchError' = [fetchError EXCEPT ![c] = FALSE]
    /\ figures' = [figures EXCEPT ![c] = initial]
    /\ UNCHANGED cacheVars

\* fetchData: setLoading, then the card's fetcher, which is a cachedGet.
Fetch(c, a, initial) ==
    /\ overtaken' = IF \E r \in Requests : c \in askers[r] /\ request[r].of # a
                    THEN overtaken \cup {c} ELSE overtaken
    /\ \/ a \in fresh /\ Cached(c, a) /\ UNCHANGED netVars
       \/ kept[a] # Nothing /\ a \notin fresh /\ Cached(c, a)
            /\ (\E r \in Requests : Send(r, a, TRUE)) /\ UNCHANGED <<inflight, askers>>
       \/ kept[a] = Nothing /\ inflight[a] # Nothing /\ Awaits(c, inflight[a], initial)
            /\ UNCHANGED <<inflight, request>>
       \/ kept[a] = Nothing /\ inflight[a] = Nothing
            /\ \E r \in Requests : /\ Send(r, a, FALSE) /\ Awaits(c, r, initial)
                                   /\ inflight' = [inflight EXCEPT ![a] = r]

Open ==
    /\ ~open /\ open' = TRUE
    /\ visits < MaxVisits /\ visits' = visits + 1
    /\ UNCHANGED <<mounted, chosen, dataVars, cacheVars, netVars, overtaken, presses, outages>>

\* Each card comes with its chunk.  The sales chart has got its figures with
\* the page, the effect of the others asks for theirs.
MountSales ==
    /\ figures' = [figures EXCEPT ![SalesChart] = <<SalesChart, FirstPeriod>>]
    /\ loading' = [loading EXCEPT ![SalesChart] = FALSE]
    /\ fetchError' = [fetchError EXCEPT ![SalesChart] = FALSE]
    /\ UNCHANGED <<cacheVars, netVars, overtaken>>

Mount(c) ==
    /\ open /\ c \notin mounted /\ mounted' = mounted \cup {c}
    /\ chosen' = [chosen EXCEPT ![c] = FirstPeriod]
    /\ IF c = SalesChart THEN MountSales ELSE Fetch(c, AddressOf(c, FirstPeriod), Nothing)
    /\ UNCHANGED <<open, presses, visits, outages>>

\* A period is chosen, and the effect of the card asks for it; it does not run
\* for the one it has.
Choose(c, p) ==
    /\ c \in mounted /\ p # chosen[c]
    /\ presses < MaxPresses /\ presses' = presses + 1
    /\ chosen' = [chosen EXCEPT ![c] = p]
    /\ Fetch(c, AddressOf(c, p), figures[c])
    /\ UNCHANGED <<open, mounted, visits, outages>>

\* The sales chart has no effect and asks again even for the one it has.
ChooseAgain ==
    /\ SalesChart \in mounted
    /\ presses < MaxPresses /\ presses' = presses + 1
    /\ Fetch(SalesChart, AddressOf(SalesChart, chosen[SalesChart]), figures[SalesChart])
    /\ UNCHANGED <<pageVars, visits, outages>>

\* Answers find no card any more; cache and requests stay.
Leave ==
    /\ open /\ open' = FALSE /\ mounted' = {} /\ overtaken' = {}
    /\ askers' = [r \in Requests |-> {}]
    /\ UNCHANGED <<chosen, dataVars, cacheVars, inflight, request, presses, visits, outages>>

-----------------------------------------------------------------------------
\* fetchWithRetry.

RequestTo(r, fields) == request' = [request EXCEPT ![r] = fields]

ServeFigures(r) ==
    /\ request[r].pc = "sent"
    /\ RequestTo(r, [request[r] EXCEPT !.pc = "ok"])
    /\ UNCHANGED <<pageVars, dataVars, cacheVars, inflight, askers, overtaken, presses, visits, outages>>

\* isRetryable: without an answer, or with a 5xx, once more; any other error,
\* or the last try, is the end.
Miss(r) ==
    /\ request[r].pc = "sent"
    /\ outages < MaxOutages /\ outages' = outages + 1
    /\ \/ request[r].tries < MaxRetries /\ RequestTo(r, [request[r] EXCEPT !.tries = @ + 1])
       \/ RequestTo(r, [request[r] EXCEPT !.pc = "failed"])
    /\ UNCHANGED <<pageVars, dataVars, cacheVars, inflight, askers, overtaken, presses, visits>>

\* Mutants: the map of shared requests is never emptied; an error leaves the
\* spinner.
DeregisterNever(r) == UNCHANGED inflight
StopsLoadingOnSuccess(r) ==
    loading' = [c \in Charts |-> loading[c] /\ ~(c \in askers[r] /\ request[r].pc = "ok")]

\* cachedGet's finally, for requests it shares, and fetchData's.
Deregister(r) ==
    inflight' = IF request[r].renews THEN inflight ELSE [inflight EXCEPT ![request[r].of] = Nothing]
StopsLoading(r) == loading' = [c \in Charts |-> loading[c] /\ c \notin askers[r]]

\* The end of cachedGet, and of fetchData for all who share the answer.
Settle(r) ==
    LET a  == request[r].of
        ok == request[r].pc = "ok"
    IN /\ request[r].pc \in {"ok", "failed"}
       /\ IF ok THEN Put(a, a) ELSE UNCHANGED cacheVars
       /\ Deregister(r) /\ StopsLoading(r)
       /\ request' = [request EXCEPT ![r] = Unused]
       /\ askers' = [askers EXCEPT ![r] = {}]
       /\ figures' = [c \in Charts |-> IF c \in askers[r] /\ ok THEN a ELSE figures[c]]
       /\ fetchError' = [c \in Charts |-> fetchError[c] \/ (c \in askers[r] /\ ~ok)]
       /\ UNCHANGED <<pageVars, overtaken, presses, visits, outages>>

-----------------------------------------------------------------------------
DashNext ==
    \/ Open \/ Leave \/ ChooseAgain
    \/ \E c \in Charts : Mount(c) \/ \E p \in Periods : Choose(c, p)
    \/ \E a \in Addresses : TurnStale(a)
    \/ \E r \in Requests : ServeFigures(r) \/ Miss(r) \/ Settle(r)

\* Requests end, at the latest with REQUEST_TIMEOUT_MS.
DashFairness == \A r \in Requests : WF_dashVars(ServeFigures(r) \/ Settle(r))

-----------------------------------------------------------------------------
\* DashboardAsyncState, for each card.
View(c) ==
    IF loading[c] THEN "spinner" ELSE IF fetchError[c] THEN "error"
    ELSE IF figures[c] = Nothing THEN "empty" ELSE "figures"

\* A card shows the figures of the period it says, however entries turned
\* stale, were pruned, renewed or shared, unless another period was chosen
\* before the answer to the last choice came (fetchData has no guard against
\* the older answer, which then stays).
ChartMatchesChoice ==
    \A c \in mounted \ overtaken : View(c) = "figures" => figures[c] = AddressOf(c, chosen[c])

\* Whoever has to wait for an address waits for the same request, and the map
\* of shared requests names it as long as it runs and no longer (inflight).
OneRequestPerAddress ==
    \A a \in Addresses, r \in Requests :
        inflight[a] = r <=> request[r].pc # "idle" /\ request[r].of = a /\ ~request[r].renews

\* No card spins for ever, whatever was retried, shared or given up.
LoadingEnds == \A c \in Charts : []<>(~loading[c] \/ c \notin mounted)
=============================================================================
