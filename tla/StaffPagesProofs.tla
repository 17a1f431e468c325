-------------------------- MODULE StaffPagesProofs --------------------------
(***************************************************************************)
(* Proofs about the pages of the staff, for any orders, cards, periods and  *)
(* bounds.                                                                 *)
(*                                                                         *)
(* The dashboard.  That a chart shows the period it names is not inductive: *)
(* what a card will show is decided by the request it waits for and by the  *)
(* entry of the cache it may be given.  DashInv says whom the map of shared *)
(* requests names, that a card not overtaken waits only for what it has     *)
(* chosen last (WaitsForChoice), and that an entry is of its own address    *)
(* (EntriesAreOwn).                                                        *)
(*                                                                         *)
(* The board.  That a poll passes over nothing rests on what an answer in   *)
(* the hands of the page says of each order: if the order has not changed   *)
(* since the second of the query, the answer has its present status, or     *)
(* leaves it out because it had not changed before (AnswersAreDated).       *)
(***************************************************************************)
EXTENDS StaffPages, TLAPS

-----------------------------------------------------------------------------
(* The dashboard                                                           *)

RequestForms == [pc : {"idle", "sent", "ok", "failed"}, of : Addresses \cup {Nothing},
                 renews : BOOLEAN, tries : Nat]

DashForms ==
    /\ mounted \subseteq Charts
    /\ chosen \in [Charts -> Periods] /\ figures \in [Charts -> Addresses \cup {Nothing}]
    /\ loading \in [Charts -> BOOLEAN] /\ fetchError \in [Charts -> BOOLEAN]
    /\ inflight \in [Addresses -> Requests \cup {Nothing}]
    /\ request \in [Requests -> RequestForms] /\ askers \in [Requests -> SUBSET Charts]
    /\ kept \in [Addresses -> Addresses \cup {Nothing}] /\ fresh \subseteq Addresses

\* A request under way has an address, and nobody waits for one that is not.
RequestsHaveAddress == \A r \in Requests :
    IF request[r].pc = "idle" THEN askers[r] = {} ELSE request[r].of \in Addresses

EntriesAreOwn ==
    /\ \A a \in Addresses : kept[a] \in {a, Nothing}
    /\ \A a \in fresh : kept[a] = a

\* Only cards that are shown wait; who was not overtaken waits for its choice.
WaitsForChoice == \A c \in Charts, r \in Requests : c \in askers[r] =>
    /\ c \in mounted
    /\ c \notin overtaken => request[r].of = AddressOf(c, chosen[c])

\* What a card shows, or would if it had not failed.
ShowsChoice == \A c \in mounted \ overtaken :
    ~loading[c] /\ ~fetchError[c] => figures[c] \in {Nothing, AddressOf(c, chosen[c])}

DashInv == /\ DashForms /\ RequestsHaveAddress /\ EntriesAreOwn /\ WaitsForChoice /\ ShowsChoice
           /\ OneRequestPerAddress

LEMMA DashStarts == DashInit => DashInv
<1> SUFFICES ASSUME DashInit PROVE DashInv
  OBVIOUS
<1>1. Unused \in RequestForms /\ Unused.pc = "idle"
  BY DEF Unused, RequestForms
<1>2. DashForms
  BY <1>1, SalesAssumption DEF DashInit, DashForms
<1>3. RequestsHaveAddress /\ EntriesAreOwn /\ WaitsForChoice /\ ShowsChoice
  BY <1>1 DEF DashInit, RequestsHaveAddress, EntriesAreOwn, WaitsForChoice, ShowsChoice
<1>4. OneRequestPerAddress
  BY <1>1, NothingAssumption DEF DashInit, OneRequestPerAddress
<1>5. QED BY <1>2, <1>3, <1>4 DEF DashInv

\* A free slot is taken for a request; it is nobody's yet.
LEMMA SendFacts ==
  ASSUME DashForms, NEW r \in Requests, NEW a \in Addresses, NEW renews \in BOOLEAN, Send(r, a, renews)
  PROVE  /\ request[r].pc = "idle"
         /\ request' \in [Requests -> RequestForms]
         /\ request'[r].pc = "sent" /\ request'[r].of = a /\ request'[r].renews = renews
         /\ \A q \in Requests \ {r} : request'[q] = request[q]
<1> DEFINE new == [Unused EXCEPT !.pc = "sent", !.of = a, !.renews = renews]
<1>1. new \in RequestForms /\ new.pc = "sent" /\ new.of = a /\ new.renews = renews
  <2>1. Unused \in RequestForms
    BY DEF Unused, RequestForms
  <2>2. QED BY <2>1 DEF RequestForms
<1>2. request' = [request EXCEPT ![r] = new] /\ request[r].pc = "idle"
  BY DEF Send, Unused
<1> HIDE DEF new
<1>3. QED BY <1>1, <1>2 DEF DashForms

\* A card asks for the period p, which becomes its choice.
LEMMA FetchKeeps ==
  ASSUME DashInv, NEW c \in Charts, NEW p \in Periods, NEW initial \in Addresses \cup {Nothing},
         Fetch(c, AddressOf(c, p), initial),
         mounted' = mounted \cup {c}, chosen' = [chosen EXCEPT ![c] = p]
  PROVE  DashInv'
<1> DEFINE a == AddressOf(c, p)
<1>1. a \in Addresses /\ a # Nothing
  BY NothingAssumption DEF AddressOf, Addresses
<1>2. mounted' \subseteq Charts /\ chosen' \in [Charts -> Periods] /\ AddressOf(c, chosen'[c]) = a
      /\ \A d \in Charts \ {c} : chosen'[d] = chosen[d] /\ (d \in mounted' <=> d \in mounted)
  BY DEF DashInv, DashForms
<1>3. /\ \A d \in Charts \ {c} : d \in overtaken' <=> d \in overtaken
      /\ c \notin overtaken' => \A r \in Requests : c \in askers[r] => request[r].of = a
  BY DEF Fetch
<1> HIDE DEF a
\* The cache answers.
<1>4. ASSUME Cached(c, a), kept[a] # Nothing
      PROVE  /\ figures' \in [Charts -> Addresses \cup {Nothing}] /\ loading' \in [Charts -> BOOLEAN]
             /\ fetchError' \in [Charts -> BOOLEAN] /\ UNCHANGED <<fresh, kept>>
             /\ ShowsChoice'
  <2>1. figures' = [figures EXCEPT ![c] = a] /\ loading' = [loading EXCEPT ![c] = FALSE]
        /\ fetchError' = [fetchError EXCEPT ![c] = FALSE] /\ UNCHANGED <<fresh, kept>>
    BY <1>1, <1>4 DEF Cached, Touch, DashInv, EntriesAreOwn
  <2>2. \A d \in Charts \ {c} : figures'[d] = figures[d] /\ loading'[d] = loading[d] /\ fetchError'[d] = fetchError[d]
    BY <2>1 DEF DashInv, DashForms
  <2>3. figures'[c] = a
    BY <2>1 DEF DashInv, DashForms
  <2>4. ShowsChoice'
    BY <1>2, <1>3, <2>2, <2>3 DEF DashInv, ShowsChoice
  <2>5. QED BY <1>1, <2>1, <2>4 DEF DashInv, DashForms
\* The card waits for the request r.
<1>5. ASSUME NEW r \in Requests, Awaits(c, r, initial)
      PROVE  /\ figures' \in [Charts -> Addresses \cup {Nothing}] /\ loading' \in [Charts -> BOOLEAN]
             /\ fetchError' \in [Charts -> BOOLEAN] /\ UNCHANGED <<fresh, kept>>
             /\ ShowsChoice'
             /\ askers' \in [Requests -> SUBSET Charts] /\ askers'[r] = askers[r] \cup {c}
             /\ \A q \in Requests \ {r} : askers'[q] = askers[q]
  <2>1. figures' = [figures EXCEPT ![c] = initial] /\ loading' = [loading EXCEPT ![c] = TRUE]
        /\ fetchError' = [fetchError EXCEPT ![c] = FALSE] /\ UNCHANGED <<fresh, kept>>
        /\ askers' = [askers EXCEPT ![r] = @ \cup {c}]
    BY <1>5 DEF Awaits, cacheVars
  <2>2. \A d \in Charts \ {c} : figures'[d] = figures[d] /\ loading'[d] = loading[d] /\ fetchError'[d] = fetchError[d]
    BY <2>1 DEF DashInv, DashForms
  <2>3. loading'[c] = TRUE
    BY <2>1 DEF DashInv, DashForms
  <2>4. ShowsChoice'
    BY <1>2, <1>3, <2>2, <2>3 DEF DashInv, ShowsChoice
  <2>5. QED BY <2>1, <2>4 DEF DashInv, DashForms
<1>6. EntriesAreOwn' \/ ~ UNCHANGED <<fresh, kept>>
  BY DEF DashInv, EntriesAreOwn
<1>7. CASE Cached(c, a) /\ kept[a] # Nothing /\ UNCHANGED netVars
  <2>1. UNCHANGED <<inflight, request, askers>>
    BY <1>7 DEF netVars
  <2>2. WaitsForChoice'
    BY <1>2, <1>3, <2>1 DEF DashInv, WaitsForChoice
  <2>3. RequestsHaveAddress' /\ OneRequestPerAddress'
    BY <2>1 DEF DashInv, RequestsHaveAddress, OneRequestPerAddress
  <2>4. DashForms'
    BY <1>2, <1>4, <1>7, <2>1 DEF DashInv, DashForms
  <2>5. QED BY <1>4, <1>6, <1>7, <2>2, <2>3, <2>4 DEF DashInv
<1>8. CASE /\ kept[a] # Nothing /\ Cached(c, a) /\ (\E r \in Requests : Send(r, a, TRUE))
           /\ UNCHANGED <<inflight, askers>>
  <2>1. PICK r \in Requests : Send(r, a, TRUE)
    BY <1>8
  <2>2. /\ request[r].pc = "idle" /\ request' \in [Requests -> RequestForms]
        /\ request'[r].pc = "sent" /\ request'[r].of = a /\ request'[r].renews = TRUE
        /\ \A q \in Requests \ {r} : request'[q] = request[q]
    BY <1>1, <2>1, SendFacts DEF DashInv
  <2>3. askers[r] = {}
    BY <2>2 DEF DashInv, RequestsHaveAddress
  <2>4. WaitsForChoice'
    BY <1>2, <1>3, <1>8, <2>2, <2>3 DEF DashInv, WaitsForChoice
  <2>5. RequestsHaveAddress'
    BY <1>1, <1>8, <2>2 DEF DashInv, RequestsHaveAddress
  <2>6. OneRequestPerAddress'
    BY <1>8, <2>2 DEF DashInv, OneRequestPerAddress
  <2>7. DashForms'
    BY <1>2, <1>4, <1>8, <2>2 DEF DashInv, DashForms
  <2>8. QED BY <1>4, <1>6, <1>8, <2>4, <2>5, <2>6, <2>7 DEF DashInv
<1>9. CASE inflight[a] # Nothing /\ Awaits(c, inflight[a], initial) /\ UNCHANGED <<inflight, request>>
  <2>1. inflight[a] \in Requests
    BY <1>1, <1>9 DEF DashInv, DashForms
  <2>2. request[inflight[a]].of = a /\ request[inflight[a]].pc # "idle"
    BY <1>1, <2>1 DEF DashInv, OneRequestPerAddress
  <2>3. WaitsForChoice'
    BY <1>2, <1>3, <1>5, <1>9, <2>1, <2>2 DEF DashInv, WaitsForChoice
  <2>4. RequestsHaveAddress'
    BY <1>5, <1>9, <2>1, <2>2 DEF DashInv, RequestsHaveAddress
  <2>5. OneRequestPerAddress'
    BY <1>9 DEF DashInv, OneRequestPerAddress
  <2>6. DashForms'
    BY <1>2, <1>5, <1>9, <2>1 DEF DashInv, DashForms
  <2>7. QED BY <1>5, <1>6, <1>9, <2>1, <2>3, <2>4, <2>5, <2>6 DEF DashInv
<1>10. ASSUME inflight[a] = Nothing, NEW r \in Requests, Send(r, a, FALSE), Awaits(c, r, initial),
              inflight' = [inflight EXCEPT ![a] = r]
       PROVE  DashInv'
  <2>1. /\ request[r].pc = "idle" /\ request' \in [Requests -> RequestForms]
        /\ request'[r].pc = "sent" /\ request'[r].of = a /\ request'[r].renews = FALSE
        /\ \A q \in Requests \ {r} : request'[q] = request[q]
    BY <1>1, <1>10, SendFacts DEF DashInv
  <2>2. askers[r] = {}
    BY <2>1 DEF DashInv, RequestsHaveAddress
  <2>3. WaitsForChoice'
    BY <1>2, <1>3, <1>5, <1>10, <2>1, <2>2 DEF DashInv, WaitsForChoice
  <2>4. RequestsHaveAddress'
    BY <1>1, <1>5, <1>10, <2>1 DEF DashInv, RequestsHaveAddress
  <2>5. OneRequestPerAddress'
    <3>1. \A b \in Addresses : inflight'[b] = IF b = a THEN r ELSE inflight[b]
      BY <1>10 DEF DashInv, DashForms
    <3>2. \A b \in Addresses : inflight[b] # r
      BY <2>1 DEF DashInv, OneRequestPerAddress
    <3>3. \A q \in Requests : ~(request[q].pc # "idle" /\ request[q].of = a /\ ~request[q].renews)
      BY <1>1, <1>10, NothingAssumption DEF DashInv, OneRequestPerAddress
    <3>4. QED BY <2>1, <3>1, <3>2, <3>3 DEF DashInv, OneRequestPerAddress
  <2>6. DashForms'
    BY <1>1, <1>2, <1>5, <1>10, <2>1 DEF DashInv, DashForms
  <2>7. QED BY <1>5, <1>6, <1>10, <2>3, <2>4, <2>5, <2>6 DEF DashInv
<1>11. a \in fresh => kept[a] # Nothing
  BY <1>1 DEF DashInv, EntriesAreOwn
<1>12. QED BY <1>7, <1>8, <1>9, <1>10, <1>11 DEF Fetch, a

\* The sales chart comes with its figures.
LEMMA MountSalesKeeps ==
  ASSUME DashInv, MountSales, SalesChart \notin mounted, mounted' = mounted \cup {SalesChart},
         chosen' = [chosen EXCEPT ![SalesChart] = FirstPeriod]
  PROVE  DashInv'
<1>1. /\ UNCHANGED <<kept, fresh, inflight, request, askers, overtaken>>
      /\ figures' = [figures EXCEPT ![SalesChart] = AddressOf(SalesChart, FirstPeriod)]
      /\ loading' = [loading EXCEPT ![SalesChart] = FALSE]
      /\ fetchError' = [fetchError EXCEPT ![SalesChart] = FALSE]
  BY DEF MountSales, cacheVars, netVars, AddressOf
<1>2. AddressOf(SalesChart, FirstPeriod) \in Addresses
  BY SalesAssumption DEF AddressOf, Addresses
<1>3. DashForms'
  BY <1>1, <1>2, SalesAssumption DEF DashInv, DashForms
<1>4. RequestsHaveAddress' /\ EntriesAreOwn' /\ OneRequestPerAddress'
  BY <1>1 DEF DashInv, RequestsHaveAddress, EntriesAreOwn, OneRequestPerAddress
<1>5. \A d \in Charts \ {SalesChart} :
         chosen'[d] = chosen[d] /\ figures'[d] = figures[d] /\ loading'[d] = loading[d] /\ fetchError'[d] = fetchError[d]
  BY <1>1 DEF DashInv, DashForms
<1>6. WaitsForChoice'
  BY <1>1, <1>5 DEF DashInv, WaitsForChoice
<1>7. figures'[SalesChart] = AddressOf(SalesChart, chosen'[SalesChart])
  BY <1>1, SalesAssumption DEF DashInv, DashForms
<1>8. ShowsChoice'
  BY <1>1, <1>5, <1>7 DEF DashInv, DashForms, ShowsChoice
<1>9. QED BY <1>3, <1>4, <1>6, <1>8 DEF DashInv

\* What the user does.
LEMMA UserKeeps ==
  ASSUME DashInv, \/ Open \/ Leave \/ ChooseAgain
                  \/ \E c \in Charts : Mount(c) \/ \E p \in Periods : Choose(c, p)
  PROVE  DashInv'
<1>1. CASE Open
  <2>1. UNCHANGED <<mounted, chosen, figures, loading, fetchError, kept, fresh, inflight, request, askers, overtaken>>
    BY <1>1 DEF Open, dataVars, cacheVars, netVars
  <2>2. QED BY <2>1 DEF DashInv, DashForms, RequestsHaveAddress, EntriesAreOwn, WaitsForChoice, ShowsChoice,
                        OneRequestPerAddress
<1>2. CASE Leave
  <2>1. /\ UNCHANGED <<chosen, figures, loading, fetchError, kept, fresh, inflight, request>>
        /\ mounted' = {} /\ askers' = [r \in Requests |-> {}]
    BY <1>2 DEF Leave, dataVars, cacheVars
  <2>2. DashForms'
    BY <2>1 DEF DashInv, DashForms
  <2>3. QED BY <2>1, <2>2 DEF DashInv, RequestsHaveAddress, EntriesAreOwn, WaitsForChoice, ShowsChoice,
                              OneRequestPerAddress
<1>3. CASE ChooseAgain
  <2>1. chosen[SalesChart] \in Periods /\ figures[SalesChart] \in Addresses \cup {Nothing}
    BY SalesAssumption DEF DashInv, DashForms
  <2>2. mounted' = mounted \cup {SalesChart} /\ chosen' = [chosen EXCEPT ![SalesChart] = chosen[SalesChart]]
    BY <1>3 DEF ChooseAgain, pageVars, DashInv, DashForms
  <2>3. QED BY <1>3, <2>1, <2>2, SalesAssumption, FetchKeeps DEF ChooseAgain
<1>4. ASSUME NEW c \in Charts, Mount(c) PROVE DashInv'
  <2>1. CASE c = SalesChart
    BY <1>4, <2>1, MountSalesKeeps DEF Mount
  <2>2. CASE c # SalesChart
    BY <1>4, <2>2, SalesAssumption, FetchKeeps DEF Mount
  <2>3. QED BY <2>1, <2>2
<1>5. ASSUME NEW c \in Charts, NEW p \in Periods, Choose(c, p) PROVE DashInv'
  <2>1. figures[c] \in Addresses \cup {Nothing} /\ mounted' = mounted \cup {c}
    BY <1>5 DEF Choose, DashInv, DashForms
  <2>2. QED BY <1>5, <2>1, FetchKeeps DEF Choose
<1>6. QED BY <1>1, <1>2, <1>3, <1>4, <1>5

LEMMA StaleKeeps ==
  ASSUME DashInv, NEW a \in Addresses, TurnStale(a)
  PROVE  DashInv'
<1>1. /\ UNCHANGED <<mounted, chosen, figures, loading, fetchError, kept, inflight, request, askers, overtaken>>
      /\ fresh' = fresh \ {a}
  BY DEF TurnStale, pageVars, dataVars, netVars
<1>2. DashForms' /\ EntriesAreOwn'
  BY <1>1 DEF DashInv, DashForms, EntriesAreOwn
<1>3. QED BY <1>1, <1>2 DEF DashInv, RequestsHaveAddress, WaitsForChoice, ShowsChoice, OneRequestPerAddress

\* A request that stays one for the same address.
LEMMA TryKeeps ==
  ASSUME DashInv, NEW r \in Requests, ServeFigures(r) \/ Miss(r)
  PROVE  DashInv'
<1>1. request[r] \in RequestForms /\ request[r].pc = "sent"
  BY DEF ServeFigures, Miss, DashInv, DashForms
<1>2. UNCHANGED <<mounted, chosen, figures, loading, fetchError, kept, fresh, inflight, askers, overtaken>>
  BY DEF ServeFigures, Miss, pageVars, dataVars, cacheVars
<1>3. PICK new \in RequestForms : /\ request' = [request EXCEPT ![r] = new] /\ new.pc # "idle"
                                  /\ new.of = request[r].of /\ new.renews = request[r].renews
  <2>1. CASE RequestTo(r, [request[r] EXCEPT !.pc = "ok"])
    <3> DEFINE new == [request[r] EXCEPT !.pc = "ok"]
    <3>1. new \in RequestForms /\ new.pc # "idle" /\ new.of = request[r].of /\ new.renews = request[r].renews
      BY <1>1 DEF RequestForms
    <3>2. QED BY <2>1, <3>1 DEF RequestTo
  <2>2. CASE RequestTo(r, [request[r] EXCEPT !.tries = @ + 1])
    <3> DEFINE new == [request[r] EXCEPT !.tries = @ + 1]
    <3>1. new \in RequestForms /\ new.pc # "idle" /\ new.of = request[r].of /\ new.renews = request[r].renews
      BY <1>1 DEF RequestForms
    <3>2. QED BY <2>2, <3>1 DEF RequestTo
  <2>3. CASE RequestTo(r, [request[r] EXCEPT !.pc = "failed"])
    <3> DEFINE new == [request[r] EXCEPT !.pc = "failed"]
    <3>1. new \in RequestForms /\ new.pc # "idle" /\ new.of = request[r].of /\ new.renews = request[r].renews
      BY <1>1 DEF RequestForms
    <3>2. QED BY <2>3, <3>1 DEF RequestTo
  <2>4. QED BY <2>1, <2>2, <2>3 DEF ServeFigures, Miss
<1>4. \A q \in Requests : /\ request'[q].of = request[q].of /\ request'[q].renews = request[q].renews
                          /\ (request'[q].pc = "idle" <=> request[q].pc = "idle")
  BY <1>1, <1>3 DEF DashInv, DashForms
<1>5. DashForms'
  BY <1>2, <1>3 DEF DashInv, DashForms
<1>6. RequestsHaveAddress' /\ OneRequestPerAddress'
  BY <1>2, <1>4 DEF DashInv, RequestsHaveAddress, OneRequestPerAddress
<1>7. WaitsForChoice' /\ ShowsChoice' /\ EntriesAreOwn'
  BY <1>2, <1>4 DEF DashInv, WaitsForChoice, ShowsChoice, EntriesAreOwn
<1>8. QED BY <1>5, <1>6, <1>7 DEF DashInv

\* What is stored is the entry of its own address; what is pruned is gone.
LEMMA PutKeeps ==
  ASSUME DashInv, NEW a \in Addresses, Put(a, a)
  PROVE  /\ EntriesAreOwn'
         /\ kept' \in [Addresses -> Addresses \cup {Nothing}] /\ fresh' \subseteq Addresses
<1>1. PICK keys : /\ fresh' = (fresh \cup {a}) \cap keys
                  /\ kept' = [k \in Addresses |-> IF k = a THEN a ELSE IF k \in keys THEN kept[k] ELSE Nothing]
  BY DEF Put
<1>2. QED BY <1>1 DEF DashInv, DashForms, EntriesAreOwn

LEMMA SettleKeeps ==
  ASSUME DashInv, NEW r \in Requests, Settle(r)
  PROVE  DashInv'
<1> DEFINE a == request[r].of
           ok == request[r].pc = "ok"
<1>1. /\ request[r].pc \in {"ok", "failed"} /\ UNCHANGED <<mounted, chosen, overtaken>>
      /\ Deregister(r) /\ StopsLoading(r)
      /\ request' = [request EXCEPT ![r] = Unused] /\ askers' = [askers EXCEPT ![r] = {}]
      /\ figures' = [c \in Charts |-> IF c \in askers[r] /\ ok THEN a ELSE figures[c]]
      /\ fetchError' = [c \in Charts |-> fetchError[c] \/ (c \in askers[r] /\ ~ok)]
      /\ IF ok THEN Put(a, a) ELSE UNCHANGED <<kept, fresh>>
  BY DEF Settle, pageVars, cacheVars
<1>2. a \in Addresses
  BY <1>1 DEF DashInv, RequestsHaveAddress
<1> HIDE DEF a, ok
<1>3. Unused \in RequestForms /\ Unused.pc = "idle"
  BY DEF Unused, RequestForms
<1>4. /\ \A q \in Requests \ {r} : request'[q] = request[q] /\ askers'[q] = askers[q]
      /\ request'[r] = Unused /\ askers'[r] = {}
      /\ request' \in [Requests -> RequestForms] /\ askers' \in [Requests -> SUBSET Charts]
  BY <1>1, <1>3 DEF DashInv, DashForms
<1>5. /\ EntriesAreOwn'
      /\ kept' \in [Addresses -> Addresses \cup {Nothing}] /\ fresh' \subseteq Addresses
  <2>1. CASE ok
    BY <1>1, <1>2, <2>1, PutKeeps
  <2>2. CASE ~ok
    BY <1>1, <2>2 DEF DashInv, DashForms, EntriesAreOwn
  <2>3. QED BY <2>1, <2>2
<1>6. inflight' = IF request[r].renews THEN inflight ELSE [inflight EXCEPT ![a] = Nothing]
  BY <1>1 DEF Deregister, a
<1>7. /\ inflight' \in [Addresses -> Requests \cup {Nothing}]
      /\ loading' = [c \in Charts |-> loading[c] /\ c \notin askers[r]]
  BY <1>1, <1>6 DEF DashInv, DashForms, StopsLoading
<1>8. DashForms'
  BY <1>1, <1>2, <1>4, <1>5, <1>7 DEF DashInv, DashForms
<1>9. RequestsHaveAddress'
  BY <1>3, <1>4 DEF DashInv, RequestsHaveAddress
<1>10. OneRequestPerAddress'
  <2>1. \A b \in Addresses : inflight'[b] # r
    <3>1. CASE request[r].renews
      BY <1>6, <3>1 DEF DashInv, OneRequestPerAddress
    <3>2. CASE ~request[r].renews
      <4>1. \A b \in Addresses : inflight'[b] = IF b = a THEN Nothing ELSE inflight[b]
        BY <1>6, <3>2 DEF DashInv, DashForms
      <4>2. \A b \in Addresses : inflight[b] = r => b = a
        BY DEF DashInv, OneRequestPerAddress, a
      <4>3. QED BY <4>1, <4>2, NothingAssumption
    <3>3. QED BY <3>1, <3>2
  <2>2. \A b \in Addresses, q \in Requests \ {r} : inflight'[b] = q <=> inflight[b] = q
    <3>1. CASE request[r].renews
      BY <1>6, <3>1
    <3>2. CASE ~request[r].renews
      <4>1. \A b \in Addresses : inflight'[b] = IF b = a THEN Nothing ELSE inflight[b]
        BY <1>6, <3>2 DEF DashInv, DashForms
      <4>2. inflight[a] = r
        BY <1>1, <1>2, <3>2 DEF DashInv, OneRequestPerAddress, a
      <4>3. QED BY <4>1, <4>2, NothingAssumption
    <3>3. QED BY <3>1, <3>2
  <2>3. QED BY <1>3, <1>4, <2>1, <2>2 DEF DashInv, OneRequestPerAddress
<1>11. WaitsForChoice'
  BY <1>1, <1>4 DEF DashInv, WaitsForChoice
<1>12. ShowsChoice'
  <2>1. SUFFICES ASSUME NEW c \in mounted \ overtaken, ~loading'[c], ~fetchError'[c]
                 PROVE  figures'[c] \in {Nothing, AddressOf(c, chosen[c])}
    BY <1>1 DEF ShowsChoice
  <2>2. c \in Charts
    BY DEF DashInv, DashForms
  <2>3. CASE c \in askers[r]
    <3>1. ok /\ figures'[c] = a
      BY <1>1, <2>1, <2>2, <2>3
    <3>2. a = AddressOf(c, chosen[c])
      BY <2>2, <2>3 DEF DashInv, WaitsForChoice, a
    <3>3. QED BY <3>1, <3>2
  <2>4. CASE c \notin askers[r]
    <3>1. figures'[c] = figures[c] /\ ~loading[c] /\ ~fetchError[c]
      BY <1>1, <1>7, <2>1, <2>2, <2>4
    <3>2. QED BY <3>1 DEF DashInv, ShowsChoice
  <2>5. QED BY <2>3, <2>4
<1>13. QED BY <1>5, <1>8, <1>9, <1>10, <1>11, <1>12 DEF DashInv

LEMMA DashStep == DashInv /\ [StaffNext]_staffVars => DashInv'
<1> SUFFICES ASSUME DashInv, [StaffNext]_staffVars PROVE DashInv'
  OBVIOUS
<1>1. CASE UNCHANGED dashVars
  BY <1>1 DEF dashVars, pageVars, dataVars, cacheVars, netVars, DashInv, DashForms, RequestsHaveAddress, EntriesAreOwn,
              WaitsForChoice, ShowsChoice, OneRequestPerAddress
<1>2. CASE DashNext
  BY <1>2, UserKeeps, StaleKeeps, TryKeeps, SettleKeeps DEF DashNext
<1>3. QED BY <1>1, <1>2 DEF StaffNext, staffVars

\* Callers that have to wait for an address share one request, and the map of
\* shared requests names it as long as it runs (inflight of cachedGet).
THEOREM OneRequestEach == StaffSpec => []OneRequestPerAddress
<1>1. StaffInit => DashInv
  BY DashStarts DEF StaffInit
<1>2. DashInv => OneRequestPerAddress
  BY DEF DashInv
<1>3. QED BY <1>1, <1>2, DashStep, PTL DEF StaffSpec

\* A card that was not overtaken shows the figures of the period it names,
\* whatever turned stale, was pruned, shared or retried (useDashboardDataFetcher).
THEOREM ChartsTellTruth == StaffSpec => []ChartMatchesChoice
<1>1. StaffInit => DashInv
  BY DashStarts DEF StaffInit
<1>2. ASSUME DashInv PROVE ChartMatchesChoice
  <2>1. SUFFICES ASSUME NEW c \in mounted \ overtaken, View(c) = "figures"
                 PROVE  figures[c] = AddressOf(c, chosen[c])
    BY DEF ChartMatchesChoice
  <2>2. ~loading[c] /\ ~fetchError[c] /\ figures[c] # Nothing
    BY <2>1 DEF View
  <2>3. QED BY <1>2, <2>2 DEF DashInv, ShowsChoice
<1>3. QED BY <1>1, <1>2, DashStep, PTL DEF StaffSpec

-----------------------------------------------------------------------------
(* The board                                                               *)

PatchesHaveTarget == \A o \in Orders : patch[o].pc # "idle" => patch[o].to \in Visible \cup Over

\* An order whose status has not changed since the second of the answer.
AnswersAreDated == \A p \in Polls :
    /\ poll[p].at <= clock
    /\ poll[p].pc = "served" => \A o \in Orders : stamp[o] < poll[p].at =>
          poll[p].data[o] = IF ChangedSince(p, o) THEN server[o] ELSE None

BoardInv == BoardTypeOK /\ PatchesHaveTarget /\ AnswersAreDated

LEMMA CardOfType ==
  ASSUME NEW status \in Visible
  PROVE  CardOf(status) \in Cards /\ CardOf(status).status = status
<1>1. CASE status = "Ready"
  BY <1>1 DEF CardOf, Cards, Visible
<1>2. CASE status # "Ready"
  BY <1>2 DEF CardOf, Cards, Visible
<1>3. QED BY <1>1, <1>2

LEMMA Blanks == Off \in Cards /\ NoPoll \in PollType /\ NoPatch \in PatchType
<1>1. Off \in Cards
  BY DEF Cards, Off
<1>2. QED BY <1>1 DEF NoPoll, NoPatch, PollType, PatchType

LEMMA BoardStarts == Init => BoardInv
<1> SUFFICES ASSUME Init PROVE BoardInv
  OBVIOUS
<1>1. server \in [Orders -> OrderStatus]
  BY OpeningAssumption DEF Init, OrderStatus
<1>2. card \in [Orders -> Cards]
  BY CardOfType, Blanks DEF Init, Active
<1>3. BoardTypeOK
  BY <1>1, <1>2, Blanks, FullAssumption DEF Init, BoardTypeOK
<1>4. PatchesHaveTarget /\ AnswersAreDated
  BY DEF Init, PatchesHaveTarget, AnswersAreDated, NoPatch, NoPoll
<1>5. QED BY <1>3, <1>4 DEF BoardInv

-----------------------------------------------------------------------------
(* What a step leaves alone                                                *)

\* Nothing happens to the orders, nor to the polls.
LEMMA CardsMove ==
  ASSUME BoardInv, UNCHANGED <<serverVars, poll>>,
         card' \in [Orders -> Cards], since' \in Nat, count' \in 0 .. FullEvery,
         expects' \in [Orders -> Visible \cup Over \cup {None}],
         patch' \in [Orders -> PatchType], PatchesHaveTarget',
         intent' \in [Orders -> {None, "reject", "hold"}], UNCHANGED auto,
         events' \in Nat, fails' \in Nat
  PROVE  BoardInv'
<1>1. UNCHANGED <<server, stamp, clock, poll>>
  BY DEF serverVars
<1>2. BoardTypeOK'
  BY <1>1 DEF BoardInv, BoardTypeOK
<1>3. AnswersAreDated'
  BY <1>1 DEF BoardInv, AnswersAreDated, ChangedSince, Active
<1>4. QED BY <1>2, <1>3 DEF BoardInv

LEMMA HappensType == ASSUME BoardInv, Happens PROVE events' \in Nat
BY DEF BoardInv, BoardTypeOK, Happens

LEMMA IntentType ==
  ASSUME BoardInv, NEW cards
  PROVE  IntentAfter(cards) \in [Orders -> {None, "reject", "hold"}]
BY DEF BoardInv, BoardTypeOK, IntentAfter

\* An order that moves is stamped with the server's time: no answer is newer.
LEMMA MoveKeeps ==
  ASSUME BoardInv, NEW o \in Orders, NEW to \in OrderStatus, MoveTo(o, to), UNCHANGED poll
  PROVE  /\ AnswersAreDated'
         /\ server' \in [Orders -> OrderStatus] /\ stamp' \in [Orders -> Nat] /\ clock' \in Nat
<1>1. /\ server' = [server EXCEPT ![o] = to] /\ stamp' = [stamp EXCEPT ![o] = clock']
      /\ clock' \in {clock, clock + 1} /\ clock \in Nat
  BY DEF MoveTo, BoardInv, BoardTypeOK
<1>2. clock' \in Nat /\ clock <= clock'
  BY <1>1
<1>3. server' \in [Orders -> OrderStatus] /\ stamp' \in [Orders -> Nat]
  BY <1>1, <1>2 DEF BoardInv, BoardTypeOK
<1>4. \A x \in Orders \ {o} : server'[x] = server[x] /\ stamp'[x] = stamp[x]
  BY <1>1 DEF BoardInv, BoardTypeOK
<1>5. ASSUME NEW p \in Polls
      PROVE  /\ poll'[p].at <= clock'
             /\ poll'[p].pc = "served" => \A x \in Orders : stamp'[x] < poll'[p].at =>
                   poll'[p].data[x] = IF ChangedSince(p, x)' THEN server'[x] ELSE None
  <2>1. poll[p].at \in Nat /\ poll[p].at <= clock
    BY DEF BoardInv, BoardTypeOK, PollType, AnswersAreDated
  <2>2. poll[p].at <= clock'
    BY <1>1, <1>2, <2>1
  <2>3. ~(stamp'[o] < poll[p].at)
    BY <1>1, <1>2, <2>1, <2>2 DEF BoardInv, BoardTypeOK
  <2>4. \A x \in Orders \ {o} : ChangedSince(p, x)' <=> ChangedSince(p, x)
    BY <1>4 DEF ChangedSince, Active
  <2>5. QED BY <1>4, <2>2, <2>3, <2>4 DEF BoardInv, AnswersAreDated
<1>6. QED BY <1>2, <1>3, <1>5 DEF AnswersAreDated

\* A poll is asked.
LEMMA AskKeeps ==
  ASSUME BoardInv, NEW p \in Polls, Ask(p), UNCHANGED serverVars
  PROVE  /\ poll' \in [Polls -> PollType] /\ count' \in 0 .. FullEvery /\ AnswersAreDated'
         /\ poll'[p].pc = "sent" /\ \A q \in Polls \ {p} : poll'[q] = poll[q]
<1> DEFINE full == count + 1 >= FullEvery
           new  == [NoPoll EXCEPT !.pc = "sent", !.full = full, !.since = IF full THEN 0 ELSE since]
<1>1. new \in PollType /\ new.pc = "sent" /\ new.at = 0
  <2>1. ASSUME NEW f \in BOOLEAN, NEW n \in Nat
        PROVE  [NoPoll EXCEPT !.pc = "sent", !.full = f, !.since = n] \in PollType
    BY Blanks DEF PollType
  <2>2. full \in BOOLEAN /\ (IF full THEN 0 ELSE since) \in Nat
    BY DEF BoardInv, BoardTypeOK
  <2>3. new \in PollType
    BY <2>1, <2>2, Zenon
  <2>4. QED BY <2>3 DEF NoPoll
<1>2. poll' = [poll EXCEPT ![p] = new] /\ count' = IF full THEN 0 ELSE count + 1
  BY DEF Ask
<1>3. count' \in 0 .. FullEvery
  BY <1>2, FullAssumption DEF BoardInv, BoardTypeOK
<1> HIDE DEF full, new
<1>4. poll' \in [Polls -> PollType] /\ poll'[p] = new /\ \A q \in Polls \ {p} : poll'[q] = poll[q]
  BY <1>1, <1>2 DEF BoardInv, BoardTypeOK
<1>5. UNCHANGED <<server, stamp, clock>> /\ 0 <= clock
  BY DEF serverVars, BoardInv, BoardTypeOK
<1>6. AnswersAreDated'
  BY <1>1, <1>4, <1>5 DEF BoardInv, AnswersAreDated, ChangedSince, Active
<1>7. QED BY <1>1, <1>3, <1>4, <1>6

-----------------------------------------------------------------------------
(* Polls                                                                   *)

LEMMA TimerKeeps == ASSUME BoardInv, TimerPoll PROVE BoardInv'
<1>1. UNCHANGED <<serverVars, card, since, expects, patch, intent, auto, events, fails>> /\ Ask("timer")
  BY DEF TimerPoll
<1>2. poll' \in [Polls -> PollType] /\ count' \in 0 .. FullEvery /\ AnswersAreDated'
  BY <1>1, AskKeeps DEF Polls
<1>3. BoardTypeOK' /\ PatchesHaveTarget'
  BY <1>1, <1>2 DEF BoardInv, BoardTypeOK, PatchesHaveTarget, serverVars
<1>4. QED BY <1>2, <1>3 DEF BoardInv

LEMMA AnswerKeeps == ASSUME BoardInv, NEW p \in Polls, Answer(p) PROVE BoardInv'
<1> DEFINE data == [o \in Orders |-> IF ChangedSince(p, o) THEN server[o] ELSE None]
           new  == [poll[p] EXCEPT !.pc = "served", !.at = clock, !.data = data]
<1>1. poll' = [poll EXCEPT ![p] = new] /\ poll[p] \in PollType
  BY DEF Answer, BoardInv, BoardTypeOK
<1>2. UNCHANGED <<server, stamp, clock, card, since, count, expects, patch, intent, auto, events, fails>>
  BY DEF Answer, serverVars, boardVars
<1>3. data \in [Orders -> Visible \cup {None}] /\ clock \in Nat
  BY DEF ChangedSince, Active, BoardInv, BoardTypeOK
<1>4. /\ new \in PollType /\ new.pc = "served" /\ new.at = clock /\ new.data = data
      /\ new.full = poll[p].full /\ new.since = poll[p].since
  <2> HIDE DEF data
  <2>1. QED BY <1>1, <1>3 DEF PollType
<1> HIDE DEF new
<1>5. poll' \in [Polls -> PollType] /\ poll'[p] = new /\ \A q \in Polls \ {p} : poll'[q] = poll[q]
  BY <1>1, <1>4 DEF BoardInv, BoardTypeOK
<1>6. BoardTypeOK' /\ PatchesHaveTarget'
  BY <1>2, <1>5 DEF BoardInv, BoardTypeOK, PatchesHaveTarget
<1>7. \A q \in Polls, o \in Orders : ChangedSince(q, o)' <=> ChangedSince(q, o)
  BY <1>2, <1>4, <1>5 DEF ChangedSince, Active
<1>8. AnswersAreDated'
  BY <1>2, <1>3, <1>4, <1>5, <1>7 DEF BoardInv, AnswersAreDated
<1>9. QED BY <1>6, <1>8 DEF BoardInv

\* A poll that is over.
LEMMA PollEnds ==
  ASSUME BoardInv, NEW p \in Polls, poll' = [poll EXCEPT ![p] = NoPoll], UNCHANGED serverVars
  PROVE  poll' \in [Polls -> PollType] /\ AnswersAreDated'
<1>1. poll' \in [Polls -> PollType] /\ poll'[p] = NoPoll /\ \A q \in Polls \ {p} : poll'[q] = poll[q]
  BY Blanks DEF BoardInv, BoardTypeOK
<1>2. UNCHANGED <<server, stamp, clock>> /\ 0 <= clock /\ NoPoll.at = 0 /\ NoPoll.pc = "idle"
  BY DEF serverVars, BoardInv, BoardTypeOK, NoPoll
<1>3. AnswersAreDated'
  BY <1>1, <1>2 DEF BoardInv, AnswersAreDated, ChangedSince, Active
<1>4. QED BY <1>1, <1>3

LEMMA PollFailsKeeps == ASSUME BoardInv, NEW p \in Polls, PollFails(p) PROVE BoardInv'
<1>1. poll' \in [Polls -> PollType] /\ AnswersAreDated'
  BY PollEnds DEF PollFails
<1>2. BoardTypeOK' /\ PatchesHaveTarget'
  BY <1>1 DEF PollFails, serverVars, boardVars, BoardInv, BoardTypeOK, PatchesHaveTarget
<1>3. QED BY <1>1, <1>2 DEF BoardInv

\* A record of an answer makes a card; none leaves the card, or drops it.
LEMMA CardAfterType ==
  ASSUME BoardInv, NEW p \in Polls, NEW o \in Orders
  PROVE  CardAfter(p, o) \in Cards
<1>1. poll[p].data[o] \in Visible \cup {None} /\ card[o] \in Cards
  BY DEF BoardInv, BoardTypeOK, PollType
<1>2. QED BY <1>1, CardOfType, Blanks DEF CardAfter

LEMMA ApplyKeeps == ASSUME BoardInv, NEW p \in Polls, Apply(p) PROVE BoardInv'
<1>1. /\ UNCHANGED <<serverVars, count, patch, auto, events, fails>> /\ poll' = [poll EXCEPT ![p] = NoPoll]
      /\ card' = [o \in Orders |-> CardAfter(p, o)] /\ intent' = IntentAfter(card')
      /\ since' = IF Ignored(p) = {} THEN poll[p].at ELSE since
  BY DEF Apply
<1>2. poll' \in [Polls -> PollType] /\ AnswersAreDated'
  BY <1>1, PollEnds
<1>3. card' \in [Orders -> Cards] /\ intent' \in [Orders -> {None, "reject", "hold"}]
  BY <1>1, CardAfterType, IntentType
<1>4. since' \in Nat
  BY <1>1 DEF BoardInv, BoardTypeOK, PollType
<1>5. expects' \in [Orders -> Visible \cup Over \cup {None}]
  BY DEF Apply, BoardInv, BoardTypeOK
<1>6. BoardTypeOK' /\ PatchesHaveTarget'
  BY <1>1, <1>2, <1>3, <1>4, <1>5 DEF BoardInv, BoardTypeOK, PatchesHaveTarget, serverVars
<1>7. QED BY <1>2, <1>6 DEF BoardInv

-----------------------------------------------------------------------------
(* Changing an order                                                       *)

LEMMA BeginKeeps ==
  ASSUME BoardInv, NEW o \in Orders, NEW to \in Visible \cup Over, Begin(o, to)
  PROVE  card' \in [Orders -> Cards] /\ patch' \in [Orders -> PatchType] /\ PatchesHaveTarget'
<1>1. card[o] \in Cards /\ card \in [Orders -> Cards]
  BY DEF BoardInv, BoardTypeOK
<1>2. (IF to \in Over \/ ~Shown(o) THEN Off ELSE [card[o] EXCEPT !.status = to]) \in Cards
  BY <1>1, Blanks DEF Shown, Cards
<1>3. card' \in [Orders -> Cards]
  BY <1>1, <1>2 DEF Begin
<1> DEFINE new == [pc |-> "sent", to |-> to, saved |-> card]
<1>4. new \in PatchType /\ new.to = to
  BY <1>1 DEF PatchType
<1>5. patch' = [patch EXCEPT ![o] = new]
  BY DEF Begin
<1> HIDE DEF new
<1>6. QED BY <1>3, <1>4, <1>5 DEF BoardInv, BoardTypeOK, PatchesHaveTarget

LEMMA StaffKeeps ==
  ASSUME BoardInv, NEW o \in Orders, Staff(o) \/ AutoComplete(o)
  PROVE  BoardInv'
<1>0. /\ card \in [Orders -> Cards] /\ since \in Nat /\ count \in 0 .. FullEvery /\ events \in Nat /\ fails \in Nat
      /\ expects \in [Orders -> Visible \cup Over \cup {None}] /\ patch \in [Orders -> PatchType]
      /\ intent \in [Orders -> {None, "reject", "hold"}] /\ PatchesHaveTarget
  BY DEF BoardInv, BoardTypeOK
<1>1. ASSUME NEW to \in Visible \cup Over, Begin(o, to), intent' \in [Orders -> {None, "reject", "hold"}],
             UNCHANGED <<serverVars, since, count, expects, poll, auto, fails>>, events' \in Nat
      PROVE  BoardInv'
  <2>1. card' \in [Orders -> Cards] /\ patch' \in [Orders -> PatchType] /\ PatchesHaveTarget'
    BY <1>1, BeginKeeps
  <2>2. QED BY <1>0, <1>1, <2>1, CardsMove
<1>2. CASE Tap(o)
  <2>1. card[o].status \in Visible
    BY <1>0, <1>2 DEF Tap, Shown, Cards
  <2>2. NextOf(card[o].status) \in Visible \cup Over
    BY <2>1 DEF NextOf, Visible, Over
  <2>3. events' \in Nat /\ intent' \in [Orders -> {None, "reject", "hold"}]
    BY <1>2, HappensType, IntentType DEF Tap
  <2>4. QED BY <1>1, <1>2, <2>2, <2>3 DEF Tap
<1>3. CASE AutoComplete(o)
  <2>1. intent' \in [Orders -> {None, "reject", "hold"}] /\ "Completed" \in Visible \cup Over
    BY <1>3, IntentType DEF AutoComplete, Over
  <2>2. QED BY <1>0, <1>1, <1>3, <2>1 DEF AutoComplete
<1>4. CASE CarryOut(o)
  <2>1. intent' \in [Orders -> {None, "reject", "hold"}]
    BY <1>4, IntentType DEF CarryOut
  <2>2. CASE patch[o].pc = "idle"
    <3>1. (IF intent[o] = "reject" THEN "Cancelled" ELSE "InProgress") \in Visible \cup Over
      BY DEF Visible, Over
    <3>2. QED BY <1>0, <1>1, <1>4, <2>1, <2>2, <3>1 DEF CarryOut
  <2>3. CASE patch[o].pc # "idle"
    <3>1. UNCHANGED <<serverVars, poll, card, since, count, expects, patch, auto, events, fails>>
      BY <1>4, <2>3 DEF CarryOut
    <3>2. PatchesHaveTarget'
      BY <1>0, <3>1 DEF PatchesHaveTarget
    <3>3. QED BY <1>0, <2>1, <3>1, <3>2, CardsMove
  <2>4. QED BY <2>2, <2>3
<1>5. CASE Intend(o) \/ Desist(o)
  <2>1. UNCHANGED <<serverVars, poll, card, since, count, expects, patch, auto, fails>>
    BY <1>5 DEF Intend, Desist, boardVars
  <2>2. intent' \in [Orders -> {None, "reject", "hold"}]
    BY <1>0, <1>5 DEF Intend, Desist
  <2>3. events' \in Nat
    BY <1>0, <1>5, HappensType DEF Intend, Desist
  <2>4. PatchesHaveTarget'
    BY <1>0, <2>1 DEF PatchesHaveTarget
  <2>5. QED BY <1>0, <2>1, <2>2, <2>3, <2>4, CardsMove
<1>6. QED BY <1>2, <1>3, <1>4, <1>5 DEF Staff

\* The request of o goes on, to the same target, or ends.
LEMMA PatchMoves ==
  ASSUME BoardInv, NEW o \in Orders, NEW pc \in {"moved", "refused"}, patch[o].pc # "idle",
         patch' = [patch EXCEPT ![o].pc = pc]
  PROVE  patch' \in [Orders -> PatchType] /\ PatchesHaveTarget'
<1> DEFINE new == [patch[o] EXCEPT !.pc = pc]
<1>1. patch[o] \in PatchType /\ patch[o].to \in Visible \cup Over
  BY DEF BoardInv, BoardTypeOK, PatchesHaveTarget
<1>2. new \in PatchType /\ new.to = patch[o].to
  BY <1>1 DEF PatchType
<1>3. patch' = [patch EXCEPT ![o] = new]
  OBVIOUS
<1> HIDE DEF new
<1>4. QED BY <1>1, <1>2, <1>3 DEF BoardInv, BoardTypeOK, PatchesHaveTarget

LEMMA PatchOver ==
  ASSUME BoardInv, NEW o \in Orders, patch' = [patch EXCEPT ![o] = NoPatch]
  PROVE  patch' \in [Orders -> PatchType] /\ PatchesHaveTarget'
<1>1. NoPatch.pc = "idle"
  BY DEF NoPatch
<1>2. QED BY <1>1, Blanks DEF BoardInv, BoardTypeOK, PatchesHaveTarget

LEMMA ServeKeeps == ASSUME BoardInv, NEW o \in Orders, Serve(o) PROVE BoardInv'
<1> DEFINE to == patch[o].to
<1>1. UNCHANGED <<card, since, count, expects, poll, intent, auto, events, fails>> /\ patch[o].pc = "sent"
  BY DEF Serve, boardVars
<1>2. CASE CanMove(o, to) /\ MoveTo(o, to) /\ patch' = [patch EXCEPT ![o].pc = "moved"]
  <2>1. to \in OrderStatus
    BY <1>1 DEF BoardInv, PatchesHaveTarget, Visible, Over, OrderStatus
  <2>2. /\ AnswersAreDated'
        /\ server' \in [Orders -> OrderStatus] /\ stamp' \in [Orders -> Nat] /\ clock' \in Nat
    BY <1>1, <1>2, <2>1, MoveKeeps
  <2>3. patch' \in [Orders -> PatchType] /\ PatchesHaveTarget'
    BY <1>1, <1>2, PatchMoves
  <2>4. BoardTypeOK'
    BY <1>1, <2>2, <2>3 DEF BoardInv, BoardTypeOK
  <2>5. QED BY <2>2, <2>3, <2>4 DEF BoardInv
<1>3. CASE UNCHANGED serverVars /\ patch' = [patch EXCEPT ![o].pc = "refused"]
  <2>1. patch' \in [Orders -> PatchType] /\ PatchesHaveTarget'
    BY <1>1, <1>3, PatchMoves
  <2>2. QED BY <1>1, <1>3, <2>1, CardsMove DEF BoardInv, BoardTypeOK
<1>4. QED BY <1>2, <1>3 DEF Serve

LEMMA RequestKeeps ==
  ASSUME BoardInv, NEW o \in Orders, PatchFails(o) \/ Agreed(o) \/ RollBack(o)
  PROVE  BoardInv'
<1>0. /\ card \in [Orders -> Cards] /\ since \in Nat /\ count \in 0 .. FullEvery /\ events \in Nat /\ fails \in Nat
      /\ expects \in [Orders -> Visible \cup Over \cup {None}] /\ patch[o] \in PatchType
      /\ intent \in [Orders -> {None, "reject", "hold"}]
  BY DEF BoardInv, BoardTypeOK
<1>1. CASE PatchFails(o)
  <2>1. patch' \in [Orders -> PatchType] /\ PatchesHaveTarget'
    BY <1>1, PatchMoves DEF PatchFails
  <2>2. UNCHANGED <<serverVars, card, since, count, expects, poll, intent, auto, events>> /\ fails' \in Nat
    BY <1>0, <1>1 DEF PatchFails, boardVars
  <2>3. QED BY <1>0, <2>1, <2>2, CardsMove
<1>2. CASE RollBack(o)
  <2>1. patch' \in [Orders -> PatchType] /\ PatchesHaveTarget'
    BY <1>2, PatchOver DEF RollBack
  <2>2. card' \in [Orders -> Cards] /\ expects' \in [Orders -> Visible \cup Over \cup {None}]
    BY <1>0, <1>2 DEF RollBack, PatchType
  <2>3. intent' \in [Orders -> {None, "reject", "hold"}]
    BY <1>2, IntentType DEF RollBack
  <2>4. UNCHANGED <<serverVars, since, count, poll, auto, events, fails>>
    BY <1>2 DEF RollBack
  <2>5. QED BY <1>0, <2>1, <2>2, <2>3, <2>4, CardsMove
<1>3. CASE Agreed(o)
  <2>1. patch' \in [Orders -> PatchType] /\ PatchesHaveTarget'
    BY <1>3, PatchOver DEF Agreed
  <2>2. patch[o].to \in Visible \cup Over
    BY <1>3 DEF Agreed, BoardInv, PatchesHaveTarget
  <2>3. card' \in [Orders -> Cards] /\ expects' \in [Orders -> Visible \cup Over \cup {None}]
    BY <1>0, <1>3, <2>2, CardOfType, Blanks DEF Agreed, AgreedCard
  <2>4. intent' \in [Orders -> {None, "reject", "hold"}]
    BY <1>3, IntentType DEF Agreed
  <2>5. UNCHANGED <<serverVars, since, auto, events, fails>>
    BY <1>3 DEF Agreed
  <2>6. CASE Ask("extra")
    <3>1. poll' \in [Polls -> PollType] /\ count' \in 0 .. FullEvery /\ AnswersAreDated'
      BY <2>5, <2>6, AskKeeps DEF Polls
    <3>2. BoardTypeOK'
      BY <2>1, <2>3, <2>4, <2>5, <3>1 DEF BoardInv, BoardTypeOK, serverVars
    <3>3. QED BY <2>1, <3>1, <3>2 DEF BoardInv
  <2>7. CASE UNCHANGED <<count, poll>>
    BY <1>0, <2>1, <2>3, <2>4, <2>5, <2>7, CardsMove
  <2>8. QED BY <1>3, <2>6, <2>7 DEF Agreed
<1>4. QED BY <1>1, <1>2, <1>3

LEMMA ElsewhereKeeps == ASSUME BoardInv, NEW o \in Orders, Elsewhere(o) PROVE BoardInv'
<1>1. PICK to \in Visible \cup Over : MoveTo(o, to)
  BY DEF Elsewhere
<1>2. UNCHANGED <<card, since, count, expects, poll, patch, intent, auto, fails>> /\ events' \in Nat
  BY HappensType DEF Elsewhere, boardVars
<1>3. /\ AnswersAreDated'
      /\ server' \in [Orders -> OrderStatus] /\ stamp' \in [Orders -> Nat] /\ clock' \in Nat
  BY <1>1, <1>2, MoveKeeps DEF Visible, Over, OrderStatus
<1>4. BoardTypeOK' /\ PatchesHaveTarget'
  BY <1>2, <1>3 DEF BoardInv, BoardTypeOK, PatchesHaveTarget
<1>5. QED BY <1>3, <1>4 DEF BoardInv

LEMMA ExpireKeeps == ASSUME BoardInv, NEW o \in Orders, Expire(o) PROVE BoardInv'
<1>1. /\ UNCHANGED <<serverVars, card, since, count, poll, patch, intent, auto, events, fails>>
      /\ expects' \in [Orders -> Visible \cup Over \cup {None}]
  BY DEF Expire, BoardInv, BoardTypeOK
<1>2. PatchesHaveTarget'
  BY <1>1 DEF BoardInv, PatchesHaveTarget
<1>3. QED BY <1>1, <1>2, CardsMove DEF BoardInv, BoardTypeOK

LEMMA BoardStep == BoardInv /\ [StaffNext]_staffVars => BoardInv'
<1> SUFFICES ASSUME BoardInv, [StaffNext]_staffVars PROVE BoardInv'
  OBVIOUS
<1>1. CASE UNCHANGED vars
  <2>1. UNCHANGED <<serverVars, poll, card, since, count, expects, patch, intent, auto, events, fails>>
    BY <1>1 DEF vars, boardVars
  <2>2. PatchesHaveTarget'
    BY <2>1 DEF BoardInv, PatchesHaveTarget
  <2>3. QED BY <2>1, <2>2, CardsMove DEF BoardInv, BoardTypeOK
<1>2. CASE Next
  BY <1>2, TimerKeeps, AnswerKeeps, PollFailsKeeps, ApplyKeeps, StaffKeeps, ServeKeeps, RequestKeeps,
     ElsewhereKeeps, ExpireKeeps DEF Next, Polling, Request
<1>3. QED BY <1>1, <1>2 DEF StaffNext, staffVars

\* The board never shows an order as over, whatever order the answers to polls
\* and PATCHes come in (useKdsOrders filters each way to its list).
THEOREM BoardTypeCorrect == StaffSpec => []BoardTypeOK
<1>1. StaffInit => BoardInv
  BY BoardStarts DEF StaffInit
<1>2. BoardInv => BoardTypeOK
  BY DEF BoardInv
<1>3. QED BY <1>1, <1>2, BoardStep, PTL DEF StaffSpec

\* What the answer makes of an order that would be overlooked from then on.
LEMMA ApplyOverlooksNothing ==
  ASSUME BoardInv, NEW p \in Polls, InOrder(p), Apply(p)
  PROVE  Overlooked' \subseteq Overlooked
<1>1. SUFFICES ASSUME NEW o \in Orders, Active(o)', card'[o].status # server'[o], patch'[o].pc = "idle",
                      stamp'[o] < since'
               PROVE  o \in Overlooked
  BY DEF Overlooked
<1>2. UNCHANGED <<server, stamp, patch>> /\ since' = poll[p].at /\ card'[o] = CardAfter(p, o)
  BY DEF Apply, serverVars, InOrder
<1>3. stamp[o] < poll[p].at /\ Active(o) /\ server[o] \in Visible
  BY <1>1, <1>2 DEF Active
<1>4. poll[p].data[o] = IF ChangedSince(p, o) THEN server[o] ELSE None
  BY <1>3 DEF BoardInv, AnswersAreDated, InOrder
<1>5. CASE ChangedSince(p, o)
  <2>1. poll[p].data[o] = server[o] /\ server[o] # None /\ o \notin Ignored(p)
    BY <1>3, <1>4, <1>5 DEF InOrder, Visible, None
  <2>2. card'[o] = CardOf(server[o])
    BY <1>2, <2>1 DEF CardAfter
  <2>3. card'[o].status = server[o]
    BY <1>3, <2>2, CardOfType
  <2>4. QED BY <1>1, <1>2, <2>3
<1>6. CASE ~ChangedSince(p, o)
  <2>1. poll[p].data[o] = None /\ ~poll[p].full /\ ~(stamp[o] >= poll[p].since)
    BY <1>3, <1>4, <1>6 DEF ChangedSince
  <2>2. card'[o] = card[o]
    BY <1>2, <2>1 DEF CardAfter
  <2>3. stamp[o] < since
    BY <2>1 DEF InOrder, BoardInv, BoardTypeOK, PollType
  <2>4. QED BY <1>1, <1>2, <1>3, <2>2, <2>3 DEF Overlooked
<1>7. QED BY <1>5, <1>6

\* A poll that has been answered is taken by Apply or lost, and by nothing else.
LEMMA ServedPollWaits ==
  ASSUME BoardInv, NEW p \in Polls, poll[p].pc = "served", Next, ~Apply(p), ~PollFails(p)
  PROVE  poll'[p].pc # "idle"
<1>1. ASSUME NEW q \in Polls, q # p, NEW new, poll' = [poll EXCEPT ![q] = new]
      PROVE  poll'[p].pc # "idle"
  BY <1>1 DEF BoardInv, BoardTypeOK
<1>2. ASSUME NEW q \in Polls, Ask(q), poll[q].pc = "idle" PROVE poll'[p].pc # "idle"
  BY <1>1, <1>2 DEF Ask
<1>3. CASE TimerPoll
  BY <1>2, <1>3 DEF TimerPoll, Polls
<1>4. ASSUME NEW q \in Polls, Polling(q) PROVE poll'[p].pc # "idle"
  <2>1. q # p
    BY <1>4 DEF Polling, Answer
  <2>2. QED BY <1>1, <1>4, <2>1 DEF Polling, Answer, PollFails, Apply
<1>5. ASSUME NEW o \in Orders, Agreed(o) PROVE poll'[p].pc # "idle"
  BY <1>2, <1>5 DEF Agreed, Polls
<1>6. ASSUME NEW o \in Orders, \/ Elsewhere(o) \/ Staff(o) \/ AutoComplete(o) \/ Expire(o)
                               \/ Serve(o) \/ PatchFails(o) \/ RollBack(o)
      PROVE  poll'[p].pc # "idle"
  BY <1>6 DEF Elsewhere, Staff, Tap, Intend, CarryOut, Desist, AutoComplete, Expire, Serve, PatchFails, RollBack
<1>7. QED BY <1>3, <1>4, <1>5, <1>6 DEF Next, Request

\* An incremental poll that is taken whole and in turn never passes over a
\* change, for any orders and whatever happens between its steps (fetchOrders
\* and lastServerTimeRef).
THEOREM PollsMissNothing == StaffSpec => PollLosesNothing
<1> DEFINE Loses(p) == InOrder(p) /\ poll'[p].pc = "idle" => Overlooked' \subseteq Overlooked
<1>1. StaffInit => BoardInv
  BY BoardStarts DEF StaffInit
<1>2. ASSUME BoardInv, [StaffNext]_staffVars
      PROVE  [\A p \in Polls : Loses(p)]_vars
  <2>1. CASE UNCHANGED vars
    BY <2>1
  <2>2. ASSUME Next, NEW p \in Polls, InOrder(p), poll'[p].pc = "idle"
        PROVE  Overlooked' \subseteq Overlooked
    <3>1. CASE Apply(p)
      BY <1>2, <2>2, <3>1, ApplyOverlooksNothing
    <3>2. CASE PollFails(p)
      BY <3>2 DEF PollFails, serverVars, boardVars, Overlooked, Active
    <3>3. QED BY <1>2, <2>2, <3>1, <3>2, ServedPollWaits DEF InOrder
  <2>3. QED BY <1>2, <2>1, <2>2 DEF StaffNext, staffVars
<1>3. QED BY <1>1, <1>2, BoardStep, PTL DEF StaffSpec, PollLosesNothing
=============================================================================
