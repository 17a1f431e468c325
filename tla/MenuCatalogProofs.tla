------------------------- MODULE MenuCatalogProofs -------------------------
(***************************************************************************)
(* Proofs about MenuCatalog, for any staff, customers, options, rules and   *)
(* number of changes.                                                      *)
(*                                                                         *)
(* That a cached menu is that of the rows, but for the known races, is not  *)
(* inductive: it has to be known where the menus come from that are yet to  *)
(* be stored, and that a change finds at its commit a cache that is empty,  *)
(* or goes with the commit, or knows why it is not (CacheInv).              *)
(*                                                                         *)
(* That a toast tells the truth depends on what the pressed button, the     *)
(* binding and the commit of a toggle have seen of the item, which only     *)
(* another toggle or the item's birth can change, however late the list is  *)
(* loaded again (StaffInv); what the server refuses on what the form let    *)
(* through, and on the links the commits leave behind (ReaderInv and the    *)
(* links of StaffInv).                                                      *)
(***************************************************************************)
EXTENDS MenuCatalog, FiniteSetTheorems, TLAPS

\* What the proof needs to know of the form of the state.
MenuForms ==
    /\ building = [c \in Readers |-> building[c]]
    /\ change = [s \in Staff |-> change[s]]
    /\ \A s \in Staff : change[s] # Shut => "pc" \in DOMAIN change[s]
    /\ store \in {"database", "memory"} /\ excused \in BOOLEAN

\* A build still under way read the rows as they are, or was overtaken.
BuildsAreCurrent == \A c \in Readers : building[c] # Shut => building[c].menu = MenuOf(rows) \/ c \in overlapped

\* A change that has dropped the cache finds it empty when it commits, takes the
\* entry with it, or remembers that somebody has filled it since.
RacesAreKnown == \A s \in Staff : Written(s) /\ s \notin undone => cached = Shut \/ store = "database"

CacheInv == MenuForms /\ BuildsAreCurrent /\ RacesAreKnown /\ CacheIsCurrent

-----------------------------------------------------------------------------
LEMMA CacheStarts == MenuInit => CacheInv
BY DEF MenuInit, CacheInv, MenuForms, BuildsAreCurrent, RacesAreKnown, CacheIsCurrent, Written

\* A step that changes none of what the invariant speaks of.
LEMMA CacheStays ==
  ASSUME CacheInv, UNCHANGED <<rows, store, cached, building, change, raceVars>>
  PROVE  CacheInv'
<1>1. UNCHANGED <<undone, overlapped, excused>>
  BY DEF raceVars
<1>2. MenuForms' /\ BuildsAreCurrent'
  BY <1>1 DEF CacheInv, MenuForms, BuildsAreCurrent, MenuOf, GroupOf
<1>3. RacesAreKnown' /\ CacheIsCurrent'
  BY <1>1 DEF CacheInv, RacesAreKnown, CacheIsCurrent, Written, MenuOf, GroupOf
<1>4. QED BY <1>2, <1>3 DEF CacheInv

\* A device's request takes a step that is neither the write nor the commit; the
\* cached menu is left alone or dropped.
LEMMA RequestMoves ==
  ASSUME CacheInv, NEW s \in Staff, NEW new, change' = [change EXCEPT ![s] = new], ~Written(s),
         new # Shut => "pc" \in DOMAIN new /\ new.pc # "written",
         UNCHANGED <<rows, store, building, undone, overlapped>>, excused' \in BOOLEAN,
         cached' = Shut \/ UNCHANGED <<cached, excused>>
  PROVE  CacheInv'
<1>1. \A t \in Staff : change'[t] = IF t = s THEN new ELSE change[t]
  BY DEF CacheInv, MenuForms
<1>2. MenuForms'
  BY <1>1 DEF CacheInv, MenuForms
<1>3. \A t \in Staff : Written(t)' <=> Written(t)
  BY <1>1 DEF Written
<1>4. BuildsAreCurrent' /\ RacesAreKnown'
  BY <1>3 DEF CacheInv, BuildsAreCurrent, RacesAreKnown, MenuOf, GroupOf
<1>5. CacheIsCurrent'
  BY DEF CacheInv, CacheIsCurrent, MenuOf, GroupOf
<1>6. QED BY <1>2, <1>4, <1>5 DEF CacheInv

-----------------------------------------------------------------------------
(* The readers and the clock                                               *)

LEMMA ReaderKeeps ==
  ASSUME CacheInv, NEW c \in Readers,
         \/ OpenMenu(c) \/ StoreMenu(c) \/ OpenItem(c) \/ PickOption(c) \/ PressAdd(c)
         \/ CloseItem(c) \/ AddItem(c) \/ SettleAdd(c)
  PROVE  CacheInv'
<1>1. CASE OpenMenu(c)
  <2>1. UNCHANGED <<rows, store, cached, change, raceVars>> /\ UNCHANGED <<undone, overlapped, excused>>
    BY <1>1 DEF OpenMenu, staffVars, raceVars
  <2>2. CASE UNCHANGED building
    BY <2>1, <2>2, CacheStays
  <2>3. CASE building' = [building EXCEPT ![c] = [menu |-> MenuOf(rows)]]
    <3>1. \A d \in Readers : building'[d] = IF d = c THEN [menu |-> MenuOf(rows)] ELSE building[d]
      BY <2>3 DEF CacheInv, MenuForms
    <3>2. MenuForms'
      BY <2>1, <2>3 DEF CacheInv, MenuForms
    <3>3. BuildsAreCurrent'
      BY <2>1, <3>1 DEF CacheInv, BuildsAreCurrent, MenuOf, GroupOf
    <3>4. RacesAreKnown' /\ CacheIsCurrent'
      BY <2>1 DEF CacheInv, RacesAreKnown, CacheIsCurrent, Written, MenuOf, GroupOf
    <3>5. QED BY <3>2, <3>3, <3>4 DEF CacheInv
  <2>4. QED BY <1>1, <2>2, <2>3 DEF OpenMenu
<1>2. CASE StoreMenu(c)
  <2>1. /\ UNCHANGED <<rows, store, change>> /\ building[c] # Shut /\ cached' = building[c]
        /\ building' = [building EXCEPT ![c] = Shut]
        /\ undone' = undone \cup {s \in Staff : Written(s)}
        /\ excused' = (c \in overlapped) /\ overlapped' = overlapped \ {c}
    BY <1>2 DEF StoreMenu, staffVars
  <2>2. \A d \in Readers : building'[d] = IF d = c THEN Shut ELSE building[d]
    BY <2>1 DEF CacheInv, MenuForms
  <2>3. MenuForms'
    BY <2>1 DEF CacheInv, MenuForms
  <2>4. BuildsAreCurrent'
    BY <2>1, <2>2 DEF CacheInv, BuildsAreCurrent, MenuOf, GroupOf
  <2>5. RacesAreKnown'
    BY <2>1 DEF RacesAreKnown, Written
  <2>6. CacheIsCurrent'
    BY <2>1 DEF CacheInv, BuildsAreCurrent, CacheIsCurrent, MenuOf, GroupOf
  <2>7. QED BY <2>3, <2>4, <2>5, <2>6 DEF CacheInv
<1>3. CASE OpenItem(c) \/ PickOption(c) \/ PressAdd(c) \/ CloseItem(c) \/ AddItem(c) \/ SettleAdd(c)
  <2>1. UNCHANGED <<rows, store, cached, building, change, raceVars>>
    BY <1>3 DEF OpenItem, PickOption, PressAdd, CloseItem, AddItem, SettleAdd, shelfVars, staffVars
  <2>2. QED BY <2>1, CacheStays
<1>4. QED BY <1>1, <1>2, <1>3

LEMMA ClockKeeps ==
  ASSUME CacheInv, ExpireMenu \/ TurnClock
  PROVE  CacheInv'
<1>1. CASE TurnClock
  BY <1>1, CacheStays DEF TurnClock, staffVars
<1>2. CASE ExpireMenu
  <2>1. /\ UNCHANGED <<rows, store, building, change, undone, overlapped>> /\ cached' = Shut /\ excused' = FALSE
    BY <1>2 DEF ExpireMenu, staffVars
  <2>2. MenuForms' /\ BuildsAreCurrent'
    BY <2>1 DEF CacheInv, MenuForms, BuildsAreCurrent, MenuOf, GroupOf
  <2>3. RacesAreKnown' /\ CacheIsCurrent'
    BY <2>1 DEF RacesAreKnown, CacheIsCurrent
  <2>4. QED BY <2>2, <2>3 DEF CacheInv
<1>3. QED BY <1>1, <1>2

-----------------------------------------------------------------------------
(* The staff                                                               *)

LEMMA AskKeeps ==
  ASSUME CacheInv, NEW s \in Staff, NEW op, NEW form, Ask(s, op, form)
  PROVE  CacheInv'
<1> DEFINE new == [op |-> op, form |-> form, pc |-> "sent", seen |-> Shut]
<1>1. change' = [change EXCEPT ![s] = new] /\ ~Written(s)
  BY DEF Ask, Written
<1>2. UNCHANGED <<rows, store, cached, building, undone, overlapped, excused>> /\ excused \in BOOLEAN
  BY DEF Ask, shelfVars, raceVars, CacheInv, MenuForms
<1>3. "pc" \in DOMAIN new /\ new.pc # "written"
  OBVIOUS
<1> HIDE DEF new
<1>4. QED BY <1>1, <1>2, <1>3, RequestMoves

LEMMA PressKeeps ==
  ASSUME CacheInv, NEW s \in Staff,
         \/ ToggleSoldOut(s)
         \/ CreateItem(s) \/ SaveItem(s) \/ DeleteItem(s)
         \/ CreateGroup(s) \/ SaveGroup(s) \/ DeleteGroup(s) \/ AddOption(s) \/ DropOption(s)
         \/ CreateCategory(s) \/ EditCategory(s) \/ DeleteCategory(s) \/ ReorderCategories(s)
  PROVE  CacheInv'
<1>1. \E op, form : Ask(s, op, form)
  BY DEF ToggleSoldOut, CreateItem, SaveItem, DeleteItem, CreateGroup, SaveGroup, DeleteGroup, AddOption,
     DropOption, CreateCategory, EditCategory, DeleteCategory, ReorderCategories
<1>2. QED BY <1>1, AskKeeps

LEMMA AdmitKeeps ==
  ASSUME CacheInv, NEW s \in Staff, Admit(s)
  PROVE  CacheInv'
<1> DEFINE pc == IF Valid(change[s].op, change[s].form) THEN "admitted" ELSE "refused"
           new == [change[s] EXCEPT !.pc = pc, !.seen = rows.soldOut]
<1>1. change' = [change EXCEPT ![s] = new] /\ ~Written(s)
  BY DEF Admit, Written, CacheInv, MenuForms
<1>2. "pc" \in DOMAIN new /\ new.pc = pc
  BY DEF Admit, CacheInv, MenuForms
<1>3. pc # "written"
  OBVIOUS
<1>4. UNCHANGED <<rows, store, cached, building, undone, overlapped, excused>> /\ excused \in BOOLEAN
  BY DEF Admit, shelfVars, raceVars, CacheInv, MenuForms
<1> HIDE DEF new, pc
<1>5. QED BY <1>1, <1>2, <1>3, <1>4, RequestMoves

\* The cached menu goes once more, or stays.
LEMMA NotifyKeeps ==
  ASSUME CacheInv, NEW s \in Staff, Notify(s)
  PROVE  CacheInv'
<1> DEFINE new == [change[s] EXCEPT !.pc = "done"]
<1>1. change' = [change EXCEPT ![s] = new] /\ ~Written(s)
  BY DEF Notify, Written
<1>2. "pc" \in DOMAIN new /\ new.pc # "written"
  BY DEF Notify, CacheInv, MenuForms
<1>3. /\ UNCHANGED <<rows, store, building, undone, overlapped>> /\ excused' \in BOOLEAN
      /\ cached' = Shut \/ UNCHANGED <<cached, excused>>
  BY DEF Notify, CacheInv, MenuForms
<1> HIDE DEF new
<1>4. QED BY <1>1, <1>2, <1>3, RequestMoves

LEMMA SettleKeeps ==
  ASSUME CacheInv, NEW s \in Staff, SettleChange(s)
  PROVE  CacheInv'
<1>1. change' = [change EXCEPT ![s] = Shut] /\ ~Written(s)
  BY DEF SettleChange, Written
<1>2. UNCHANGED <<rows, store, cached, building, undone, overlapped, excused>> /\ excused \in BOOLEAN
  BY DEF SettleChange, shelfVars, raceVars, CacheInv, MenuForms
<1>3. QED BY <1>1, <1>2, RequestMoves

\* The cache is dropped, or will be with the commit, or this change knows that it
\* is not; the rows are as they were.
LEMMA WriteKeeps ==
  ASSUME CacheInv, NEW s \in Staff, Write(s)
  PROVE  CacheInv'
<1>1. /\ UNCHANGED <<rows, store, building, overlapped>> /\ ~Written(s) /\ "pc" \in DOMAIN change[s]
      /\ excused' = (excused /\ cached' # Shut) /\ excused \in BOOLEAN
  BY DEF Write, Written, CacheInv, MenuForms
<1>2. CASE change' = [change EXCEPT ![s].pc = "refused"] /\ UNCHANGED <<cached, undone>>
  <2> DEFINE new == [change[s] EXCEPT !.pc = "refused"]
  <2>1. change' = [change EXCEPT ![s] = new]
    BY <1>2
  <2>2. "pc" \in DOMAIN new /\ new.pc # "written"
    BY <1>1
  <2>3. excused' \in BOOLEAN /\ (cached' = Shut \/ UNCHANGED <<cached, excused>>)
    BY <1>1, <1>2
  <2> HIDE DEF new
  <2>4. QED BY <1>1, <1>2, <2>1, <2>2, <2>3, RequestMoves
<1>3. CASE change' = [change EXCEPT ![s].pc = "written"] /\ Forget(s, change[s].op)
  <2>1. cached' \in {cached, Shut} /\ (s \in undone' \/ cached' = Shut \/ store = "database")
        /\ \A t \in Staff \ {s} : t \in undone' <=> t \in undone
    BY <1>3 DEF Forget, CacheInv, MenuForms
  <2>2. \A t \in Staff \ {s} : Written(t)' <=> Written(t)
    BY <1>3 DEF CacheInv, MenuForms, Written
  <2>3. MenuForms'
    BY <1>1, <1>3 DEF CacheInv, MenuForms
  <2>4. BuildsAreCurrent'
    BY <1>1 DEF CacheInv, BuildsAreCurrent, MenuOf, GroupOf
  <2>5. RacesAreKnown'
    BY <1>1, <2>1, <2>2 DEF CacheInv, RacesAreKnown
  <2>6. CacheIsCurrent'
    BY <1>1, <2>1 DEF CacheInv, CacheIsCurrent, MenuOf, GroupOf
  <2>7. QED BY <2>3, <2>4, <2>5, <2>6 DEF CacheInv
<1>4. QED BY <1>2, <1>3 DEF Write

\* Whatever was built or stored from the old rows is known.
LEMMA CommitKeeps ==
  ASSUME CacheInv, NEW s \in Staff, Commit(s)
  PROVE  CacheInv'
<1> DEFINE pc == IF Tells(change[s].op) THEN "committed" ELSE "done"
<1>1. /\ Written(s) /\ change' = [change EXCEPT ![s].pc = pc] /\ UNCHANGED <<store, building>>
      /\ cached' = IF store = "database" /\ s \notin undone THEN Shut ELSE cached
      /\ excused' = (cached' # Shut /\ (excused \/ s \in undone))
      /\ overlapped' = overlapped \cup {c \in Readers : building[c] # Shut} /\ undone' = undone \ {s}
  BY DEF Commit
<1>2. pc # "written"
  OBVIOUS
<1> HIDE DEF pc
<1>3. MenuForms' /\ ~Written(s)'
  BY <1>1, <1>2 DEF CacheInv, MenuForms, Written
<1>4. \A t \in Staff \ {s} : Written(t)' <=> Written(t)
  BY <1>1 DEF CacheInv, MenuForms, Written
<1>5. BuildsAreCurrent'
  BY <1>1 DEF BuildsAreCurrent
<1>6. RacesAreKnown'
  BY <1>1, <1>3, <1>4 DEF CacheInv, RacesAreKnown
<1>7. CacheIsCurrent'
  <2>1. cached' # Shut => s \in undone
    BY <1>1 DEF CacheInv, RacesAreKnown, MenuForms
  <2>2. QED BY <1>1, <2>1 DEF CacheIsCurrent
<1>8. QED BY <1>3, <1>5, <1>6, <1>7 DEF CacheInv

-----------------------------------------------------------------------------
LEMMA CacheStep == CacheInv /\ [MenuNext]_menuVars => CacheInv'
<1>1. SUFFICES ASSUME CacheInv, [MenuNext]_menuVars PROVE CacheInv'
  OBVIOUS
<1>2. ASSUME NEW s \in Staff, OpenDesk(s) \/ ServeReload(s) \/ ShowReload(s) PROVE CacheInv'
  BY <1>1, <1>2, CacheStays DEF OpenDesk, ServeReload, ShowReload, shelfVars
<1>3. CASE UNCHANGED menuVars
  BY <1>1, <1>3, CacheStays DEF menuVars, shelfVars, staffVars
<1>4. QED BY <1>1, <1>2, <1>3, ReaderKeeps, ClockKeeps, PressKeeps, AdmitKeeps, NotifyKeeps, SettleKeeps, WriteKeeps,
             CommitKeeps DEF MenuNext

\* A menu in the cache is that of the rows, unless it was built before a change
\* committed and stored after that change had dropped the cache, or the drop
\* failed, and no later drop has succeeded (Cache::remember, withMenuMutation,
\* MenuCacheKeys::invalidate, InvalidateMenuCache), wherever the cache is kept.
THEOREM CacheIsNeverOld == MenuSpec => []CacheIsCurrent
<1>1. CacheInv => CacheIsCurrent
  BY DEF CacheInv
<1>2. QED BY <1>1, CacheStarts, CacheStep, PTL DEF MenuSpec

-----------------------------------------------------------------------------
(* What staff are told, and what customers are refused: the form of the     *)
(* state, and where the requests under way have got to.                     *)

StaffTypes ==
    /\ rows \in Forms /\ desk \in [Staff -> Forms]
    /\ change \in [Staff -> {Shut} \cup Requests]
    /\ told \in [Staff -> {Shut, "soldOut", "inStock"}] /\ blind \in [Staff -> BOOLEAN]
    /\ asked \in [Staff -> Nat] /\ lists \in [Staff -> SUBSET Forms]

Asks(s, op) == change[s] # Shut /\ change[s].op = op
Pending(s)  == change[s] # Shut /\ change[s].pc \in {"sent", "admitted", "written"}

\* Every addition still to come finds an option to add.
Adding == {s \in Staff : Asks(s, "addOption") /\ Pending(s)}
SpareIsLeft == Cardinality(Adding) <= Cardinality(rows.spare)

\* Two changes that are written touch no row in common.
LocksAreHeld ==
    \A s, t \in Staff : s # t /\ Written(s) /\ Written(t) => Locks(change[s].op) \cap Locks(change[t].op) = {}

\* An item is linked to a group that is there, now and when a form is committed.
LinkedIsThere == rows.grouped => rows.group = "there"
LinkIsHeld ==
    \A s \in Staff : Written(s) /\ change[s].op \in {"createItem", "saveItem"} /\ change[s].form.grouped
                        => rows.group = "there"

\* An item is created once, and before anybody can see it or say that it is sold out.
MadeOnce == \A s, t \in Staff : Asks(s, "createItem") /\ Asks(t, "createItem") => s = t
MadeFirst == \A s \in Staff : Asks(s, "createItem") /\ Pending(s) => rows.item = "unborn"
ShownIsMade == \A s \in Staff : \A f \in lists[s] \cup {desk[s]} : f.item # "unborn" => rows.item # "unborn"
TouchedIsMade == \A s \in Staff : Asks(s, "soldOut") \/ Asks(s, "deleteItem") => rows.item # "unborn"
ToldIsMade == \A s \in Staff : told[s] # Shut => rows.item # "unborn" /\ change[s] = Shut

\* Unless others toggle, or the list was old, the item is what the pressed button
\* said, until its own toggle turns it round: away from what the binding read.
Toggled(s) == Asks(s, "soldOut") /\ change[s].pc \in {"committed", "done"}
Admitted(s) == change[s] # Shut /\ change[s].pc \in {"admitted", "written"}
BindingHasRead == \A s \in Staff : Admitted(s) => change[s].seen \in BOOLEAN
SawTheForm ==
    \A s \in Staff : Asks(s, "soldOut") /\ Admitted(s) /\ ~blind[s] => change[s].seen = change[s].form.soldOut
FormIsCurrent ==
    \A s \in Staff : Asks(s, "soldOut") /\ ~blind[s] /\ rows.item # "gone"
                        => /\ Pending(s) => rows.soldOut = change[s].form.soldOut
                           /\ Toggled(s) => rows.soldOut = ~change[s].form.soldOut

LinksInv == SpareIsLeft /\ LocksAreHeld /\ LinkedIsThere /\ LinkIsHeld
BirthInv == MadeOnce /\ MadeFirst /\ ShownIsMade /\ TouchedIsMade /\ ToldIsMade
ToastInv == BindingHasRead /\ SawTheForm /\ FormIsCurrent /\ ToldIsTrue
StaffInv == StaffTypes /\ LinksInv /\ BirthInv /\ ToastInv

-----------------------------------------------------------------------------
LEMMA OpeningIsAForm == \A r \in Opening : r \in Forms /\ (r.grouped => r.group = "there")
<1> DEFINE bare(full) == [full EXCEPT !.item = "unborn", !.listed = FALSE, !.grouped = FALSE]
<1>1. ASSUME NEW q \in Rules PROVE Full(q) \in Forms /\ Full(q).group = "there"
  BY DEF Full, Forms, Stages, Hours
<1>2. ASSUME NEW f \in Forms PROVE bare(f) \in Forms /\ ~bare(f).grouped
  BY DEF Forms, Stages
<1>3. ASSUME NEW f \in Forms PROVE [f EXCEPT !.category = "unborn"] \in Forms
                                   /\ [f EXCEPT !.category = "unborn"].grouped = f.grouped
  BY DEF Forms, Stages
<1>4. ASSUME NEW f \in Forms
      PROVE  LET g == [f EXCEPT !.grouped = FALSE, !.group = "unborn", !.options = {}, !.spare = Options]
             IN  g \in Forms /\ ~g.grouped
  BY DEF Forms, Stages
<1> HIDE DEF bare
<1>5. SUFFICES ASSUME NEW r \in Opening PROVE r \in Forms /\ (r.grouped => r.group = "there")
  OBVIOUS
<1>6. PICK q \in Rules : r \in {Full(q), bare(Full(q)), [bare(Full(q)) EXCEPT !.category = "unborn"],
                               [Full(q) EXCEPT !.grouped = FALSE, !.group = "unborn", !.options = {}, !.spare = Options]}
  BY DEF Opening, bare
<1>7. QED BY <1>1, <1>2, <1>3, <1>4, <1>6

LEMMA RequestIsNotShut == \A r \in Requests : r # Shut
BY ShutAssumption

LEMMA AddingIsFinite == IsFiniteSet(Adding) /\ IsFiniteSet(Staff)
<1>1. Adding \in SUBSET Staff /\ IsFiniteSet(Staff)
  BY MenuBounds DEF Adding
<1>2. QED BY <1>1, FS_Subset

LEMMA SpareIsFinite == ASSUME NEW f \in Forms PROVE IsFiniteSet(f.spare) /\ IsFiniteSet(f.options)
<1>1. f.spare \in SUBSET Options /\ f.options \in SUBSET Options /\ IsFiniteSet(Options)
  BY MenuBounds DEF Forms
<1>2. QED BY <1>1, FS_Subset

LEMMA StaffStarts == MenuInit => StaffInv
<1>1. SUFFICES ASSUME MenuInit PROVE StaffInv
  OBVIOUS
<1>2. rows \in Forms /\ (rows.grouped => rows.group = "there")
  BY <1>1, OpeningIsAForm DEF MenuInit
<1>3. StaffTypes
  BY <1>1, <1>2 DEF MenuInit, StaffTypes
<1>4. Adding = {} /\ Cardinality(rows.spare) \in Nat
  BY <1>1, <1>2, SpareIsFinite, FS_CardinalityType DEF MenuInit, Adding, Asks
<1>5. LinksInv
  BY <1>1, <1>2, <1>4, FS_EmptySet DEF MenuInit, LinksInv, SpareIsLeft, LocksAreHeld, LinkedIsThere, LinkIsHeld, Written
<1>6. BirthInv /\ ToastInv
  BY <1>1, <1>2 DEF MenuInit, BirthInv, MadeOnce, MadeFirst, ShownIsMade, TouchedIsMade, ToldIsMade, Asks,
     ToastInv, BindingHasRead, SawTheForm, FormIsCurrent, ToldIsTrue, Toggled, Admitted
<1>7. QED BY <1>3, <1>5, <1>6 DEF StaffInv

LEMMA StaffStays ==
  ASSUME StaffInv, UNCHANGED <<rows, staffVars>>
  PROVE  StaffInv'
<1>1. UNCHANGED <<rows, desk, asked, lists, change, told, blind>>
  BY DEF staffVars
<1>2. StaffTypes'
  BY <1>1 DEF StaffInv, StaffTypes
<1>3. Adding' = Adding
  BY <1>1 DEF Adding, Asks, Pending
<1>4. LinksInv'
  BY <1>1, <1>3 DEF StaffInv, LinksInv, SpareIsLeft, LocksAreHeld, LinkedIsThere, LinkIsHeld, Written
<1>5. BirthInv'
  BY <1>1 DEF StaffInv, BirthInv, MadeOnce, MadeFirst, ShownIsMade, TouchedIsMade, ToldIsMade, Asks, Pending
<1>6. ToastInv'
  BY <1>1 DEF StaffInv, ToastInv, BindingHasRead, SawTheForm, FormIsCurrent, ToldIsTrue, Toggled, Admitted, Pending, Asks
<1>7. QED BY <1>2, <1>4, <1>5, <1>6 DEF StaffInv

\* The page's list is loaded again: asked for, on its way or shown.
LEMMA ListMoves ==
  ASSUME StaffInv, NEW s \in Staff, UNCHANGED <<rows, change, blind>>, StaffTypes',
         \A t \in Staff : lists'[t] \cup {desk'[t]} \subseteq lists[t] \cup {desk[t], rows},
         \A t \in Staff : told'[t] \in {told[t], Shut}
  PROVE  StaffInv'
<1>1. Adding' = Adding
  BY DEF Adding, Asks, Pending
<1>2. LinksInv'
  BY <1>1 DEF StaffInv, LinksInv, SpareIsLeft, LocksAreHeld, LinkedIsThere, LinkIsHeld, Written
<1>3. MadeOnce' /\ MadeFirst' /\ TouchedIsMade'
  BY DEF StaffInv, BirthInv, MadeOnce, MadeFirst, TouchedIsMade, Asks, Pending
<1>4. ShownIsMade' /\ ToldIsMade'
  BY DEF StaffInv, BirthInv, ShownIsMade, ToldIsMade
<1>5. BindingHasRead' /\ SawTheForm' /\ FormIsCurrent'
  BY DEF StaffInv, ToastInv, BindingHasRead, SawTheForm, FormIsCurrent, Toggled, Admitted, Pending, Asks
<1>6. ToldIsTrue'
  BY DEF StaffInv, ToastInv, ToldIsTrue
<1>7. QED BY <1>2, <1>3, <1>4, <1>5, <1>6 DEF StaffInv, BirthInv, ToastInv

LEMMA DeskLoads ==
  ASSUME StaffInv, NEW s \in Staff, OpenDesk(s) \/ ServeReload(s) \/ ShowReload(s)
  PROVE  StaffInv'
<1>1. StaffTypes
  BY DEF StaffInv
<1>2. CASE OpenDesk(s)
  <2>1. /\ UNCHANGED <<rows, change, blind>> /\ desk' = [desk EXCEPT ![s] = rows]
        /\ asked' = [asked EXCEPT ![s] = 0] /\ lists' = [lists EXCEPT ![s] = {}] /\ told' = [told EXCEPT ![s] = Shut]
    BY <1>2 DEF OpenDesk, shelfVars
  <2>2. StaffTypes'
    BY <1>1, <2>1 DEF StaffTypes
  <2>3. \A t \in Staff : /\ lists'[t] \cup {desk'[t]} \subseteq lists[t] \cup {desk[t], rows}
                         /\ told'[t] \in {told[t], Shut}
    BY <1>1, <2>1 DEF StaffTypes
  <2>4. QED BY <2>1, <2>2, <2>3, ListMoves
<1>3. CASE ServeReload(s)
  <2>1. /\ UNCHANGED <<rows, desk, change, told, blind>> /\ lists' = [lists EXCEPT ![s] = @ \cup {rows}]
        /\ asked' = [asked EXCEPT ![s] = @ - 1] /\ asked[s] > 0
    BY <1>3 DEF ServeReload, shelfVars
  <2>2. asked' \in [Staff -> Nat] /\ lists' \in [Staff -> SUBSET Forms]
    BY <1>1, <2>1 DEF StaffTypes
  <2>3. StaffTypes'
    BY <1>1, <2>1, <2>2 DEF StaffTypes
  <2>4. \A t \in Staff : /\ lists'[t] \cup {desk'[t]} \subseteq lists[t] \cup {desk[t], rows}
                         /\ told'[t] \in {told[t], Shut}
    BY <1>1, <2>1 DEF StaffTypes
  <2>5. QED BY <2>1, <2>3, <2>4, ListMoves
<1>4. CASE ShowReload(s)
  <2>1. PICK list \in lists[s] : desk' = [desk EXCEPT ![s] = list] /\ lists' = [lists EXCEPT ![s] = @ \ {list}]
    BY <1>4 DEF ShowReload
  <2>2. UNCHANGED <<rows, asked, change, told, blind>>
    BY <1>4 DEF ShowReload, shelfVars
  <2>3. StaffTypes'
    BY <1>1, <2>1, <2>2 DEF StaffTypes
  <2>4. \A t \in Staff : /\ lists'[t] \cup {desk'[t]} \subseteq lists[t] \cup {desk[t], rows}
                         /\ told'[t] \in {told[t], Shut}
    BY <1>1, <2>1, <2>2 DEF StaffTypes
  <2>5. QED BY <2>2, <2>3, <2>4, ListMoves
<1>5. QED BY <1>2, <1>3, <1>4

-----------------------------------------------------------------------------
(* A request is made                                                        *)

LEMMA FormsStayForms ==
  ASSUME NEW f \in Forms
  PROVE  /\ ItemForm(f) \subseteq Forms /\ GroupForm(f) \subseteq Forms /\ CategoryForm(f) \subseteq Forms
         /\ [f EXCEPT !.active = TRUE, !.hours = "always"] \in Forms
         /\ [f EXCEPT !.offered = TRUE] \in Forms /\ [f EXCEPT !.shown = TRUE] \in Forms
         /\ \A o \in f.options : [f EXCEPT !.options = {o}] \in Forms
<1>1. BasicInfo(f) \subseteq Forms /\ Availability(f) \subseteq Forms /\ GroupSelection(f) \subseteq Forms
  <2>1. [f EXCEPT !.active = ~@] \in Forms /\ [f EXCEPT !.grouped = ~@] \in Forms
    BY DEF Forms
  <2>2. \A h \in Hours : [f EXCEPT !.hours = h] \in Forms
    BY DEF Forms
  <2>3. Availability(f) \subseteq Forms
    BY <2>2 DEF Availability
  <2>4. QED BY <2>1, <2>3 DEF BasicInfo, GroupSelection
<1>2. CategorySelection(f) \subseteq Forms /\ AllergenNutrition(f) \subseteq Forms
  BY DEF CategorySelection, AllergenNutrition, Forms
<1>3. ItemForm(f) \subseteq Forms
  BY <1>1, <1>2 DEF ItemForm
<1>4. GroupForm(f) \subseteq Forms /\ CategoryForm(f) \subseteq Forms
  <2>1. [f EXCEPT !.offered = ~@] \in Forms /\ [f EXCEPT !.shown = ~@] \in Forms
    BY DEF Forms
  <2>2. \A r \in Rules : [f EXCEPT !.rule = r] \in Forms
    BY DEF Forms
  <2>3. GroupForm(f) \subseteq Forms
    BY <2>1, <2>2 DEF GroupForm
  <2>4. QED BY <2>1, <2>3 DEF CategoryForm
<1>5. [f EXCEPT !.active = TRUE, !.hours = "always"] \in Forms
  BY DEF Forms, Hours
<1>6. [f EXCEPT !.offered = TRUE] \in Forms /\ [f EXCEPT !.shown = TRUE] \in Forms
  BY DEF Forms
<1>7. \A o \in f.options : [f EXCEPT !.options = {o}] \in Forms
  BY DEF Forms
<1>8. QED BY <1>3, <1>4, <1>5, <1>6, <1>7

LEMMA AskKeepsStaff ==
  ASSUME StaffInv, NEW s \in Staff, NEW op \in Changes, NEW form \in Forms, Ask(s, op, form),
         op = "addOption" => Cardinality({t \in Staff : Asks(t, "addOption")}) < Cardinality(rows.spare),
         op = "createItem" => rows.item = "unborn" /\ \A t \in Staff : ~Asks(t, "createItem"),
         op \in {"soldOut", "deleteItem"} => rows.item # "unborn"
  PROVE  StaffInv'
<1> DEFINE new == [op |-> op, form |-> form, pc |-> "sent", seen |-> Shut]
<1>1. /\ new \in Requests /\ new # Shut /\ new.op = op /\ new.pc = "sent" /\ new.form = form
  BY RequestIsNotShut DEF Requests
<1>2. /\ change[s] = Shut /\ change' = [change EXCEPT ![s] = new] /\ told' = [told EXCEPT ![s] = Shut]
      /\ blind' = [blind EXCEPT ![s] = op = "soldOut" /\ form.soldOut # rows.soldOut]
      /\ UNCHANGED <<rows, desk, asked, lists>>
  BY DEF Ask, shelfVars
<1> HIDE DEF new
<1>3. StaffTypes /\ StaffTypes'
  BY <1>1, <1>2 DEF StaffInv, StaffTypes
<1>4. /\ \A t \in Staff : /\ change'[t] = IF t = s THEN new ELSE change[t]
                          /\ told'[t] = IF t = s THEN Shut ELSE told[t]
      /\ \A t \in Staff \ {s} : blind'[t] = blind[t]
      /\ op = "soldOut" /\ ~blind'[s] => form.soldOut = rows.soldOut
  BY <1>2, <1>3 DEF StaffTypes
<1>5. SpareIsLeft'
  <2>1. CASE op # "addOption"
    <3>1. Adding' = Adding
      BY <1>1, <1>2, <1>4, <2>1 DEF Adding, Asks, Pending
    <3>2. QED BY <1>2, <3>1 DEF StaffInv, LinksInv, SpareIsLeft
  <2>2. CASE op = "addOption"
    <3> DEFINE adders == {t \in Staff : Asks(t, "addOption")}
    <3>1. Adding' \in SUBSET (adders \cup {s})
      BY <1>1, <1>4 DEF Adding, Asks
    <3>2. adders \in SUBSET Staff /\ IsFiniteSet(Staff)
      BY AddingIsFinite
    <3>3. IsFiniteSet(adders) /\ Cardinality(adders) < Cardinality(rows.spare)
      BY <2>2, <3>2, FS_Subset
    <3> HIDE DEF adders
    <3>4. IsFiniteSet(adders \cup {s}) /\ Cardinality(adders \cup {s}) <= Cardinality(adders) + 1
      <4>1. Cardinality(adders) \in Nat
        BY <3>3, FS_CardinalityType
      <4>2. /\ IsFiniteSet(adders \cup {s})
            /\ Cardinality(adders \cup {s}) = IF s \in adders THEN Cardinality(adders) ELSE Cardinality(adders) + 1
        BY <3>3, FS_AddElement
      <4>3. QED BY <4>1, <4>2
    <3>5. Cardinality(Adding') <= Cardinality(adders \cup {s}) /\ Cardinality(Adding') \in Nat
      BY <3>1, <3>4, FS_Subset, FS_CardinalityType
    <3>6. Cardinality(adders) \in Nat /\ Cardinality(adders \cup {s}) \in Nat
      BY <3>3, <3>4, FS_CardinalityType
    <3>7. Cardinality(rows.spare) \in Nat
      BY <1>3, SpareIsFinite, FS_CardinalityType DEF StaffTypes
    <3>8. Cardinality(Adding') <= Cardinality(rows.spare)
      BY <3>3, <3>4, <3>5, <3>6, <3>7
    <3>9. QED BY <1>2, <3>8 DEF SpareIsLeft
  <2>3. QED BY <2>1, <2>2
<1>6. LinksInv'
  BY <1>1, <1>2, <1>4, <1>5 DEF StaffInv, LinksInv, LocksAreHeld, LinkedIsThere, LinkIsHeld, Written
<1>7. MadeOnce' /\ MadeFirst'
  BY <1>1, <1>2, <1>4 DEF StaffInv, BirthInv, MadeOnce, MadeFirst, Asks, Pending
<1>8. ShownIsMade' /\ TouchedIsMade' /\ ToldIsMade'
  BY <1>1, <1>2, <1>4 DEF StaffInv, BirthInv, ShownIsMade, TouchedIsMade, ToldIsMade, Asks
<1>9. BindingHasRead' /\ SawTheForm'
  BY <1>1, <1>2, <1>4 DEF StaffInv, ToastInv, BindingHasRead, SawTheForm, Admitted, Asks
<1>10. FormIsCurrent'
  BY <1>1, <1>2, <1>4 DEF StaffInv, ToastInv, FormIsCurrent, Toggled, Pending, Asks
<1>11. ToldIsTrue'
  BY <1>2, <1>4 DEF StaffInv, ToastInv, ToldIsTrue
<1>12. QED BY <1>3, <1>6, <1>7, <1>8, <1>9, <1>10, <1>11 DEF StaffInv, BirthInv, ToastInv

LEMMA PressKeepsStaff ==
  ASSUME StaffInv, NEW s \in Staff,
         \/ ToggleSoldOut(s)
         \/ CreateItem(s) \/ SaveItem(s) \/ DeleteItem(s)
         \/ CreateGroup(s) \/ SaveGroup(s) \/ DeleteGroup(s) \/ AddOption(s) \/ DropOption(s)
         \/ CreateCategory(s) \/ EditCategory(s) \/ DeleteCategory(s) \/ ReorderCategories(s)
  PROVE  StaffInv'
<1>1. desk[s] \in Forms /\ (desk[s].item = "there" => rows.item # "unborn")
  BY DEF StaffInv, StaffTypes, BirthInv, ShownIsMade
<1>2. CASE ToggleSoldOut(s) \/ DeleteItem(s)
  BY <1>1, <1>2, AskKeepsStaff DEF ToggleSoldOut, DeleteItem, Changes
<1>3. CASE CreateItem(s)
  <2>1. [desk[s] EXCEPT !.active = TRUE, !.hours = "always"] \in Forms
    BY <1>1, FormsStayForms
  <2>2. PICK f \in Forms : Ask(s, "createItem", f)
    BY <1>3, <2>1, FormsStayForms DEF CreateItem
  <2>3. rows.item = "unborn" /\ \A t \in Staff : ~Asks(t, "createItem")
    BY <1>3 DEF CreateItem, Creates, Asks
  <2>4. QED BY <2>2, <2>3, AskKeepsStaff DEF Changes
<1>4. CASE AddOption(s)
  <2>1. Ask(s, "addOption", desk[s])
        /\ Cardinality({t \in Staff : Asks(t, "addOption")}) < Cardinality(rows.spare)
    BY <1>4 DEF AddOption, Asks
  <2>2. QED BY <1>1, <2>1, AskKeepsStaff DEF Changes
<1>5. CASE SaveItem(s) \/ SaveGroup(s) \/ DeleteGroup(s) \/ DropOption(s)
           \/ EditCategory(s) \/ DeleteCategory(s) \/ ReorderCategories(s)
  <2>1. PICK op \in Changes \ {"addOption", "createItem", "soldOut", "deleteItem"}, f \in Forms : Ask(s, op, f)
    BY <1>1, <1>5, FormsStayForms
       DEF SaveItem, SaveGroup, DeleteGroup, DropOption, EditCategory, DeleteCategory, ReorderCategories,
           Changes
  <2>2. QED BY <2>1, AskKeepsStaff
<1>6. CASE CreateGroup(s) \/ CreateCategory(s)
  <2>1. [desk[s] EXCEPT !.offered = TRUE] \in Forms /\ [desk[s] EXCEPT !.shown = TRUE] \in Forms
    BY <1>1, FormsStayForms
  <2>2. PICK op \in {"createGroup", "createCategory"}, f \in Forms : Ask(s, op, f)
    BY <1>6, <2>1, FormsStayForms DEF CreateGroup, CreateCategory
  <2>3. QED BY <2>2, AskKeepsStaff DEF Changes
<1>7. QED BY <1>2, <1>3, <1>4, <1>5, <1>6

-----------------------------------------------------------------------------
(* A request is worked off                                                  *)

\* It is admitted, refused or written: the rows are as they were.
LEMMA WorkKeepsStaff ==
  ASSUME StaffInv, NEW s \in Staff, change[s] # Shut, change[s].pc \in {"sent", "admitted"},
         NEW new \in Requests, change' = [change EXCEPT ![s] = new],
         new.op = change[s].op, new.form = change[s].form, new.pc \in {"admitted", "written", "refused"},
         UNCHANGED <<rows, desk, asked, lists, told, blind>>,
         new.pc \in {"admitted", "written"} => new.seen \in BOOLEAN,
         new.pc \in {"admitted", "written"} /\ new.op = "soldOut" /\ ~blind[s] => new.seen = new.form.soldOut,
         new.pc = "written" => \A t \in Staff : Written(t) => Locks(change[t].op) \cap Locks(new.op) = {},
         new.pc = "written" /\ new.op \in {"createItem", "saveItem"} /\ new.form.grouped => rows.group = "there"
  PROVE  StaffInv'
<1>1. StaffTypes /\ StaffTypes'
  BY DEF StaffInv, StaffTypes
<1>2. \A t \in Staff : change'[t] = IF t = s THEN new ELSE change[t]
  BY <1>1 DEF StaffTypes
<1>3. new # Shut
  BY RequestIsNotShut
<1>4. \A t \in Staff, op \in Changes : Asks(t, op)' = Asks(t, op)
  BY <1>2, <1>3 DEF Asks
<1>5. \A t \in Staff : (Pending(t)' => Pending(t)) /\ Toggled(t)' = Toggled(t)
  BY <1>2, <1>3 DEF Pending, Toggled, Asks
<1>6. SpareIsLeft'
  <2>1. Adding' \in SUBSET Adding
    BY <1>4, <1>5 DEF Adding, Changes
  <2>2. Cardinality(Adding') <= Cardinality(Adding) /\ Cardinality(Adding') \in Nat /\ Cardinality(Adding) \in Nat
    BY <2>1, AddingIsFinite, FS_Subset, FS_CardinalityType
  <2>3. Cardinality(rows.spare) \in Nat
    BY <1>1, SpareIsFinite, FS_CardinalityType DEF StaffTypes
  <2>4. QED BY <2>2, <2>3 DEF StaffInv, LinksInv, SpareIsLeft
<1>7. LocksAreHeld' /\ LinkedIsThere' /\ LinkIsHeld'
  BY <1>2, <1>3 DEF StaffInv, LinksInv, LocksAreHeld, LinkedIsThere, LinkIsHeld, Written
<1>8. MadeOnce' /\ MadeFirst'
  BY <1>4, <1>5 DEF StaffInv, BirthInv, MadeOnce, MadeFirst, Changes
<1>9. ShownIsMade' /\ TouchedIsMade' /\ ToldIsMade'
  BY <1>2, <1>4 DEF StaffInv, BirthInv, ShownIsMade, TouchedIsMade, ToldIsMade, Changes
<1>10. BindingHasRead' /\ SawTheForm'
  BY <1>2, <1>3 DEF StaffInv, ToastInv, BindingHasRead, SawTheForm, Admitted, Asks
<1>11. FormIsCurrent' /\ ToldIsTrue'
  <2>1. \A t \in Staff : Asks(t, "soldOut")' => change'[t].form = change[t].form
    BY <1>2, <1>3 DEF Asks
  <2>2. QED BY <1>4, <1>5, <2>1 DEF StaffInv, ToastInv, FormIsCurrent, ToldIsTrue, Changes
<1>12. QED BY <1>1, <1>6, <1>7, <1>8, <1>9, <1>10, <1>11 DEF StaffInv, LinksInv, BirthInv, ToastInv

LEMMA AdmitKeepsStaff ==
  ASSUME StaffInv, NEW s \in Staff, Admit(s)
  PROVE  StaffInv'
<1> DEFINE pc == IF Valid(change[s].op, change[s].form) THEN "admitted" ELSE "refused"
           new == [change[s] EXCEPT !.pc = pc, !.seen = rows.soldOut]
<1>1. /\ change[s] # Shut /\ change[s].pc = "sent" /\ change[s] \in Requests /\ rows.soldOut \in BOOLEAN
      /\ change' = [change EXCEPT ![s] = new] /\ UNCHANGED <<rows, desk, asked, lists, told, blind>>
  BY DEF Admit, StaffInv, StaffTypes, Forms, shelfVars
<1>2. pc \in {"admitted", "refused"}
  OBVIOUS
<1>3. /\ new \in Requests /\ new.op = change[s].op /\ new.form = change[s].form /\ new.pc = pc
      /\ new.seen = rows.soldOut
  BY <1>1, <1>2 DEF Requests
<1>4. ASSUME pc = "admitted", change[s].op = "soldOut", ~blind[s] PROVE rows.soldOut = change[s].form.soldOut
  <2>1. rows.item = "there"
    BY <1>4 DEF Valid
  <2>2. Pending(s) /\ Asks(s, "soldOut")
    BY <1>1, <1>4 DEF Pending, Asks
  <2>3. QED BY <1>4, <2>1, <2>2 DEF StaffInv, ToastInv, FormIsCurrent
<1> HIDE DEF new, pc
<1>5. QED BY <1>1, <1>2, <1>3, <1>4, WorkKeepsStaff

LEMMA WriteKeepsStaff ==
  ASSUME StaffInv, NEW s \in Staff, Write(s)
  PROVE  StaffInv'
<1> DEFINE pc == IF Writable(change[s].op, change[s].form) THEN "written" ELSE "refused"
           new == [change[s] EXCEPT !.pc = pc]
<1>1. /\ change[s] # Shut /\ change[s].pc = "admitted" /\ change[s] \in Requests
      /\ change' = [change EXCEPT ![s] = new] /\ UNCHANGED <<rows, desk, asked, lists, told, blind>>
  BY DEF Write, StaffInv, StaffTypes
<1>2. pc \in {"written", "refused"}
  OBVIOUS
<1>3. /\ new \in Requests /\ new.op = change[s].op /\ new.form = change[s].form /\ new.pc = pc
      /\ new.seen = change[s].seen
  BY <1>1, <1>2 DEF Requests
<1>4. \A t \in Staff : Written(t) => Locks(change[t].op) \cap Locks(change[s].op) = {}
  BY DEF Write
<1>5. change[s].seen \in BOOLEAN /\ (change[s].op = "soldOut" /\ ~blind[s] => change[s].seen = change[s].form.soldOut)
  BY <1>1 DEF StaffInv, ToastInv, BindingHasRead, SawTheForm, Admitted, Asks
<1>6. pc = "written" /\ change[s].op \in {"createItem", "saveItem"} /\ change[s].form.grouped => rows.group = "there"
  BY DEF Writable, LinksHold
<1> HIDE DEF new, pc
<1>7. QED BY <1>1, <1>2, <1>3, <1>4, <1>5, <1>6, WorkKeepsStaff

\* What a commit makes of the rows.
Outcome(op, f, seen, r) ==
    /\ r \in Forms
    /\ r.item = IF op = "createItem" THEN "there" ELSE IF op = "deleteItem" THEN "gone" ELSE rows.item
    /\ r.soldOut = IF op = "createItem" THEN FALSE
                   ELSE IF op = "soldOut" /\ rows.item = "there" THEN ~seen ELSE rows.soldOut
    /\ r.group = IF op = "createGroup" THEN "there" ELSE IF op = "deleteGroup" THEN "gone" ELSE rows.group
    /\ r.grouped = IF op \in {"createItem", "saveItem"} THEN f.grouped
                   ELSE IF op \in {"deleteItem", "deleteGroup"} THEN FALSE ELSE rows.grouped
    /\ IF op = "addOption" THEN \E o \in rows.spare : r.spare = rows.spare \ {o} ELSE r.spare = rows.spare

LEMMA AfterIsOutcome ==
  ASSUME rows \in Forms, NEW op \in Changes, NEW f \in Forms, NEW seen \in BOOLEAN,
         op = "addOption" => rows.spare # {}
  PROVE  Outcome(op, f, seen, After(op, f, seen))
<1> DEFINE r == After(op, f, seen)
<1>0. SUFFICES Outcome(op, f, seen, r)
  OBVIOUS
<1> HIDE DEF r
<1>1. CASE op = "soldOut"
  <2>1. r = [rows EXCEPT !.soldOut = IF rows.item = "there" THEN ~seen ELSE @]
    BY <1>1 DEF After, r
  <2>2. QED BY <1>1, <2>1 DEF Forms, Outcome
<1>2. CASE op = "createItem"
  <2>1. r = [rows EXCEPT !.item = "there", !.active = f.active, !.hours = f.hours,
                         !.soldOut = FALSE, !.listed = TRUE, !.grouped = f.grouped]
    BY <1>2 DEF After, r
  <2>2. QED BY <1>2, <2>1 DEF Forms, Stages, Outcome
<1>3. CASE op = "saveItem"
  <2>1. r = [rows EXCEPT !.active = f.active, !.hours = f.hours, !.grouped = f.grouped]
    BY <1>3 DEF After, Saved, r
  <2>2. QED BY <1>3, <2>1 DEF Forms, Outcome
<1>4. CASE op = "deleteItem"
  <2>1. r = [rows EXCEPT !.item = "gone", !.listed = FALSE, !.grouped = FALSE]
    BY <1>4 DEF After, r
  <2>2. QED BY <1>4, <2>1 DEF Forms, Stages, Outcome
<1>5. CASE op = "createGroup"
  <2>1. r = [rows EXCEPT !.group = "there", !.rule = f.rule, !.offered = f.offered]
    BY <1>5 DEF After, r
  <2>2. QED BY <1>5, <2>1 DEF Forms, Stages, Outcome
<1>6. CASE op = "saveGroup"
  <2>1. r = [rows EXCEPT !.rule = f.rule, !.offered = f.offered]
    BY <1>6 DEF After, r
  <2>2. QED BY <1>6, <2>1 DEF Forms, Outcome
<1>7. CASE op = "deleteGroup"
  <2>1. r = [rows EXCEPT !.group = "gone", !.options = {}, !.grouped = FALSE]
    BY <1>7 DEF After, r
  <2>2. QED BY <1>7, <2>1 DEF Forms, Stages, Outcome
<1>8. CASE op = "addOption"
  <2>1. PICK o \in rows.spare : r = [rows EXCEPT !.options = @ \cup {o}, !.spare = @ \ {o}]
    BY <1>8 DEF After, r
  <2>2. rows.options \cup {o} \in SUBSET Options /\ rows.spare \ {o} \in SUBSET Options
    BY DEF Forms
  <2>3. QED BY <1>8, <2>1, <2>2 DEF Forms, Outcome
<1>9. CASE op = "dropOption"
  <2>1. r = [rows EXCEPT !.options = @ \ f.options]
    BY <1>9 DEF After, r
  <2>2. QED BY <1>9, <2>1 DEF Forms, Outcome
<1>10. CASE op = "createCategory"
  <2>1. r = [rows EXCEPT !.category = "there", !.shown = f.shown]
    BY <1>10 DEF After, r
  <2>2. QED BY <1>10, <2>1 DEF Forms, Stages, Outcome
<1>11. CASE op = "saveCategory"
  <2>1. r = [rows EXCEPT !.shown = IF rows.category = "there" THEN f.shown ELSE @]
    BY <1>11 DEF After, r
  <2>2. QED BY <1>11, <2>1 DEF Forms, Outcome
<1>12. CASE op = "deleteCategory"
  <2>1. r = [rows EXCEPT !.category = "gone", !.listed = FALSE]
    BY <1>12 DEF After, r
  <2>2. QED BY <1>12, <2>1 DEF Forms, Stages, Outcome
<1>13. CASE op = "reorder"
  <2>1. r = rows
    BY <1>13 DEF After, r
  <2>2. QED BY <1>13, <2>1 DEF Outcome
<1>14. QED BY <1>1, <1>2, <1>3, <1>4, <1>5, <1>6, <1>7, <1>8, <1>9, <1>10, <1>11, <1>12, <1>13 DEF Changes

LEMMA CommitKeepsStaff ==
  ASSUME StaffInv, NEW s \in Staff, Commit(s)
  PROVE  StaffInv'
<1> DEFINE c == change[s]
           pc == IF Tells(c.op) THEN "committed" ELSE "done"
           new == [c EXCEPT !.pc = pc]
<1>1. /\ c # Shut /\ c.pc = "written" /\ Written(s) /\ c \in Requests /\ rows \in Forms
      /\ rows' = After(c.op, c.form, c.seen) /\ change' = [change EXCEPT ![s] = new]
      /\ UNCHANGED <<desk, asked, lists>>
  BY DEF Commit, Written, StaffInv, StaffTypes
<1>2. /\ c.op \in Changes /\ c.form \in Forms /\ c.seen \in BOOLEAN
  BY <1>1 DEF StaffInv, ToastInv, BindingHasRead, Admitted, Requests
<1>3. new \in Requests /\ new # Shut /\ new.op = c.op /\ new.form = c.form /\ new.pc \in {"committed", "done"}
  BY <1>1, RequestIsNotShut DEF Requests
<1>4. /\ blind \in [Staff -> BOOLEAN] /\ told \in [Staff -> {Shut, "soldOut", "inStock"}]
      /\ change \in [Staff -> {Shut} \cup Requests]
  BY DEF StaffInv, StaffTypes
<1>5. /\ c.op = "soldOut" => /\ blind' = [t \in Staff |-> blind[t] \/ (t # s /\ Asks(t, "soldOut"))]
                             /\ told' = [t \in Staff |-> IF t = s THEN told[t] ELSE Shut]
      /\ c.op # "soldOut" => blind' = blind /\ told' = told
  BY DEF Commit, Asks
<1> HIDE DEF new, pc, c
<1>6. \A t \in Staff : change'[t] = IF t = s THEN new ELSE change[t]
  BY <1>1, <1>4
<1>7. c = change[s]
  BY DEF c
<1>8. \A t \in Staff : /\ \A op \in Changes : Asks(t, op)' = Asks(t, op)
                       /\ Pending(t)' = (t # s /\ Pending(t)) /\ Admitted(t)' = (t # s /\ Admitted(t))
                       /\ Written(t)' = (t # s /\ Written(t))
  BY <1>1, <1>3, <1>6, <1>7 DEF Asks, Pending, Admitted, Written
<1>9. Pending(s) /\ ~Toggled(s)
  BY <1>1, <1>7 DEF Pending, Toggled
<1>10. c.op = "addOption" => /\ s \in Adding /\ Adding' = Adding \ {s}
                             /\ Cardinality(Adding) \in Nat /\ Cardinality(Adding') = Cardinality(Adding) - 1
                             /\ rows.spare # {}
  <2>1. SUFFICES ASSUME c.op = "addOption"
                 PROVE  /\ s \in Adding /\ Adding' = Adding \ {s}
                        /\ Cardinality(Adding) \in Nat /\ Cardinality(Adding') = Cardinality(Adding) - 1
                        /\ rows.spare # {}
    OBVIOUS
  <2>2. s \in Adding
    BY <1>1, <1>7, <1>9, <2>1 DEF Adding, Asks
  <2>3. Adding' = Adding \ {s}
    BY <1>8 DEF Adding, Changes
  <2>4. Cardinality(Adding) \in Nat /\ Cardinality(Adding') = Cardinality(Adding) - 1 /\ Cardinality(Adding) # 0
    BY <2>2, <2>3, AddingIsFinite, FS_CardinalityType, FS_RemoveElement, FS_EmptySet
  <2>5. Cardinality(Adding) <= Cardinality(rows.spare)
    BY DEF StaffInv, LinksInv, SpareIsLeft
  <2>6. rows.spare # {}
    BY <2>4, <2>5, FS_EmptySet
  <2>7. QED BY <2>2, <2>3, <2>4, <2>6
<1>11. /\ rows' \in Forms
       /\ rows'.item = IF c.op = "createItem" THEN "there" ELSE IF c.op = "deleteItem" THEN "gone" ELSE rows.item
       /\ rows'.soldOut = IF c.op = "createItem" THEN FALSE
                          ELSE IF c.op = "soldOut" /\ rows.item = "there" THEN ~c.seen ELSE rows.soldOut
       /\ rows'.group = IF c.op = "createGroup" THEN "there"
                        ELSE IF c.op = "deleteGroup" THEN "gone" ELSE rows.group
       /\ rows'.grouped = IF c.op \in {"createItem", "saveItem"} THEN c.form.grouped
                          ELSE IF c.op \in {"deleteItem", "deleteGroup"} THEN FALSE ELSE rows.grouped
       /\ IF c.op = "addOption" THEN \E o \in rows.spare : rows'.spare = rows.spare \ {o} ELSE rows'.spare = rows.spare
  <2>1. Outcome(c.op, c.form, c.seen, rows')
    BY <1>1, <1>2, <1>10, AfterIsOutcome
  <2>2. QED BY <2>1 DEF Outcome
<1>12. StaffTypes'
  <2>1. blind' \in [Staff -> BOOLEAN] /\ told' \in [Staff -> {Shut, "soldOut", "inStock"}]
    BY <1>4, <1>5
  <2>2. change' \in [Staff -> {Shut} \cup Requests]
    BY <1>1, <1>3, <1>4
  <2>3. QED BY <1>1, <1>11, <2>1, <2>2 DEF StaffInv, StaffTypes
<1>13. SpareIsLeft'
  <2>1. CASE c.op = "addOption"
    <3>1. PICK o \in rows.spare : rows'.spare = rows.spare \ {o}
      BY <1>11, <2>1
    <3>2. IsFiniteSet(rows.spare) /\ Cardinality(rows.spare) \in Nat
      BY <1>1, SpareIsFinite, FS_CardinalityType
    <3>3. Cardinality(rows'.spare) = Cardinality(rows.spare) - 1
      BY <3>1, <3>2, FS_RemoveElement
    <3>4. QED BY <1>10, <2>1, <3>2, <3>3 DEF StaffInv, LinksInv, SpareIsLeft
  <2>2. CASE c.op # "addOption"
    <3>1. Adding' = Adding
      BY <1>7, <1>8, <2>2 DEF Adding, Asks, Changes
    <3>2. QED BY <1>11, <2>2, <3>1 DEF StaffInv, LinksInv, SpareIsLeft
  <2>3. QED BY <2>1, <2>2
<1>14. LocksAreHeld'
  BY <1>6, <1>8 DEF StaffInv, LinksInv, LocksAreHeld
<1>15. LinkedIsThere'
  BY <1>1, <1>7, <1>11 DEF StaffInv, LinksInv, LinkedIsThere, LinkIsHeld
<1>16. LinkIsHeld'
  <2>1. SUFFICES ASSUME NEW t \in Staff, t # s, Written(t), change[t].op \in {"createItem", "saveItem"},
                        change[t].form.grouped
                 PROVE  rows'.group = "there"
    BY <1>6, <1>8 DEF LinkIsHeld
  <2>2. rows.group = "there"
    BY <2>1 DEF StaffInv, LinksInv, LinkIsHeld
  <2>3. Locks(change[t].op) \cap Locks(c.op) = {}
    BY <1>1, <1>7, <2>1 DEF StaffInv, LinksInv, LocksAreHeld
  <2>4. c.op # "deleteGroup"
    BY <2>1, <2>3 DEF Locks
  <2>5. QED BY <1>11, <2>2, <2>4
<1>17. c.op = "createItem" => rows.item = "unborn"
  BY <1>1, <1>7, <1>9 DEF StaffInv, BirthInv, MadeFirst, Asks
<1>18. c.op = "deleteItem" \/ c.op = "soldOut" => rows.item # "unborn"
  BY <1>1, <1>7 DEF StaffInv, BirthInv, TouchedIsMade, Asks
<1>19. MadeOnce'
  BY <1>1, <1>8 DEF StaffInv, BirthInv, MadeOnce, Changes
<1>20. MadeFirst'
  <2>1. SUFFICES ASSUME NEW t \in Staff, t # s, Asks(t, "createItem"), Pending(t) PROVE rows'.item = "unborn"
    BY <1>8 DEF MadeFirst, Changes
  <2>2. rows.item = "unborn" /\ c.op # "createItem"
    BY <1>1, <1>7, <2>1 DEF StaffInv, BirthInv, MadeFirst, MadeOnce, Asks
  <2>3. QED BY <1>11, <1>18, <2>2
<1>21. rows.item # "unborn" => rows'.item # "unborn"
  BY <1>11
<1>22. ShownIsMade' /\ TouchedIsMade'
  BY <1>1, <1>8, <1>21 DEF StaffInv, BirthInv, ShownIsMade, TouchedIsMade, Changes
<1>23. \A t \in Staff : told'[t] # Shut => told'[t] = told[t] /\ t # s /\ c.op # "soldOut"
  BY <1>1, <1>4, <1>5, <1>7 DEF StaffInv, BirthInv, ToldIsMade
<1>24. ToldIsMade'
  BY <1>6, <1>21, <1>23 DEF StaffInv, BirthInv, ToldIsMade
<1>25. BindingHasRead' /\ SawTheForm'
  <2>1. \A t \in Staff : ~blind'[t] => ~blind[t]
    BY <1>4, <1>5
  <2>2. BindingHasRead'
    BY <1>6, <1>8 DEF StaffInv, ToastInv, BindingHasRead
  <2>3. SawTheForm'
    BY <1>1, <1>6, <1>8, <2>1 DEF StaffInv, ToastInv, SawTheForm, Changes
  <2>4. QED BY <2>2, <2>3
<1>26. FormIsCurrent'
  <2>1. SUFFICES ASSUME NEW t \in Staff, Asks(t, "soldOut")', ~blind'[t], rows'.item # "gone"
                 PROVE  /\ Pending(t)' => rows'.soldOut = change'[t].form.soldOut
                        /\ Toggled(t)' => rows'.soldOut = ~change'[t].form.soldOut
    BY DEF FormIsCurrent
  <2>2. Asks(t, "soldOut") /\ ~blind[t] /\ rows.item # "unborn" /\ c.op # "createItem" /\ c.op # "deleteItem"
    BY <1>4, <1>5, <1>8, <1>11, <1>17, <2>1 DEF StaffInv, BirthInv, TouchedIsMade, Changes
  <2>3. CASE c.op = "soldOut"
    <3>1. t = s
      BY <1>4, <1>5, <2>1, <2>2, <2>3
    <3>2. ~Pending(s)' /\ change'[s].form = c.form
      BY <1>3, <1>6, <1>8
    <3>3. c.seen = c.form.soldOut
      BY <1>1, <1>7, <2>2, <3>1 DEF StaffInv, ToastInv, SawTheForm, Admitted
    <3>4. rows.item = "there"
      BY <1>1, <1>11, <2>1, <2>2, <2>3 DEF Forms, Stages
    <3>5. QED BY <1>11, <2>3, <3>1, <3>2, <3>3, <3>4
  <2>4. CASE c.op # "soldOut"
    <3>1. t # s /\ change'[t] = change[t]
      BY <1>6, <1>7, <2>2, <2>4 DEF Asks
    <3>2. rows'.soldOut = rows.soldOut /\ rows.item # "gone"
      BY <1>11, <2>1, <2>2, <2>4
    <3>3. Pending(t)' <=> Pending(t)
      BY <3>1 DEF Pending
    <3>4. Toggled(t)' <=> Toggled(t)
      BY <3>1 DEF Toggled, Asks
    <3>5. QED BY <2>2, <3>1, <3>2, <3>3, <3>4 DEF StaffInv, ToastInv, FormIsCurrent
  <2>5. QED BY <2>3, <2>4
<1>27. ToldIsTrue'
  <2>1. SUFFICES ASSUME NEW t \in Staff, told'[t] # Shut
                 PROVE  rows'.item = "gone" \/ rows'.soldOut = (told'[t] = "soldOut")
    BY DEF ToldIsTrue
  <2>2. told'[t] = told[t] /\ told[t] # Shut /\ c.op # "soldOut"
    BY <1>23, <2>1
  <2>3. rows.item # "unborn"
    BY <2>2 DEF StaffInv, BirthInv, ToldIsMade
  <2>4. CASE rows'.item = "gone"
    BY <2>4
  <2>5. CASE rows'.item # "gone"
    <3>1. rows'.soldOut = rows.soldOut /\ rows'.item = rows.item
      BY <1>11, <1>17, <2>2, <2>3, <2>5
    <3>2. rows.soldOut = (told[t] = "soldOut")
      BY <2>2, <2>5, <3>1 DEF StaffInv, ToastInv, ToldIsTrue
    <3>3. QED BY <2>2, <3>1, <3>2
  <2>6. QED BY <2>4, <2>5
<1>28. QED BY <1>12, <1>13, <1>14, <1>15, <1>16, <1>19, <1>20, <1>22, <1>24, <1>25, <1>26, <1>27
           DEF StaffInv, LinksInv, BirthInv, ToastInv

\* A request whose change is committed goes on, and the rows are as they were.
LEMMA NotifyKeepsStaff ==
  ASSUME StaffInv, NEW s \in Staff, Notify(s)
  PROVE  StaffInv'
<1> DEFINE new == [change[s] EXCEPT !.pc = "done"]
<1>1. /\ change[s] # Shut /\ change[s].pc = "committed" /\ change[s] \in Requests /\ StaffTypes
      /\ change' = [change EXCEPT ![s] = new] /\ UNCHANGED <<rows, desk, asked, lists, told, blind>>
  BY DEF Notify, StaffInv, StaffTypes
<1>2. new \in Requests /\ new # Shut /\ new.op = change[s].op /\ new.form = change[s].form /\ new.pc = "done"
  BY <1>1, RequestIsNotShut DEF Requests
<1> HIDE DEF new
<1>3. StaffTypes' /\ \A t \in Staff : change'[t] = IF t = s THEN new ELSE change[t]
  BY <1>1, <1>2 DEF StaffTypes
<1>4. \A t \in Staff : /\ \A op \in Changes : Asks(t, op)' = Asks(t, op)
                       /\ Pending(t)' = Pending(t) /\ Admitted(t)' = Admitted(t) /\ Written(t)' = Written(t)
                       /\ Toggled(t)' = Toggled(t)
  BY <1>1, <1>2, <1>3 DEF Asks, Pending, Admitted, Written, Toggled
<1>5. ~Admitted(s) /\ ~Written(s) /\ Adding' = Adding
  BY <1>1, <1>4 DEF Admitted, Written, Adding, Changes
<1>6. LinksInv'
  BY <1>1, <1>3, <1>4, <1>5 DEF StaffInv, LinksInv, SpareIsLeft, LocksAreHeld, LinkedIsThere, LinkIsHeld
<1>7. MadeOnce' /\ MadeFirst' /\ TouchedIsMade'
  BY <1>1, <1>4 DEF StaffInv, BirthInv, MadeOnce, MadeFirst, TouchedIsMade, Changes
<1>8. ShownIsMade' /\ ToldIsMade'
  BY <1>1, <1>3 DEF StaffInv, BirthInv, ShownIsMade, ToldIsMade
<1>9. BindingHasRead' /\ SawTheForm'
  BY <1>1, <1>3, <1>4, <1>5 DEF StaffInv, ToastInv, BindingHasRead, SawTheForm, Changes
<1>10. FormIsCurrent' /\ ToldIsTrue'
  <2>1. \A t \in Staff : change[t] # Shut => change'[t].form = change[t].form
    BY <1>2, <1>3
  <2>2. \A t \in Staff : Asks(t, "soldOut") => change[t] # Shut
    BY DEF Asks
  <2>3. QED BY <1>1, <1>4, <2>1, <2>2 DEF StaffInv, ToastInv, FormIsCurrent, ToldIsTrue, Changes
<1>11. QED BY <1>3, <1>6, <1>7, <1>8, <1>9, <1>10 DEF StaffInv, BirthInv, ToastInv

\* The answer arrives: a toast, and the list is asked for; or it is lost.
LEMMA SettleKeepsStaff ==
  ASSUME StaffInv, NEW s \in Staff, SettleChange(s)
  PROVE  StaffInv'
<1>1. /\ change[s] # Shut /\ change[s].pc \in {"done", "refused"} /\ change' = [change EXCEPT ![s] = Shut]
      /\ blind' = [blind EXCEPT ![s] = FALSE] /\ UNCHANGED <<rows, desk, lists>>
  BY DEF SettleChange, shelfVars
<1>2. /\ blind \in [Staff -> BOOLEAN] /\ told \in [Staff -> {Shut, "soldOut", "inStock"}]
      /\ change \in [Staff -> {Shut} \cup Requests] /\ asked \in [Staff -> Nat] /\ StaffTypes
  BY DEF StaffInv, StaffTypes
<1>3. \A t \in Staff : change'[t] = IF t = s THEN Shut ELSE change[t]
  BY <1>1, <1>2
<1>4. \/ /\ change[s].pc = "done" /\ asked' = [asked EXCEPT ![s] = @ + 1]
         /\ told' = [told EXCEPT ![s] = IF Asks(s, "soldOut") /\ ~blind[s] THEN Says(change[s].form) ELSE Shut]
      \/ UNCHANGED <<asked, told>>
  BY <1>1 DEF SettleChange, Asks
<1>5. StaffTypes'
  <2>1. asked' \in [Staff -> Nat] /\ told' \in [Staff -> {Shut, "soldOut", "inStock"}]
    BY <1>2, <1>4 DEF Says
  <2>2. blind' \in [Staff -> BOOLEAN] /\ change' \in [Staff -> {Shut} \cup Requests]
    BY <1>1, <1>2
  <2>3. QED BY <1>1, <1>2, <2>1, <2>2 DEF StaffTypes
<1>6. \A t \in Staff : t # s => blind'[t] = blind[t] /\ told'[t] = told[t]
  BY <1>1, <1>2, <1>4
<1>7. \A t \in Staff : /\ \A op \in Changes : Asks(t, op)' = (t # s /\ Asks(t, op))
                       /\ Pending(t)' = Pending(t) /\ Admitted(t)' = Admitted(t) /\ Written(t)' = Written(t)
                       /\ Toggled(t)' = (t # s /\ Toggled(t))
  BY <1>1, <1>3 DEF Asks, Pending, Admitted, Written, Toggled
<1>8. ~Pending(s) /\ ~Admitted(s) /\ ~Written(s)
  BY <1>1 DEF Pending, Admitted, Written
<1>9. Adding' = Adding
  BY <1>7, <1>8 DEF Adding, Changes
<1>10. LinksInv'
  BY <1>1, <1>3, <1>7, <1>8, <1>9 DEF StaffInv, LinksInv, SpareIsLeft, LocksAreHeld, LinkedIsThere, LinkIsHeld
<1>11. MadeOnce' /\ MadeFirst' /\ TouchedIsMade' /\ ShownIsMade'
  BY <1>1, <1>7 DEF StaffInv, BirthInv, MadeOnce, MadeFirst, TouchedIsMade, ShownIsMade, Changes
<1>12. told'[s] # Shut => Toggled(s) /\ ~blind[s] /\ told'[s] = Says(change[s].form)
  BY <1>1, <1>2, <1>4 DEF StaffInv, BirthInv, ToldIsMade, Toggled
<1>13. ToldIsMade'
  BY <1>1, <1>3, <1>6, <1>12 DEF StaffInv, BirthInv, ToldIsMade, TouchedIsMade, Toggled
<1>14. BindingHasRead' /\ SawTheForm'
  BY <1>3, <1>6, <1>7, <1>8 DEF StaffInv, ToastInv, BindingHasRead, SawTheForm, Changes
<1>15. FormIsCurrent'
  BY <1>1, <1>3, <1>6, <1>7 DEF StaffInv, ToastInv, FormIsCurrent, Changes
<1>16. ToldIsTrue'
  <2>1. SUFFICES ASSUME NEW t \in Staff, told'[t] # Shut
                 PROVE  rows.item = "gone" \/ rows.soldOut = (told'[t] = "soldOut")
    BY <1>1 DEF ToldIsTrue
  <2>2. CASE t # s
    BY <1>6, <2>1, <2>2 DEF StaffInv, ToastInv, ToldIsTrue
  <2>3. CASE t = s /\ rows.item # "gone"
    <3>1. Toggled(s) /\ ~blind[s] /\ told'[s] = Says(change[s].form)
      BY <1>12, <2>1, <2>3
    <3>2. rows.soldOut = ~change[s].form.soldOut
      BY <2>3, <3>1 DEF StaffInv, ToastInv, FormIsCurrent, Toggled
    <3>3. (Says(change[s].form) = "soldOut") = ~change[s].form.soldOut
      <4>1. change[s] \in Requests
        BY <1>1, <1>2
      <4>2. QED BY <4>1 DEF Says, Requests, Forms
    <3>4. QED BY <2>3, <3>1, <3>2, <3>3
  <2>4. QED BY <2>2, <2>3
<1>17. QED BY <1>5, <1>10, <1>11, <1>13, <1>14, <1>15, <1>16 DEF StaffInv, BirthInv, ToastInv

LEMMA StaffStep == StaffInv /\ [MenuNext]_menuVars => StaffInv'
<1>1. SUFFICES ASSUME StaffInv, [MenuNext]_menuVars PROVE StaffInv'
  OBVIOUS
<1>2. ASSUME NEW c \in Readers,
             \/ OpenMenu(c) \/ StoreMenu(c) \/ OpenItem(c) \/ PickOption(c) \/ PressAdd(c)
             \/ CloseItem(c) \/ AddItem(c) \/ SettleAdd(c)
      PROVE  StaffInv'
  <2>1. UNCHANGED <<rows, staffVars>>
    BY <1>2 DEF OpenMenu, StoreMenu, OpenItem, PickOption, PressAdd, CloseItem, AddItem, SettleAdd, shelfVars
  <2>2. QED BY <1>1, <2>1, StaffStays
<1>3. CASE ExpireMenu \/ TurnClock \/ UNCHANGED menuVars
  <2>1. UNCHANGED <<rows, staffVars>>
    BY <1>3 DEF ExpireMenu, TurnClock, menuVars, shelfVars
  <2>2. QED BY <1>1, <2>1, StaffStays
<1>4. QED BY <1>1, <1>2, <1>3, DeskLoads, PressKeepsStaff, AdmitKeepsStaff, WriteKeepsStaff, CommitKeepsStaff,
             NotifyKeepsStaff, SettleKeepsStaff DEF MenuNext

\* A toggle asked for on a list that was right, and stayed so, is followed by a
\* toast that says what the item is until it is toggled again, though the request
\* does not say which way, the binding reads before the lock, and the list is
\* loaded again some time later (useMenuItemSoldOut, MenuItemService::toggleSoldOut).
THEOREM ToastsTellTruth == MenuSpec => []ToldIsTrue
<1>1. StaffInv => ToldIsTrue
  BY DEF StaffInv, ToastInv
<1>2. QED BY <1>1, StaffStarts, StaffStep, PTL DEF MenuSpec

-----------------------------------------------------------------------------
(* What the reader's browser holds                                          *)

ReaderTypes ==
    /\ cached \in {Shut} \cup [menu : Menus \cup {Shut}]
    /\ building \in [Readers -> {Shut} \cup [menu : Menus \cup {Shut}]]
    /\ page \in [Readers -> {Shut} \cup [menu : Menus, available : BOOLEAN]]
    /\ dialog \in [Readers -> BOOLEAN] /\ picked \in [Readers -> SUBSET Options]
    /\ add \in [Readers -> {Shut} \cup [pc : {"sent", "taken", "refused"}, picked : SUBSET Options, menu : Menus]]

\* What the form lets a customer pick of a group, valid already or not yet.
Fits(group, choice) ==
    IF group = Shut THEN choice = {} ELSE choice \subseteq group.options /\ Cardinality(choice) <= group.rule.max

\* A reader waiting for its menu shows none; a dialog is of an item that sells
\* on the page behind it, and so is what it sends.
WaitsForMenu == \A c \in Readers : building[c] # Shut => page[c] = Shut
PageSells    == \A c \in Readers : page[c] # Shut /\ page[c].available => ~page[c].menu.soldOut
DialogFits ==
    \A c \in Readers : dialog[c] => page[c] # Shut /\ page[c].available /\ Fits(page[c].menu.group, picked[c])
AddFits ==
    \A c \in Readers : add[c] # Shut => /\ ~add[c].menu.soldOut
                                        /\ Fits(add[c].menu.group, add[c].picked)
                                        /\ FormAccepts(add[c].menu.group, add[c].picked)

ReaderInv == ReaderTypes /\ WaitsForMenu /\ PageSells /\ DialogFits /\ AddFits

\* The form of the whole state.
MenuTypeOK ==
    /\ StaffTypes /\ ReaderTypes /\ daytime \in BOOLEAN
    /\ store \in {"database", "memory"} /\ undone \subseteq Staff /\ overlapped \subseteq Readers
    /\ excused \in BOOLEAN /\ steps \in 0..MaxSteps

LEMMA MenuOfForm ==
  ASSUME NEW r \in Forms
  PROVE  MenuOf(r) \in Menus \cup {Shut} /\ [menu |-> MenuOf(r)] \in [menu : Menus \cup {Shut}]
<1>1. [rule |-> r.rule, options |-> r.options] \in Groups
  BY DEF Forms, Groups
<1>2. GroupOf(r) \in Groups \cup {Shut}
  BY <1>1 DEF GroupOf
<1>3. [soldOut |-> r.soldOut, hours |-> r.hours, group |-> GroupOf(r)] \in Menus
  BY <1>2 DEF Forms, Menus
<1>4. QED BY <1>3 DEF MenuOf

LEMMA SentForm ==
  ASSUME NEW menu \in Menus \cup {Shut}, daytime \in BOOLEAN
  PROVE  /\ Sent(menu) \in {Shut} \cup [menu : Menus, available : BOOLEAN]
         /\ Sent(menu) # Shut /\ Sent(menu).available => ~Sent(menu).menu.soldOut
<1>1. CASE menu = Shut
  BY <1>1 DEF Sent
<1>2. CASE menu # Shut
  <2> DEFINE sells == ~menu.soldOut /\ Sells(menu.hours)
  <2>1. menu \in Menus /\ Sent(menu) = [menu |-> menu, available |-> sells] /\ sells \in BOOLEAN
    BY <1>2 DEF Sent
  <2>2. sells => ~menu.soldOut
    OBVIOUS
  <2> HIDE DEF sells
  <2>3. QED BY <2>1, <2>2
<1>3. QED BY <1>1, <1>2

LEMMA ReadersStart == MenuInit => ReaderInv
<1>1. SUFFICES ASSUME MenuInit PROVE ReaderInv
  OBVIOUS
<1>2. ReaderTypes
  BY <1>1 DEF MenuInit, ReaderTypes
<1>3. QED BY <1>1, <1>2 DEF MenuInit, ReaderInv, WaitsForMenu, PageSells, DialogFits, AddFits

LEMMA ReadersStay ==
  ASSUME ReaderInv, UNCHANGED <<building, readerVars>>, cached' \in {cached, Shut}
  PROVE  ReaderInv'
<1>1. UNCHANGED <<page, dialog, picked, add>>
  BY DEF readerVars
<1>2. ReaderTypes'
  BY <1>1 DEF ReaderInv, ReaderTypes
<1>3. QED BY <1>1, <1>2 DEF ReaderInv, WaitsForMenu, PageSells, DialogFits, AddFits

LEMMA OpenMenuKeeps ==
  ASSUME ReaderInv, rows \in Forms, daytime \in BOOLEAN, NEW c \in Readers, OpenMenu(c)
  PROVE  ReaderInv'
<1>1. /\ building[c] = Shut /\ dialog' = [dialog EXCEPT ![c] = FALSE] /\ picked' = [picked EXCEPT ![c] = {}]
      /\ UNCHANGED <<cached, add>>
  BY DEF OpenMenu
<1>2. ReaderTypes
  BY DEF ReaderInv
<1>3. PICK new \in {Shut} \cup [menu : Menus, available : BOOLEAN], built \in {Shut} \cup [menu : Menus \cup {Shut}] :
        /\ page' = [page EXCEPT ![c] = new] /\ building' = [building EXCEPT ![c] = built]
        /\ new # Shut /\ new.available => ~new.menu.soldOut
        /\ built # Shut => new = Shut
  <2>1. CASE cached # Shut
    <3>1. cached.menu \in Menus \cup {Shut}
      BY <1>2, <2>1 DEF ReaderTypes
    <3>2. page' = [page EXCEPT ![c] = Sent(cached.menu)] /\ UNCHANGED building
      BY <2>1 DEF OpenMenu
    <3>3. building' = [building EXCEPT ![c] = Shut]
      BY <1>1, <1>2, <3>2 DEF ReaderTypes
    <3>4. QED BY <3>1, <3>2, <3>3, SentForm
  <2>2. CASE cached = Shut
    BY <2>2, MenuOfForm DEF OpenMenu
  <2>3. QED BY <2>1, <2>2
<1>4. ReaderTypes'
  BY <1>1, <1>2, <1>3 DEF ReaderTypes
<1>5. \A d \in Readers : /\ page'[d] = IF d = c THEN new ELSE page[d]
                         /\ building'[d] = IF d = c THEN built ELSE building[d]
                         /\ dialog'[d] = IF d = c THEN FALSE ELSE dialog[d]
                         /\ picked'[d] = IF d = c THEN {} ELSE picked[d]
  BY <1>1, <1>2, <1>3 DEF ReaderTypes
<1>6. WaitsForMenu' /\ PageSells'
  BY <1>3, <1>5 DEF ReaderInv, WaitsForMenu, PageSells
<1>7. DialogFits' /\ AddFits'
  BY <1>1, <1>5 DEF ReaderInv, DialogFits, AddFits
<1>8. QED BY <1>4, <1>6, <1>7 DEF ReaderInv

LEMMA StoreMenuKeeps ==
  ASSUME ReaderInv, daytime \in BOOLEAN, NEW c \in Readers, StoreMenu(c)
  PROVE  ReaderInv'
<1> DEFINE new == Sent(building[c].menu)
<1>1. /\ building[c] # Shut /\ cached' = building[c] /\ page' = [page EXCEPT ![c] = new]
      /\ building' = [building EXCEPT ![c] = Shut] /\ UNCHANGED <<dialog, picked, add>>
  BY DEF StoreMenu
<1>2. ReaderTypes
  BY DEF ReaderInv
<1>3. new \in {Shut} \cup [menu : Menus, available : BOOLEAN] /\ (new # Shut /\ new.available => ~new.menu.soldOut)
  <2>1. building[c].menu \in Menus \cup {Shut}
    BY <1>1, <1>2 DEF ReaderTypes
  <2>2. QED BY <2>1, SentForm
<1> HIDE DEF new
<1>4. ReaderTypes'
  BY <1>1, <1>2, <1>3 DEF ReaderTypes
<1>5. \A d \in Readers : /\ page'[d] = IF d = c THEN new ELSE page[d]
                         /\ building'[d] = IF d = c THEN Shut ELSE building[d]
  BY <1>1, <1>2 DEF ReaderTypes
<1>6. ~dialog[c]
  BY <1>1 DEF ReaderInv, WaitsForMenu, DialogFits
<1>7. WaitsForMenu' /\ PageSells'
  BY <1>3, <1>5 DEF ReaderInv, WaitsForMenu, PageSells
<1>8. DialogFits' /\ AddFits'
  BY <1>1, <1>5, <1>6 DEF ReaderInv, DialogFits, AddFits
<1>9. QED BY <1>4, <1>7, <1>8 DEF ReaderInv

LEMMA OpenItemKeeps ==
  ASSUME ReaderInv, NEW c \in Readers, OpenItem(c)
  PROVE  ReaderInv'
<1>1. /\ page[c] # Shut /\ page[c].available
      /\ dialog' = [dialog EXCEPT ![c] = TRUE] /\ picked' = [picked EXCEPT ![c] = {}]
      /\ UNCHANGED <<cached, building, page, add>>
  BY DEF OpenItem, shelfVars
<1>2. ReaderTypes /\ ReaderTypes'
  BY <1>1 DEF ReaderInv, ReaderTypes
<1>3. \A d \in Readers : /\ dialog'[d] = IF d = c THEN TRUE ELSE dialog[d]
                         /\ picked'[d] = IF d = c THEN {} ELSE picked[d]
  BY <1>1, <1>2 DEF ReaderTypes
<1>4. Fits(page[c].menu.group, {})
  <2>1. page[c].menu.group # Shut => page[c].menu.group.rule \in Rules
    BY <1>1, <1>2 DEF ReaderTypes, Menus, Groups
  <2>2. \A r \in Rules : r.max \in Nat
    BY RulesAssumption
  <2>3. QED BY <2>1, <2>2, FS_EmptySet DEF Fits
<1>5. DialogFits'
  BY <1>1, <1>3, <1>4 DEF ReaderInv, DialogFits
<1>6. QED BY <1>1, <1>2, <1>5 DEF ReaderInv, WaitsForMenu, PageSells, AddFits

\* One more, one less or another: the form never lets a customer pick more than
\* the group allows.
LEMMA PicksFit ==
  ASSUME NEW group \in Groups, group # Shut, NEW old \in SUBSET Options, Fits(group, old), NEW new \in Picks(group, old)
  PROVE  new \in SUBSET Options /\ Fits(group, new)
<1>1. /\ group.rule \in Rules /\ group.rule.max \in Nat /\ group.rule.max >= 1 /\ group.options \in SUBSET Options
      /\ old \subseteq group.options /\ Cardinality(old) <= group.rule.max
  BY RulesAssumption DEF Groups, Fits
<1>2. IsFiniteSet(old) /\ Cardinality(old) \in Nat
  BY MenuBounds, FS_Subset, FS_CardinalityType
<1>3. CASE \E o \in group.options : new = {o} /\ group.rule.max = 1
  BY <1>1, <1>3, FS_Singleton DEF Fits
<1>4. CASE \E o \in old : new = old \ {o}
  <2>1. PICK o \in old : new = old \ {o}
    BY <1>4
  <2>2. Cardinality(new) = Cardinality(old) - 1
    BY <1>2, <2>1, FS_RemoveElement
  <2>3. Cardinality(new) <= group.rule.max
    BY <1>1, <1>2, <2>2
  <2>4. QED BY <1>1, <2>1, <2>3 DEF Fits
<1>5. CASE \E o \in group.options : new = old \cup {o} /\ Cardinality(old) < group.rule.max
  <2>1. PICK o \in group.options : new = old \cup {o} /\ Cardinality(old) < group.rule.max
    BY <1>5
  <2>2. Cardinality(new) = IF o \in old THEN Cardinality(old) ELSE Cardinality(old) + 1
    BY <1>2, <2>1, FS_AddElement
  <2>3. Cardinality(new) <= group.rule.max
    BY <1>1, <1>2, <2>1, <2>2
  <2>4. QED BY <1>1, <2>1, <2>3 DEF Fits
<1>6. QED BY <1>3, <1>4, <1>5 DEF Picks

LEMMA PickOptionKeeps ==
  ASSUME ReaderInv, NEW c \in Readers, PickOption(c)
  PROVE  ReaderInv'
<1>1. /\ dialog[c] /\ page[c].menu.group # Shut /\ UNCHANGED <<cached, building, page, dialog, add>>
  BY DEF PickOption, shelfVars
<1>2. ReaderTypes
  BY DEF ReaderInv
<1>3. /\ page[c] # Shut /\ page[c].available /\ Fits(page[c].menu.group, picked[c])
  BY <1>1 DEF ReaderInv, DialogFits
<1>4. page[c].menu.group \in Groups /\ picked[c] \in SUBSET Options
  BY <1>1, <1>2, <1>3 DEF ReaderTypes, Menus
<1>5. PICK new \in Picks(page[c].menu.group, picked[c]) : picked' = [picked EXCEPT ![c] = new]
  BY DEF PickOption
<1>6. new \in SUBSET Options /\ Fits(page[c].menu.group, new)
  BY <1>1, <1>3, <1>4, PicksFit
<1>7. ReaderTypes'
  BY <1>1, <1>2, <1>5, <1>6 DEF ReaderTypes
<1>8. \A d \in Readers : picked'[d] = IF d = c THEN new ELSE picked[d]
  BY <1>2, <1>5 DEF ReaderTypes
<1>9. DialogFits'
  BY <1>1, <1>6, <1>8 DEF ReaderInv, DialogFits
<1>10. QED BY <1>1, <1>7, <1>9 DEF ReaderInv, WaitsForMenu, PageSells, AddFits

LEMMA PressAddKeeps ==
  ASSUME ReaderInv, NEW c \in Readers, PressAdd(c)
  PROVE  ReaderInv'
<1>1. /\ dialog[c] /\ FormAccepts(page[c].menu.group, picked[c]) /\ dialog' = [dialog EXCEPT ![c] = FALSE]
      /\ UNCHANGED <<cached, building, picked>>
  BY DEF PressAdd, shelfVars
<1>2. ReaderTypes
  BY DEF ReaderInv
<1>3. /\ page[c] # Shut /\ page[c].available /\ Fits(page[c].menu.group, picked[c]) /\ ~page[c].menu.soldOut
      /\ page[c].menu \in Menus /\ picked[c] \in SUBSET Options
  BY <1>1, <1>2 DEF ReaderInv, DialogFits, PageSells, ReaderTypes
<1>4. \A d \in Readers : dialog'[d] = IF d = c THEN FALSE ELSE dialog[d]
  BY <1>1, <1>2 DEF ReaderTypes
<1>5. CASE add' = [add EXCEPT ![c] = [pc |-> "sent", picked |-> picked[c], menu |-> page[c].menu]] /\ UNCHANGED page
  <2> DEFINE new == [pc |-> "sent", picked |-> picked[c], menu |-> page[c].menu]
  <2>1. add' = [add EXCEPT ![c] = new] /\ UNCHANGED page
    BY <1>5
  <2>2. /\ new \in [pc : {"sent", "taken", "refused"}, picked : SUBSET Options, menu : Menus]
        /\ new.menu = page[c].menu /\ new.picked = picked[c]
    BY <1>3
  <2> HIDE DEF new
  <2>3. ReaderTypes'
    BY <1>1, <1>2, <2>1, <2>2 DEF ReaderTypes
  <2>4. \A d \in Readers : add'[d] = IF d = c THEN new ELSE add[d]
    BY <1>2, <2>1 DEF ReaderTypes
  <2>5. AddFits'
    BY <1>1, <1>3, <2>2, <2>4 DEF ReaderInv, AddFits
  <2>6. QED BY <1>1, <1>4, <2>1, <2>3, <2>5 DEF ReaderInv, WaitsForMenu, PageSells, DialogFits
<1>6. CASE page' = [page EXCEPT ![c] = Shut] /\ UNCHANGED add
  <2>1. page' = [page EXCEPT ![c] = Shut] /\ UNCHANGED add
    BY <1>6
  <2>2. ReaderTypes'
    BY <1>1, <1>2, <2>1 DEF ReaderTypes
  <2>3. \A d \in Readers : page'[d] = IF d = c THEN Shut ELSE page[d]
    BY <1>2, <2>1 DEF ReaderTypes
  <2>4. WaitsForMenu' /\ PageSells'
    BY <1>1, <2>3 DEF ReaderInv, WaitsForMenu, PageSells
  <2>5. DialogFits'
    BY <1>1, <1>4, <2>3 DEF ReaderInv, DialogFits
  <2>6. AddFits'
    BY <2>1 DEF ReaderInv, AddFits
  <2>7. QED BY <2>2, <2>4, <2>5, <2>6 DEF ReaderInv
<1>7. QED BY <1>5, <1>6 DEF PressAdd

LEMMA CloseItemKeeps ==
  ASSUME ReaderInv, NEW c \in Readers, CloseItem(c)
  PROVE  ReaderInv'
<1>1. dialog' = [dialog EXCEPT ![c] = FALSE] /\ UNCHANGED <<cached, building, page, picked, add>>
  BY DEF CloseItem, shelfVars
<1>2. ReaderTypes /\ ReaderTypes'
  BY <1>1 DEF ReaderInv, ReaderTypes
<1>3. \A d \in Readers : dialog'[d] = IF d = c THEN FALSE ELSE dialog[d]
  BY <1>1, <1>2 DEF ReaderTypes
<1>4. QED BY <1>1, <1>2, <1>3 DEF ReaderInv, WaitsForMenu, PageSells, DialogFits, AddFits

LEMMA AddItemKeeps ==
  ASSUME ReaderInv, NEW c \in Readers, AddItem(c)
  PROVE  ReaderInv'
<1>1. add[c] # Shut /\ UNCHANGED <<cached, building, page, dialog, picked>>
  BY DEF AddItem, shelfVars
<1>2. PICK pc \in {"taken", "refused"} : add' = [add EXCEPT ![c].pc = pc]
  BY DEF AddItem
<1> DEFINE new == [add[c] EXCEPT !.pc = pc]
<1>3. ReaderTypes /\ add' = [add EXCEPT ![c] = new]
  BY <1>2 DEF ReaderInv
<1>4. /\ new \in [pc : {"sent", "taken", "refused"}, picked : SUBSET Options, menu : Menus]
      /\ new.menu = add[c].menu /\ new.picked = add[c].picked
  BY <1>1, <1>3 DEF ReaderTypes
<1> HIDE DEF new
<1>5. ReaderTypes'
  BY <1>1, <1>3, <1>4 DEF ReaderTypes
<1>6. \A d \in Readers : add'[d] = IF d = c THEN new ELSE add[d]
  BY <1>3 DEF ReaderTypes
<1>7. AddFits'
  BY <1>1, <1>4, <1>6 DEF ReaderInv, AddFits
<1>8. QED BY <1>1, <1>5, <1>7 DEF ReaderInv, WaitsForMenu, PageSells, DialogFits

LEMMA SettleAddKeeps ==
  ASSUME ReaderInv, NEW c \in Readers, SettleAdd(c)
  PROVE  ReaderInv'
<1>1. /\ dialog' = [dialog EXCEPT ![c] = @ /\ add[c].pc = "refused"] /\ add' = [add EXCEPT ![c] = Shut]
      /\ UNCHANGED <<cached, building, page, picked>>
  BY DEF SettleAdd, shelfVars
<1>2. ReaderTypes /\ ReaderTypes'
  BY <1>1 DEF ReaderInv, ReaderTypes
<1>3. \A d \in Readers : (dialog'[d] => dialog[d]) /\ add'[d] = IF d = c THEN Shut ELSE add[d]
  BY <1>1, <1>2 DEF ReaderTypes
<1>4. QED BY <1>1, <1>2, <1>3 DEF ReaderInv, WaitsForMenu, PageSells, DialogFits, AddFits

\* Staff work on the rows and drop the cached menu; browsers learn of it when they ask.
LEMMA StaffLeaveReaders ==
  ASSUME NEW s \in Staff,
         \/ OpenDesk(s) \/ ToggleSoldOut(s)
         \/ CreateItem(s) \/ SaveItem(s) \/ DeleteItem(s)
         \/ CreateGroup(s) \/ SaveGroup(s) \/ DeleteGroup(s) \/ AddOption(s) \/ DropOption(s)
         \/ CreateCategory(s) \/ EditCategory(s) \/ DeleteCategory(s) \/ ReorderCategories(s)
         \/ Admit(s) \/ Write(s) \/ Commit(s) \/ Notify(s) \/ SettleChange(s)
         \/ ServeReload(s) \/ ShowReload(s)
  PROVE  UNCHANGED <<building, readerVars>> /\ UNCHANGED readerVars /\ cached' \in {cached, Shut}
<1>1. \/ \E op, form : Ask(s, op, form)
      \/ OpenDesk(s) \/ Admit(s) \/ Write(s) \/ Commit(s) \/ Notify(s) \/ SettleChange(s)
      \/ ServeReload(s) \/ ShowReload(s)
  BY DEF ToggleSoldOut, CreateItem, SaveItem, DeleteItem, CreateGroup, SaveGroup, DeleteGroup, AddOption,
     DropOption, CreateCategory, EditCategory, DeleteCategory, ReorderCategories
<1>2. QED BY <1>1 DEF Ask, OpenDesk, Admit, Write, Commit, Notify, SettleChange, ServeReload, ShowReload, Forget, shelfVars

LEMMA ReaderStep ==
  ReaderInv /\ StaffInv /\ daytime \in BOOLEAN /\ [MenuNext]_menuVars => ReaderInv'
<1>1. SUFFICES ASSUME ReaderInv, StaffInv, daytime \in BOOLEAN, [MenuNext]_menuVars PROVE ReaderInv'
  OBVIOUS
<1>2. rows \in Forms
  BY <1>1 DEF StaffInv, StaffTypes
<1>3. ASSUME NEW c \in Readers,
             \/ OpenMenu(c) \/ StoreMenu(c) \/ OpenItem(c) \/ PickOption(c) \/ PressAdd(c)
             \/ CloseItem(c) \/ AddItem(c) \/ SettleAdd(c)
      PROVE  ReaderInv'
  BY <1>1, <1>2, <1>3, OpenMenuKeeps, StoreMenuKeeps, OpenItemKeeps, PickOptionKeeps, PressAddKeeps, CloseItemKeeps,
     AddItemKeeps, SettleAddKeeps
<1>4. CASE ExpireMenu \/ TurnClock \/ UNCHANGED menuVars
  <2>1. UNCHANGED <<building, readerVars>> /\ cached' \in {cached, Shut}
    BY <1>4 DEF ExpireMenu, TurnClock, menuVars, shelfVars
  <2>2. QED BY <1>1, <2>1, ReadersStay
<1>5. ASSUME NEW s \in Staff,
             \/ OpenDesk(s) \/ ToggleSoldOut(s)
             \/ CreateItem(s) \/ SaveItem(s) \/ DeleteItem(s)
             \/ CreateGroup(s) \/ SaveGroup(s) \/ DeleteGroup(s) \/ AddOption(s) \/ DropOption(s)
             \/ CreateCategory(s) \/ EditCategory(s) \/ DeleteCategory(s) \/ ReorderCategories(s)
             \/ Admit(s) \/ Write(s) \/ Commit(s) \/ Notify(s) \/ SettleChange(s)
             \/ ServeReload(s) \/ ShowReload(s)
      PROVE  ReaderInv'
  BY <1>1, <1>5, StaffLeaveReaders, ReadersStay
<1>6. QED BY <1>1, <1>3, <1>4, <1>5 DEF MenuNext

\* The clock, the histories and the bound.
RestTypes ==
    /\ daytime \in BOOLEAN /\ steps \in 0..MaxSteps
    /\ store \in {"database", "memory"} /\ undone \subseteq Staff /\ overlapped \subseteq Readers /\ excused \in BOOLEAN

LEMMA RestStep == RestTypes /\ [MenuNext]_menuVars => RestTypes'
<1>1. SUFFICES ASSUME RestTypes, [MenuNext]_menuVars PROVE RestTypes'
  OBVIOUS
<1> DEFINE Kept == daytime' \in BOOLEAN /\ store' = store /\ (steps' = steps \/ (steps < MaxSteps /\ steps' = steps + 1))
           Raced == undone' \subseteq Staff /\ overlapped' \subseteq Readers /\ excused' \in BOOLEAN
<1>2. ASSUME NEW c \in Readers,
             \/ OpenMenu(c) \/ StoreMenu(c) \/ OpenItem(c) \/ PickOption(c) \/ PressAdd(c)
             \/ CloseItem(c) \/ AddItem(c) \/ SettleAdd(c)
      PROVE  Kept /\ Raced
  <2>1. CASE OpenMenu(c)
    BY <1>1, <2>1 DEF RestTypes, OpenMenu, raceVars
  <2>2. CASE StoreMenu(c)
    <3>1. /\ UNCHANGED <<daytime, store, steps>> /\ undone' = undone \cup {s \in Staff : Written(s)}
          /\ excused' = (c \in overlapped) /\ overlapped' = overlapped \ {c}
      BY <2>2 DEF StoreMenu
    <3>2. QED BY <1>1, <3>1 DEF RestTypes
  <2>3. CASE OpenItem(c) \/ PickOption(c) \/ PressAdd(c) \/ CloseItem(c) \/ AddItem(c) \/ SettleAdd(c)
    BY <1>1, <2>3 DEF RestTypes, OpenItem, PickOption, PressAdd, CloseItem, AddItem, SettleAdd, shelfVars, raceVars
  <2>4. QED BY <1>2, <2>1, <2>2, <2>3
<1>3. ASSUME ExpireMenu \/ TurnClock
      PROVE  Kept /\ Raced
  BY <1>1, <1>3 DEF RestTypes, ExpireMenu, TurnClock, raceVars
<1>4. ASSUME UNCHANGED menuVars
      PROVE  Kept /\ Raced
  BY <1>1, <1>4 DEF RestTypes, menuVars, shelfVars, raceVars
<1>5. ASSUME NEW s \in Staff, NEW op, NEW form, Ask(s, op, form)
      PROVE  Kept /\ Raced
  BY <1>1, <1>5 DEF RestTypes, Ask, shelfVars, raceVars
<1>6. ASSUME NEW s \in Staff,
             \/ ToggleSoldOut(s)
             \/ CreateItem(s) \/ SaveItem(s) \/ DeleteItem(s)
             \/ CreateGroup(s) \/ SaveGroup(s) \/ DeleteGroup(s) \/ AddOption(s) \/ DropOption(s)
             \/ CreateCategory(s) \/ EditCategory(s) \/ DeleteCategory(s) \/ ReorderCategories(s)
      PROVE  Kept /\ Raced
  <2>1. \E op, form : Ask(s, op, form)
    BY <1>6 DEF ToggleSoldOut, CreateItem, SaveItem, DeleteItem, CreateGroup, SaveGroup, DeleteGroup, AddOption,
       DropOption, CreateCategory, EditCategory, DeleteCategory, ReorderCategories
  <2> HIDE DEF Kept, Raced
  <2>2. QED BY <1>5, <2>1
<1>7. ASSUME NEW s \in Staff, OpenDesk(s) \/ Admit(s) \/ Notify(s) \/ SettleChange(s) \/ ServeReload(s) \/ ShowReload(s)
      PROVE  Kept /\ Raced
  BY <1>1, <1>7 DEF RestTypes, OpenDesk, Admit, Notify, SettleChange, ServeReload, ShowReload, shelfVars, raceVars
<1>8. ASSUME NEW s \in Staff, Write(s) \/ Commit(s)
      PROVE  Kept /\ Raced
  BY <1>1, <1>8 DEF RestTypes, Write, Forget, Commit
<1> HIDE DEF Kept, Raced
<1>9. Kept /\ Raced
  BY <1>1, <1>2, <1>3, <1>4, <1>6, <1>7, <1>8 DEF MenuNext
<1>10. steps' \in 0..MaxSteps
  BY <1>1, <1>9, MenuBounds DEF RestTypes, Kept
<1>11. QED BY <1>1, <1>9, <1>10 DEF RestTypes, Kept, Raced

MenuInv == StaffInv /\ ReaderInv /\ RestTypes

LEMMA MenuStarts == MenuInit => MenuInv
<1>1. MenuInit => RestTypes
  <2>1. 0 \in 0..MaxSteps
    BY MenuBounds
  <2>2. QED BY <2>1 DEF MenuInit, RestTypes
<1>2. QED BY <1>1, StaffStarts, ReadersStart DEF MenuInv

LEMMA MenuStep == MenuInv /\ [MenuNext]_menuVars => MenuInv'
<1>1. RestTypes => daytime \in BOOLEAN
  BY DEF RestTypes
<1>2. QED BY <1>1, StaffStep, ReaderStep, RestStep DEF MenuInv

\* Rows, forms, pages, requests and toasts keep their form, whatever staff and
\* customers do at once; above all the rows after each commit (MenuItemService,
\* OptionGroupService, OptionService and CategoryService).
THEOREM MenuTypeCorrect == MenuSpec => []MenuTypeOK
<1>1. MenuInv => MenuTypeOK
  BY DEF MenuInv, StaffInv, ReaderInv, RestTypes, MenuTypeOK
<1>2. QED BY <1>1, MenuStarts, MenuStep, PTL DEF MenuSpec

\* What the form accepted of the menu as it is, the server takes.
LEMMA FormIsEnough ==
  ASSUME StaffInv, ReaderInv, NEW c \in Readers, add[c] # Shut,
         add[c].menu = MenuOf(rows), ~HiddenGroupDemands
  PROVE  rows.item = "there" /\ rows.active /\ ~rows.soldOut /\ OptionsAccepted(rows, add[c].picked)
<1> DEFINE choice == add[c].picked
<1>1. add[c].menu \in Menus /\ rows \in Forms
  BY DEF StaffInv, StaffTypes, ReaderInv, ReaderTypes
<1>2. ~add[c].menu.soldOut /\ Fits(add[c].menu.group, choice) /\ FormAccepts(add[c].menu.group, choice)
  BY DEF ReaderInv, AddFits
<1>3. /\ rows.category = "there" /\ rows.shown /\ rows.item = "there" /\ rows.active /\ rows.listed
      /\ add[c].menu = [soldOut |-> rows.soldOut, hours |-> rows.hours, group |-> GroupOf(rows)]
  BY <1>1, ShutAssumption DEF MenuOf
<1>4. ~rows.soldOut /\ Fits(GroupOf(rows), choice) /\ FormAccepts(GroupOf(rows), choice)
  BY <1>2, <1>3
<1> HIDE DEF choice
<1>5. rows.grouped => rows.group = "there"
  BY DEF StaffInv, LinksInv, LinkedIsThere
<1>6. CASE rows.grouped /\ rows.offered
  <2>1. /\ GroupOf(rows) = [rule |-> rows.rule, options |-> rows.options]
        /\ GroupOf(rows).rule = rows.rule /\ GroupOf(rows).options = rows.options
    BY <1>5, <1>6 DEF GroupOf
  <2>2. GroupOf(rows) # Shut
    BY <1>1, <2>1, ShutAssumption DEF Groups, Forms
  <2>3. /\ choice \subseteq rows.options /\ Cardinality(choice) <= rows.rule.max
        /\ (rows.rule.required => choice # {}) /\ Cardinality(choice) >= rows.rule.min
    BY <1>4, <2>1, <2>2 DEF Fits, FormAccepts
  <2>4. choice \cap rows.options = choice
    BY <2>3
  <2>5. OptionsAccepted(rows, choice)
    BY <1>6, <2>3, <2>4 DEF OptionsAccepted, RuleAccepts
  <2>6. QED BY <1>3, <1>4, <2>5 DEF choice
<1>7. CASE ~rows.grouped \/ ~rows.offered
  <2>1. GroupOf(rows) = Shut /\ choice = {}
    BY <1>4, <1>7 DEF GroupOf, Fits
  <2>2. OptionsAccepted(rows, choice)
    BY <1>7, <2>1 DEF OptionsAccepted, RuleAccepts, HiddenGroupDemands
  <2>3. QED BY <1>3, <1>4, <2>2 DEF choice
<1>8. QED BY <1>6, <1>7

\* Nothing else answers an addition.
LEMMA OnlyAddItemRefuses ==
  ASSUME ReaderTypes, [MenuNext]_menuVars, NEW c \in Readers,
         add[c] # Shut, add[c].pc = "sent", add'[c] # Shut, add'[c].pc = "refused"
  PROVE  AddItem(c)
<1>1. CASE UNCHANGED add
  BY <1>1
<1>2. ASSUME NEW d \in Readers, OpenMenu(d) \/ StoreMenu(d) \/ OpenItem(d) \/ PickOption(d) \/ CloseItem(d)
      PROVE  UNCHANGED add
  BY <1>2 DEF OpenMenu, StoreMenu, OpenItem, PickOption, CloseItem
<1>3. ASSUME NEW d \in Readers, PressAdd(d)
      PROVE  FALSE
  <2>1. add[d] = Shut /\ (UNCHANGED add \/ \E new : add' = [add EXCEPT ![d] = new])
    BY <1>3 DEF PressAdd
  <2>2. d # c => add'[c] = add[c]
    BY <2>1 DEF ReaderTypes
  <2>3. QED BY <2>1, <2>2
<1>4. ASSUME NEW d \in Readers, SettleAdd(d)
      PROVE  FALSE
  BY <1>4 DEF SettleAdd, ReaderTypes
<1>5. ASSUME NEW d \in Readers, AddItem(d), d # c
      PROVE  FALSE
  BY <1>5 DEF AddItem, ReaderTypes
<1>6. CASE ExpireMenu \/ TurnClock \/ UNCHANGED menuVars
  BY <1>1, <1>6 DEF ExpireMenu, TurnClock, menuVars, readerVars
<1>7. ASSUME NEW s \in Staff,
             \/ OpenDesk(s) \/ ToggleSoldOut(s)
             \/ CreateItem(s) \/ SaveItem(s) \/ DeleteItem(s)
             \/ CreateGroup(s) \/ SaveGroup(s) \/ DeleteGroup(s) \/ AddOption(s) \/ DropOption(s)
             \/ CreateCategory(s) \/ EditCategory(s) \/ DeleteCategory(s) \/ ReorderCategories(s)
             \/ Admit(s) \/ Write(s) \/ Commit(s) \/ Notify(s) \/ SettleChange(s)
             \/ ServeReload(s) \/ ShowReload(s)
      PROVE  UNCHANGED add
  <2>1. UNCHANGED readerVars
    BY <1>7, StaffLeaveReaders
  <2>2. QED BY <2>1 DEF readerVars
<1>8. QED BY <1>1, <1>2, <1>3, <1>4, <1>5, <1>6, <1>7 DEF MenuNext

\* The server refuses what the form accepted only for a menu that was changed, for
\* the hour, or for a group switched off that still demands a choice
\* (useItemDetailForm, CartOptionValidator, MenuItem::ensureAvailableNow).
THEOREM FormIsRefusedForAReason == MenuSpec => RefusedForAReason
<1> DEFINE Reason(c) == add[c].menu # MenuOf(rows) \/ ~Sells(rows.hours) \/ HiddenGroupDemands
           Refused == \A c \in Readers : add[c] # Shut /\ add[c].pc = "sent" /\ add'[c] # Shut /\ add'[c].pc = "refused"
                                           => Reason(c)
<1>1. ASSUME MenuInv, [MenuNext]_menuVars, NEW c \in Readers, add[c] # Shut, add[c].pc = "sent", add'[c] # Shut,
             add'[c].pc = "refused"
      PROVE  Reason(c)
  <2>1. ReaderTypes /\ StaffInv /\ ReaderInv
    BY <1>1 DEF MenuInv, ReaderInv
  <2>2. AddItem(c)
    BY <1>1, <2>1, OnlyAddItemRefuses
  <2>3. ~(/\ rows.item = "there" /\ rows.active /\ ~rows.soldOut /\ Sells(rows.hours)
          /\ OptionsAccepted(rows, add[c].picked))
    BY <1>1, <2>1, <2>2 DEF AddItem, ReaderTypes
  <2>4. QED BY <1>1, <2>1, <2>3, FormIsEnough
<1>2. MenuInv /\ [MenuNext]_menuVars => [Refused]_menuVars
  BY <1>1
<1>3. QED BY <1>2, MenuStarts, MenuStep, PTL DEF MenuSpec, RefusedForAReason
=============================================================================
