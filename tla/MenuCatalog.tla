---------------------------- MODULE MenuCatalog ----------------------------
(***************************************************************************)
(* A shop's menu: staff edit it on several devices at once, customers read  *)
(* it through a cache and choose from what they read.  A change is a        *)
(* transaction that drops the cached menu before it commits, and one of an  *)
(* item drops it again afterwards; a drop that fails is logged and no more. *)
(* Whoever finds no cached menu builds one from the committed rows and      *)
(* stores it.  The cache is a table of the shop's own database, where a     *)
(* drop is part of the transaction, or a memory of its own, where it is     *)
(* seen at once.  The form checks a choice against the menu on the page,    *)
(* the server against the rows.                                            *)
(*                                                                         *)
(* One item, one category, one option group.  Names, prices, allergens and  *)
(* the order of things are left out: changing only them is a change that    *)
(* drops the cached menu and nothing else.  Of days and times an item keeps *)
(* when it sells: always, by day or never.  Filling in a form and sending   *)
(* it are one step, for nobody else sees a half-filled form.  The queries   *)
(* of a build read one state of the rows.                                   *)
(***************************************************************************)
EXTENDS Naturals, FiniteSets

CONSTANTS
    Staff,      \* devices of the shop
    Readers,    \* browsers of customers; each shows the menu
    Options,    \* options the group can have
    Rules,      \* [required, min, max] staff give the group
    Shut,       \* no menu, no group on it, no request
    MaxSteps    \* bound: changes asked for, additions, the cached menu's hour run
                \* out, night fallen or day broken, together

\* withValidator of the option group's requests
ASSUME RulesAssumption ==
    /\ Rules \subseteq [required : BOOLEAN, min : Nat, max : Nat]
    /\ \A r \in Rules : r.min <= r.max /\ r.max >= 1
ASSUME MenuBounds == MaxSteps \in Nat /\ IsFiniteSet(Staff) /\ IsFiniteSet(Options)

VARIABLES
    rows,       \* the committed rows
    daytime,    \* the hour by the shop's clock
    store,      \* CACHE_STORE: where the cache is kept
    cached,     \* the entry of MenuCacheKeys::menu
    building,   \* reader -> the menu it has built and not yet stored
    page,       \* reader -> the menu on the page
    dialog,     \* reader -> ItemDetailModal is open
    picked,     \* reader -> selectedOptionsByGroup
    add,        \* reader -> its addition under way
    desk,       \* device -> the rows its page was made from
    asked,      \* device -> loads of its list the server has not answered
    lists,      \* device -> the answers on their way
    change,     \* device -> the request under way
    told,       \* device -> what the last toast said of the item, or Shut
    blind,      \* history: a toggle was asked for on a list that was not, or did not stay, right
    undone,     \* history: changes whose drop failed, or a menu was stored since
    overlapped, \* history: builds under way as a change committed
    excused,    \* history: the cached menu comes of one of these
    steps

shelfVars  == <<rows, daytime, store, cached, building>>
readerVars == <<page, dialog, picked, add>>
staffVars  == <<desk, asked, lists, change, told, blind>>
raceVars   == <<undone, overlapped, excused>>
menuVars   == <<shelfVars, readerVars, staffVars, raceVars, steps>>

-----------------------------------------------------------------------------
\* Rows and what customers see of them.  A row is there, gone, or unborn: it may
\* be created later.

Hours == {"always", "daytime", "never"}
Stages == {"there", "gone", "unborn"}
Forms ==
    [item : Stages, active : BOOLEAN, soldOut : BOOLEAN, hours : Hours, listed : BOOLEAN, grouped : BOOLEAN,
     category : Stages, shown : BOOLEAN, group : Stages, offered : BOOLEAN, rule : Rules,
     options : SUBSET Options, spare : SUBSET Options]

\* What a customer sees of a group, and of the menu.
Groups == [rule : Rules, options : SUBSET Options]
Menus  == [soldOut : BOOLEAN, hours : Hours, group : Groups \cup {Shut}]

\* What staff ask for.
Changes ==
    {"soldOut", "createItem", "saveItem", "deleteItem", "createGroup", "saveGroup", "deleteGroup", "addOption",
     "dropOption", "createCategory", "saveCategory", "deleteCategory", "reorder"}
Requests ==
    [op : Changes, form : Forms, pc : {"sent", "admitted", "written", "committed", "done", "refused"},
     seen : BOOLEAN \cup {Shut}]

ASSUME ShutAssumption == Shut \notin Menus /\ Shut \notin Groups /\ Shut \notin Requests

\* formatOptionGroup: a group, its rule and its options, or nothing.
GroupOf(r) == IF r.grouped /\ r.group = "there" /\ r.offered
              THEN [rule |-> r.rule, options |-> r.options] ELSE Shut

\* buildMenuData: active categories, their active items, their active groups.
MenuOf(r) == IF r.category = "there" /\ r.shown /\ r.item = "there" /\ r.active /\ r.listed
             THEN [soldOut |-> r.soldOut, hours |-> r.hours, group |-> GroupOf(r)] ELSE Shut

\* isWithinTimeRange and the day's flag
Sells(hours) == hours = "always" \/ (hours = "daytime" /\ daytime)

\* recalculateAvailability: the menu as it is sent, with what sells now.
Sent(menu) == IF menu = Shut THEN Shut ELSE [menu |-> menu, available |-> ~menu.soldOut /\ Sells(menu.hours)]

\* The menu in full, and before its item, its group or its category was made.
Full(rule) ==
    [item |-> "there", active |-> TRUE, soldOut |-> FALSE, hours |-> "daytime", listed |-> TRUE, grouped |-> TRUE,
     category |-> "there", shown |-> TRUE, group |-> "there", offered |-> TRUE, rule |-> rule,
     options |-> Options, spare |-> {}]
Opening ==
    UNION {LET full == Full(r)
               bare == [full EXCEPT !.item = "unborn", !.listed = FALSE, !.grouped = FALSE] IN
           {full, bare, [bare EXCEPT !.category = "unborn"],
            [full EXCEPT !.grouped = FALSE, !.group = "unborn", !.options = {}, !.spare = Options]}
          : r \in Rules}

MenuInit ==
    /\ rows \in Opening
    /\ daytime = TRUE /\ store \in {"database", "memory"} /\ cached = Shut
    /\ building = [c \in Readers |-> Shut]
    /\ page = [c \in Readers |-> Shut] /\ dialog = [c \in Readers |-> FALSE]
    /\ picked = [c \in Readers |-> {}] /\ add = [c \in Readers |-> Shut]
    /\ desk = [s \in Staff |-> rows] /\ asked = [s \in Staff |-> 0] /\ lists = [s \in Staff |-> {}]
    /\ change = [s \in Staff |-> Shut] /\ told = [s \in Staff |-> Shut]
    /\ blind = [s \in Staff |-> FALSE]
    /\ undone = {} /\ overlapped = {} /\ excused = FALSE /\ steps = 0

\* The rows a change locks until it commits.
Locks(op) ==
    CASE op = "soldOut" -> {"item"}
      [] op \in {"createItem", "saveItem", "deleteItem"} -> {"item", "links"}
      [] op \in {"createGroup", "saveGroup"} -> {"group"}
      [] op \in {"addOption", "dropOption"} -> {"options"}
      [] op = "deleteGroup" -> {"group", "options", "links"}
      [] op \in {"createCategory", "saveCategory", "reorder"} -> {"category"}
      [] op = "deleteCategory" -> {"category", "links"}

Written(s) == change[s] # Shut /\ change[s].pc = "written"

\* A drop in a transaction on the database holds the entry until the commit.
Held == store = "database" /\ \E s \in Staff : Written(s) /\ s \notin undone

-----------------------------------------------------------------------------
\* The reader's side.

\* getMenu: Cache::remember answers with the cached menu or builds one.
OpenMenu(c) ==
    /\ building[c] = Shut /\ add[c] = Shut
    /\ IF cached # Shut
       THEN page' = [page EXCEPT ![c] = Sent(cached.menu)] /\ UNCHANGED building
       ELSE building' = [building EXCEPT ![c] = [menu |-> MenuOf(rows)]] /\ page' = [page EXCEPT ![c] = Shut]
    /\ dialog' = [dialog EXCEPT ![c] = FALSE] /\ picked' = [picked EXCEPT ![c] = {}]
    /\ UNCHANGED <<rows, daytime, store, cached, add, staffVars, raceVars, steps>>

\* ... and stores what it built.
StoreMenu(c) ==
    /\ building[c] # Shut /\ ~Held
    /\ cached' = building[c] /\ page' = [page EXCEPT ![c] = Sent(building[c].menu)]
    /\ building' = [building EXCEPT ![c] = Shut]
    /\ undone' = undone \cup {s \in Staff : Written(s)}
    /\ excused' = (c \in overlapped) /\ overlapped' = overlapped \ {c}
    /\ UNCHANGED <<rows, daytime, store, dialog, picked, add, staffVars, steps>>

\* CACHE_TTL
ExpireMenu ==
    /\ cached # Shut /\ steps < MaxSteps
    /\ cached' = Shut /\ excused' = FALSE /\ steps' = steps + 1
    /\ UNCHANGED <<rows, daytime, store, building, readerVars, staffVars, undone, overlapped>>

\* Night falls, or day breaks.
TurnClock ==
    /\ steps < MaxSteps
    /\ daytime' = ~daytime /\ steps' = steps + 1
    /\ UNCHANGED <<rows, store, cached, building, readerVars, staffVars, raceVars>>

\* handleItemClick of the card and of the page; the effect of useItemDetailForm.
OpenItem(c) ==
    /\ page[c] # Shut /\ page[c].available /\ ~dialog[c]
    /\ dialog' = [dialog EXCEPT ![c] = TRUE] /\ picked' = [picked EXCEPT ![c] = {}]
    /\ UNCHANGED <<shelfVars, page, add, staffVars, raceVars, steps>>

\* OptionGroupSelector: one replaces the other, or as many as max_select allows.
Picks(group, old) ==
    IF group.rule.max = 1 THEN {{o} : o \in group.options}
    ELSE {old \ {o} : o \in old} \cup
         {old \cup {o} : o \in IF Cardinality(old) < group.rule.max THEN group.options ELSE {}}

PickOption(c) ==
    /\ dialog[c] /\ page[c].menu.group # Shut
    /\ \E new \in Picks(page[c].menu.group, picked[c]) : picked' = [picked EXCEPT ![c] = new]
    /\ UNCHANGED <<shelfVars, page, dialog, add, staffVars, raceVars, steps>>

\* Mutant: only the number counts.
FormCounts(group, choice) == IF group = Shut THEN TRUE ELSE Cardinality(choice) >= group.rule.min

\* isValid
FormAccepts(group, choice) ==
    IF group = Shut THEN TRUE
    ELSE (group.rule.required => choice # {}) /\ Cardinality(choice) >= group.rule.min

\* handleAddToCart of the form and of the page: the dialog closes at once; a
\* guest is sent to log in and comes back to a new page.
PressAdd(c) ==
    /\ dialog[c] /\ add[c] = Shut /\ steps < MaxSteps
    /\ FormAccepts(page[c].menu.group, picked[c])
    /\ dialog' = [dialog EXCEPT ![c] = FALSE]
    /\ \/ /\ add' = [add EXCEPT ![c] = [pc |-> "sent", picked |-> picked[c], menu |-> page[c].menu]]
          /\ steps' = steps + 1 /\ UNCHANGED page
       \/ page' = [page EXCEPT ![c] = Shut] /\ UNCHANGED <<add, steps>>
    /\ UNCHANGED <<shelfVars, picked, staffVars, raceVars>>

CloseItem(c) ==
    /\ dialog[c]
    /\ dialog' = [dialog EXCEPT ![c] = FALSE]
    /\ UNCHANGED <<shelfVars, page, picked, add, staffVars, raceVars, steps>>

\* validateOptionSelection, for every group of the item, active or not
RuleAccepts(r, choice) ==
    LET mine == choice \cap r.options IN
    r.grouped => /\ r.rule.required => mine # {}
                 /\ Cardinality(mine) >= r.rule.min /\ Cardinality(mine) <= r.rule.max

\* validateOptionsForMenuItem: each group's rule, and no option of no group.
OptionsAccepted(r, choice) ==
    RuleAccepts(r, choice) /\ choice \subseteq (IF r.grouped THEN r.options ELSE {})

\* addItem, up to the cart: findOrFail and the lock on the item's row,
\* ensureAvailableNow, the validator.
AddItem(c) ==
    /\ add[c] # Shut /\ add[c].pc = "sent"
    /\ \A s \in Staff : Written(s) => "item" \notin Locks(change[s].op)
    /\ LET taken == /\ rows.item = "there" /\ rows.active /\ ~rows.soldOut /\ Sells(rows.hours)
                    /\ OptionsAccepted(rows, add[c].picked)
       IN add' = [add EXCEPT ![c].pc = IF taken THEN "taken" ELSE "refused"]
    /\ UNCHANGED <<shelfVars, page, dialog, picked, staffVars, raceVars, steps>>

\* The page's answer: success closes whatever dialog is open by then.
SettleAdd(c) ==
    /\ add[c] # Shut /\ add[c].pc # "sent"
    /\ dialog' = [dialog EXCEPT ![c] = @ /\ add[c].pc = "refused"]
    /\ add' = [add EXCEPT ![c] = Shut]
    /\ UNCHANGED <<shelfVars, page, picked, staffVars, raceVars, steps>>

-----------------------------------------------------------------------------
\* The staff's side: the forms.

\* ItemForm's sections.
BasicInfo(f)       == {[f EXCEPT !.active = ~@]}
CategorySelection(f) == IF f.category = "there" THEN {[f EXCEPT !.listed = TRUE]} ELSE {}
Availability(f)    == {[f EXCEPT !.hours = h] : h \in Hours}
AllergenNutrition(f) == {f}
GroupSelection(f)  == IF f.group = "there" THEN {[f EXCEPT !.grouped = ~@]} ELSE {}
ItemForm(f) == UNION {BasicInfo(f), CategorySelection(f), Availability(f), AllergenNutrition(f), GroupSelection(f)}

\* OptionGroupForm, CategoryForm
GroupForm(f)    == {[f EXCEPT !.offered = ~@]} \cup {[f EXCEPT !.rule = r] : r \in Rules}
CategoryForm(f) == {f, [f EXCEPT !.shown = ~@]}

\* A page of the shop's menu is opened anew.
OpenDesk(s) ==
    /\ change[s] = Shut
    /\ desk' = [desk EXCEPT ![s] = rows] /\ asked' = [asked EXCEPT ![s] = 0] /\ lists' = [lists EXCEPT ![s] = {}]
    /\ told' = [told EXCEPT ![s] = Shut]
    /\ UNCHANGED <<shelfVars, readerVars, change, blind, raceVars, steps>>

\* submit of useApiFormSubmission and its kin: one request at a time.
Ask(s, op, form) ==
    /\ change[s] = Shut /\ steps < MaxSteps
    /\ change' = [change EXCEPT ![s] = [op |-> op, form |-> form, pc |-> "sent", seen |-> Shut]]
    /\ told' = [told EXCEPT ![s] = Shut] /\ steps' = steps + 1
    /\ blind' = [blind EXCEPT ![s] = op = "soldOut" /\ form.soldOut # rows.soldOut]
    /\ UNCHANGED <<shelfVars, readerVars, desk, asked, lists, raceVars>>

\* Rows that do not exist yet are created once.
Creates(op) == \E s \in Staff : change[s] # Shut /\ change[s].op = op

\* ItemCard and useMenuItemSoldOut: the request does not say which way.
ToggleSoldOut(s) == desk[s].item = "there" /\ Ask(s, "soldOut", desk[s])

\* Pages/Tenant/Menu/Items: the forms, and the list's delete dialog.
CreateItem(s) ==
    /\ desk[s].item = "unborn" /\ rows.item = "unborn" /\ ~Creates("createItem")
    /\ \E f \in ItemForm([desk[s] EXCEPT !.active = TRUE, !.hours = "always"]) : Ask(s, "createItem", f)
SaveItem(s)   == desk[s].item = "there" /\ \E f \in ItemForm(desk[s]) : Ask(s, "saveItem", f)
DeleteItem(s) == desk[s].item = "there" /\ Ask(s, "deleteItem", desk[s])

\* Pages/Tenant/Menu/OptionGroups
CreateGroup(s) ==
    /\ desk[s].group = "unborn" /\ rows.group = "unborn" /\ ~Creates("createGroup")
    /\ \E f \in GroupForm([desk[s] EXCEPT !.offered = TRUE]) : Ask(s, "createGroup", f)
SaveGroup(s)   == desk[s].group = "there" /\ \E f \in GroupForm(desk[s]) : Ask(s, "saveGroup", f)
DeleteGroup(s) == desk[s].group = "there" /\ Ask(s, "deleteGroup", desk[s])

\* useOptionActions
AddOption(s) ==
    /\ desk[s].group = "there"
    /\ Cardinality({t \in Staff : change[t] # Shut /\ change[t].op = "addOption"}) < Cardinality(rows.spare)
    /\ Ask(s, "addOption", desk[s])
DropOption(s) ==
    /\ desk[s].group = "there"
    /\ \E o \in desk[s].options : Ask(s, "dropOption", [desk[s] EXCEPT !.options = {o}])

\* Pages/Tenant/Menu/Categories: modals and drag and drop.
CreateCategory(s) ==
    /\ desk[s].category = "unborn" /\ rows.category = "unborn" /\ ~Creates("createCategory")
    /\ \E f \in CategoryForm([desk[s] EXCEPT !.shown = TRUE]) : Ask(s, "createCategory", f)
EditCategory(s)   == desk[s].category = "there" /\ \E f \in CategoryForm(desk[s]) : Ask(s, "saveCategory", f)
DeleteCategory(s) == desk[s].category = "there" /\ Ask(s, "deleteCategory", desk[s])
ReorderCategories(s) == desk[s].category = "there" /\ Ask(s, "reorder", desk[s])

-----------------------------------------------------------------------------
\* The server's side of a change.

LinksHold(f) == rows.category = "there" /\ (f.grouped => rows.group = "there")

\* What the route's binding and the request's rules demand of the rows.
Valid(op, f) ==
    CASE op \in {"soldOut", "deleteItem"} -> rows.item = "there"
      [] op = "createItem" -> f.listed /\ LinksHold(f)
      [] op = "saveItem" -> rows.item = "there" /\ f.listed /\ LinksHold(f)
      [] op \in {"createGroup", "createCategory", "reorder"} -> TRUE
      [] op \in {"saveGroup", "deleteGroup", "addOption"} -> rows.group = "there"
      [] op = "dropOption" -> f.options \subseteq rows.options
      [] op = "saveCategory" -> rows.category = "there"
      [] op = "deleteCategory" -> rows.category = "there" /\ ~rows.listed

\* What the foreign keys demand when it is written.
Writable(op, f) ==
    CASE op = "createItem" -> LinksHold(f)
      [] op = "saveItem" -> rows.item = "there" /\ LinksHold(f)
      [] op \in {"saveGroup", "addOption"} -> rows.group = "there"
      [] OTHER -> TRUE

\* Mutant: the whole form is written back, with what it knew of the stock.
SavedWhole(f) == [rows EXCEPT !.active = f.active, !.hours = f.hours, !.grouped = f.grouped, !.soldOut = f.soldOut]

\* update of MenuItemService: what the form of the item sends.
Saved(f) == [rows EXCEPT !.active = f.active, !.hours = f.hours, !.grouped = f.grouped]

\* The rows after the operation; seen is what the binding read.
After(op, f, seen) ==
    CASE op = "soldOut" -> [rows EXCEPT !.soldOut = IF rows.item = "there" THEN ~seen ELSE @]
      [] op = "createItem" -> [rows EXCEPT !.item = "there", !.active = f.active, !.hours = f.hours,
                                           !.soldOut = FALSE, !.listed = TRUE, !.grouped = f.grouped]
      [] op = "saveItem" -> Saved(f)
      [] op = "deleteItem" -> [rows EXCEPT !.item = "gone", !.listed = FALSE, !.grouped = FALSE]
      [] op = "createGroup" -> [rows EXCEPT !.group = "there", !.rule = f.rule, !.offered = f.offered]
      [] op = "saveGroup" -> [rows EXCEPT !.rule = f.rule, !.offered = f.offered]
      [] op = "deleteGroup" -> [rows EXCEPT !.group = "gone", !.options = {}, !.grouped = FALSE]
      [] op = "addOption" -> LET new == CHOOSE o \in rows.spare : TRUE
                              IN [rows EXCEPT !.options = @ \cup {new}, !.spare = @ \ {new}]
      [] op = "dropOption" -> [rows EXCEPT !.options = @ \ f.options]
      [] op = "createCategory" -> [rows EXCEPT !.category = "there", !.shown = f.shown]
      [] op = "saveCategory" -> [rows EXCEPT !.shown = IF rows.category = "there" THEN f.shown ELSE @]
      [] op = "deleteCategory" -> [rows EXCEPT !.category = "gone", !.listed = FALSE]
      [] op = "reorder" -> rows

\* The binding, the rules, and what is read before the transaction.
Admit(s) ==
    /\ change[s] # Shut /\ change[s].pc = "sent"
    /\ change' = [change EXCEPT
                     ![s].pc = IF Valid(change[s].op, change[s].form) THEN "admitted" ELSE "refused",
                     ![s].seen = rows.soldOut]
    /\ UNCHANGED <<shelfVars, readerVars, desk, asked, lists, told, blind, raceVars, steps>>

\* Mutant: one of the operations leaves the cached menu alone.
ForgetUnlessOption(s, op) ==
    \/ /\ undone' = undone \ {s}
       /\ cached' = IF store = "memory" /\ op # "dropOption" THEN Shut ELSE cached
    \/ undone' = undone \cup {s} /\ UNCHANGED cached

\* invalidateMenuCache within the change's transaction: the entry goes, in the
\* database only with the commit and after whoever holds it; or Cache::forget
\* throws, which is caught.
Forget(s, op) ==
    \/ /\ Held => cached = Shut
       /\ undone' = undone \ {s} /\ cached' = IF store = "memory" THEN Shut ELSE cached
    \/ undone' = undone \cup {s} /\ UNCHANGED cached

\* withMenuMutation: the operation, then the cached menu goes, all before the commit.
Write(s) ==
    /\ change[s] # Shut /\ change[s].pc = "admitted"
    /\ \A t \in Staff : Written(t) => Locks(change[t].op) \cap Locks(change[s].op) = {}
    /\ IF Writable(change[s].op, change[s].form)
       THEN change' = [change EXCEPT ![s].pc = "written"] /\ Forget(s, change[s].op)
       ELSE change' = [change EXCEPT ![s].pc = "refused"] /\ UNCHANGED <<cached, undone>>
    /\ excused' = (excused /\ cached' # Shut)
    /\ UNCHANGED <<rows, daytime, store, building, readerVars, desk, asked, lists, told, blind, overlapped, steps>>

\* Operations of MenuItemService fire TenantMenuUpdated once they have committed.
Tells(op) == op \in {"soldOut", "createItem", "saveItem", "deleteItem"}

Commit(s) ==
    /\ Written(s)
    /\ rows' = After(change[s].op, change[s].form, change[s].seen)
    /\ change' = [change EXCEPT ![s].pc = IF Tells(change[s].op) THEN "committed" ELSE "done"]
    /\ cached' = IF store = "database" /\ s \notin undone THEN Shut ELSE cached
    /\ excused' = (cached' # Shut /\ (excused \/ s \in undone))
    /\ overlapped' = overlapped \cup {c \in Readers : building[c] # Shut} /\ undone' = undone \ {s}
    /\ IF change[s].op = "soldOut"
       THEN /\ blind' = [t \in Staff |-> blind[t] \/ (t # s /\ change[t] # Shut /\ change[t].op = "soldOut")]
            /\ told' = [t \in Staff |-> IF t = s THEN told[t] ELSE Shut]
       ELSE UNCHANGED <<blind, told>>
    /\ UNCHANGED <<daytime, store, building, readerVars, desk, asked, lists, steps>>

\* handle of InvalidateMenuCache: the cached menu goes once more, or again does not.
Notify(s) ==
    /\ change[s] # Shut /\ change[s].pc = "committed"
    /\ change' = [change EXCEPT ![s].pc = "done"]
    /\ \/ (Held => cached = Shut) /\ cached' = Shut /\ excused' = FALSE
       \/ UNCHANGED <<cached, excused>>
    /\ UNCHANGED <<rows, daytime, store, building, readerVars, desk, asked, lists, told, blind, undone, overlapped, steps>>

\* onSuccess goes by the item of the page as it was when the button was pressed.
Says(form) == IF form.soldOut THEN "inStock" ELSE "soldOut"

\* The page's answer: a toast, a load of the list is asked for (router.reload, or
\* the visit that follows a form), and the button is free again over the old
\* list; after a refusal, or an answer that was lost, page and form stay.
SettleChange(s) ==
    /\ change[s] # Shut /\ change[s].pc \in {"done", "refused"}
    /\ change' = [change EXCEPT ![s] = Shut] /\ blind' = [blind EXCEPT ![s] = FALSE]
    /\ \/ /\ change[s].pc = "done"
          /\ asked' = [asked EXCEPT ![s] = @ + 1]
          /\ told' = [told EXCEPT ![s] = IF change[s].op = "soldOut" /\ ~blind[s] THEN Says(change[s].form) ELSE Shut]
       \/ UNCHANGED <<asked, told>>
    /\ UNCHANGED <<shelfVars, readerVars, desk, lists, raceVars, steps>>

\* The server answers a load, and the page shows an answer; several are under way
\* at once and come in any order.  A load that fails is one that is never answered.
ServeReload(s) ==
    /\ asked[s] > 0
    /\ asked' = [asked EXCEPT ![s] = @ - 1] /\ lists' = [lists EXCEPT ![s] = @ \cup {rows}]
    /\ UNCHANGED <<shelfVars, readerVars, desk, change, told, blind, raceVars, steps>>

ShowReload(s) ==
    /\ \E list \in lists[s] : desk' = [desk EXCEPT ![s] = list] /\ lists' = [lists EXCEPT ![s] = @ \ {list}]
    /\ UNCHANGED <<shelfVars, readerVars, asked, change, told, blind, raceVars, steps>>

MenuNext ==
    \/ \E c \in Readers :
          \/ OpenMenu(c) \/ StoreMenu(c) \/ OpenItem(c) \/ PickOption(c) \/ PressAdd(c)
          \/ CloseItem(c) \/ AddItem(c) \/ SettleAdd(c)
    \/ ExpireMenu \/ TurnClock
    \/ \E s \in Staff :
          \/ OpenDesk(s) \/ ToggleSoldOut(s)
          \/ CreateItem(s) \/ SaveItem(s) \/ DeleteItem(s)
          \/ CreateGroup(s) \/ SaveGroup(s) \/ DeleteGroup(s) \/ AddOption(s) \/ DropOption(s)
          \/ CreateCategory(s) \/ EditCategory(s) \/ DeleteCategory(s) \/ ReorderCategories(s)
          \/ Admit(s) \/ Write(s) \/ Commit(s) \/ Notify(s) \/ SettleChange(s)
          \/ ServeReload(s) \/ ShowReload(s)

MenuSpec == MenuInit /\ [][MenuNext]_menuVars

-----------------------------------------------------------------------------
\* Properties.

\* A group switched off is on no page, but still demands a choice.
HiddenGroupDemands == rows.grouped /\ ~rows.offered /\ ~RuleAccepts(rows, {})

\* What the form of useItemDetailForm accepts is refused by CartOptionValidator
\* and MenuItem::ensureAvailableNow only if the menu was changed after it was
\* read, the item's hours are over, or a group switched off demands a choice.
RefusedForAReason ==
    [][\A c \in Readers : add[c] # Shut /\ add[c].pc = "sent" /\ add'[c] # Shut /\ add'[c].pc = "refused"
          => add[c].menu # MenuOf(rows) \/ ~Sells(rows.hours) \/ HiddenGroupDemands]_menuVars

\* The same without the last excuse: useItemDetailForm.ts says the form's check
\* is the server's.
FormIsServersCheck ==
    [][\A c \in Readers : add[c] # Shut /\ add[c].pc = "sent" /\ add'[c] # Shut /\ add'[c].pc = "refused"
          => add[c].menu # MenuOf(rows) \/ ~Sells(rows.hours)]_menuVars

\* Cache::remember, withMenuMutation and InvalidateMenuCache: a menu in the cache
\* is that of the rows, unless it was built before a change committed and stored
\* after the change had dropped the cache, or the drop failed; in either case
\* only until the cache is next dropped.
CacheIsCurrent == cached # Shut => cached.menu = MenuOf(rows) \/ excused

\* useMenuItemSoldOut and MenuItemService::toggleSoldOut: a button pressed on a
\* list that was right, and stayed so until the change committed, is followed by
\* a toast that says what the item is now, until it is toggled again.
ToldIsTrue == \A s \in Staff : told[s] # Shut => rows.item = "gone" \/ rows.soldOut = (told[s] = "soldOut")
=============================================================================
