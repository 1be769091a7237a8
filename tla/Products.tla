------------------------------ MODULE Products ------------------------------
(***************************************************************************)
(* A product, its versions and its prices (payments): administrators edit  *)
(* it on the pages of the product, of a time slot and of a customer group, *)
(* while customers order it.  The row of a product never changes: a save   *)
(* archives it and adds a version, and orders keep the version they know.  *)
(*                                                                         *)
(* A page and an order read at the start of a request and write at its     *)
(* end; what is written then is one step.  One product that is not         *)
(* deleted, at most one price of it per customer group.                    *)
(***************************************************************************)
EXTENDS Pricing, Sequences

CONSTANTS
    Order, Admin,
    Span,       \* times of day that slots are given
    Asked,      \* times of day that are ordered
    ListPrice, SlotPrices, GroupPrices, \* of versions, of slots, of groups
    MaxVersion, \* bound: versions of the product
    MaxRows     \* bound: slots that one request edits, deletes and adds

\* What the constants have to be
ProductAssumption ==
    /\ Span \cup Asked \subseteq {t \in Nat \X Nat : t[1] < t[2]}
    /\ ListPrice \cup SlotPrices \cup GroupPrices \subseteq Nat
    /\ MaxVersion \in Nat \ {0} /\ MaxRows \in Nat
    /\ None \notin GroupPrices /\ None \notin Group /\ None \notin Asked

VARIABLES
    fixed,    \* Product.price_type, chosen once
    versions, \* default price of each version; the last is current, the others are archived
    slots,    \* TimeSlotPrice rows with their CustomerGroupTimeSlotPrice rows
    groups,   \* the ProductCustomerGroup row of a group
    orders,   \* order lines with their OrderCustomerGroupData
    form,     \* the request of each administrator: the version and the slots it has read
    struck    \* history: orders whose version lost a slot, or got a price for their group

vars == <<fixed, versions, slots, groups, orders, form, struck>>

Current == Len(versions)
Live == {s \in slots : ~s.archived}

GroupPrice == [Group -> GroupPrices \cup {None}]
SlotRow == [v : 1 .. MaxVersion, begin : Nat, end : Nat, price : SlotPrices,
            archived : BOOLEAN, groups : GroupPrice]
OrderLine == [v : 1 .. MaxVersion, group : Group \cup {None}, range : Asked \cup {None},
              base : ListPrice \cup GroupPrices \cup {None}, based : BOOLEAN, quote : Nat]

Init ==
    /\ fixed \in BOOLEAN
    /\ versions \in {<<p>> : p \in ListPrice}
    /\ slots = {}
    /\ groups = [g \in Group |-> None]
    /\ orders = [o \in Order |-> None]
    /\ form = [a \in Admin |-> None]
    /\ struck = {}

-----------------------------------------------------------------------------
(* Orders *)

HasPrice(v, g) == g # None /\ groups[g] # None /\ groups[g].v = v

SlotsOf(v) == {s \in slots : s.v = v}

\* The product's groups, or the one the order was placed for
Known(line) == HasPrice(line.v, line.group) \/ (line.group # None /\ line.based)

\* OrderLine.get_price: the version's price type, slots and groups as they are now
PriceOf(line) ==
    TotalPrice(fixed, SlotsOf(line.v), line.range[1], line.range[2], line.group, Known(line),
               line.base)

\* The product is looked up; a customer may have no group to choose from
Basket(o) ==
    /\ orders[o] = None
    /\ \E g \in Group \cup {None} :
          orders' = [orders EXCEPT ![o] = [v |-> Current, group |-> g, range |-> None,
                                           base |-> None, based |-> FALSE, quote |-> 0]]
    /\ UNCHANGED <<fixed, versions, slots, groups, form, struck>>

\* The order is stored, and what has to be paid is sent to the payment provider
Place(o) ==
    /\ orders[o] # None /\ orders[o].range = None
    /\ \E range \in Asked :
          LET line == orders[o]
              based == HasPrice(line.v, line.group)
              placed == [line EXCEPT !.range = range, !.based = based,
                             !.base = IF based THEN groups[line.group].price
                                               ELSE versions[line.v]]
          IN  orders' = [orders EXCEPT ![o] = [placed EXCEPT !.quote = PriceOf(placed)]]
    /\ UNCHANGED <<fixed, versions, slots, groups, form, struck>>

Placed == {o \in Order : orders[o] # None /\ orders[o].range # None}

-----------------------------------------------------------------------------
(* What an administrator sends *)

Row(span, price) == [begin |-> span[1], end |-> span[2], price |-> price]
Rows == {Row(span, price) : span \in Span, price \in SlotPrices}
Same(s, t) == s.begin = t.begin /\ s.end = t.end

Clash(s, t) == IF fixed THEN Same(s, t) ELSE s.begin < t.end /\ t.begin < s.end

\* The request reads the current version and its slots
Open(a) ==
    /\ form[a] = None
    /\ form' = [form EXCEPT ![a] = [v |-> Current, rows |-> Live]]
    /\ UNCHANGED <<fixed, versions, slots, groups, orders, struck>>

\* TimeSlotPrice.clean: a row is checked against the other rows that there are, and not against
\* those that are sent with it
Fits(row, others) == \A s \in others : ~Clash(s, row)

\* Each row of a page is checked, edited or not, unless it is to be deleted
Valid(read, edited, to) ==
    \A s \in read :
        IF s \notin edited THEN Fits(s, read \ {s})
        ELSE to[s] # None => Fits(to[s], read \ {s})

\* The prices of groups that change with it
Deals == UNION {[G -> GroupPrices \cup {None}] : G \in SUBSET Group}

-----------------------------------------------------------------------------
(* Saves *)

\* (mutant) the archived version keeps no slots
MutCopies == {}

\* Product.save: the old version keeps copies of its slots
Copies == {[s EXCEPT !.archived = TRUE] : s \in Live}

\* (mutant) slots stay where they were
MutHome == Current

\* The version that live slots are saved with: current() once the product is saved
Home == Current + 1

\* Product.save: the prices of groups move to the new version
Moved(g) ==
    IF HasPrice(Current, g) THEN [groups[g] EXCEPT !.v = Current + 1] ELSE groups[g]

NoGroups == [g \in Group |-> None]

\* A row that is still there keeps its prices of groups
GroupsOf(s) == IF s \in Live THEN s.groups ELSE NoGroups

Slot(row, gs) ==
    [v |-> Home, begin |-> row.begin, end |-> row.end, price |-> row.price,
     archived |-> FALSE, groups |-> gs]

Archived == slots \ Live

\* (mutant) versions may be archived at one time
MutMaySave(a) == form[a] # None /\ Current < MaxVersion

\* unique_together = ('archived_at', 'product_id')
MaySave(a) == form[a] # None /\ form[a].v = Current /\ Current < MaxVersion

Done(a) == form' = [form EXCEPT ![a] = None]

\* ProductAdmin: the product, then its slots as they were read and edited, then new ones and
\* changed groups
SaveProduct(a) ==
    /\ MaySave(a)
    /\ \E price \in ListPrice : versions' = Append(versions, price)
    /\ LET read == form[a].rows IN
       \E edited \in SUBSET read, new \in SUBSET {row \in Rows : Fits(row, read)} :
          /\ Cardinality(edited) + Cardinality(new) <= MaxRows
          /\ \E to \in [edited -> Rows \cup {None}] :
                /\ Valid(read, edited, to)
                /\ slots' = (slots \ read) \cup Copies
                            \cup {Slot(s, GroupsOf(s)) : s \in read \ edited}
                            \cup {Slot(to[s], GroupsOf(s)) : s \in {t \in edited : to[t] # None}}
                            \cup {Slot(row, NoGroups) : row \in new}
    /\ \E deals \in Deals :
          groups' = [g \in Group |->
              IF g \notin DOMAIN deals THEN Moved(g)
              ELSE IF deals[g] = None THEN None ELSE [v |-> Current + 1, price |-> deals[g]]]
    /\ Done(a)
    /\ UNCHANGED <<fixed, orders, struck>>

\* TimeSlotPriceAdmin.save_model: the product, then its live slots, then this one, which the page
\* edits or adds
SaveSlot(a) ==
    /\ MaySave(a)
    /\ versions' = Append(versions, versions[Current])
    /\ \E old \in {{}} \cup {{s} : s \in form[a].rows}, row \in Rows, gs \in GroupPrice :
          /\ Fits(row, form[a].rows \ old)
          /\ slots' = Archived \cup Copies
                      \cup {[s EXCEPT !.v = Home] : s \in Live \ old} \cup {Slot(row, gs)}
    /\ groups' = [g \in Group |-> Moved(g)]
    /\ Done(a)
    /\ UNCHANGED <<fixed, orders, struck>>

Unbased(v, g) == {o \in Placed : orders[o].v = v /\ orders[o].group = g /\ ~orders[o].based}

\* ProductCustomerGroupAdmin: the row is saved with the version its page showed
SaveGroup(a) ==
    /\ form[a] # None
    /\ \E g \in Group, p \in GroupPrices :
          /\ groups' = [groups EXCEPT ![g] = [v |-> form[a].v, price |-> p]]
          /\ struck' = struck \cup Unbased(form[a].v, g)
    /\ Done(a)
    /\ UNCHANGED <<fixed, versions, slots, orders>>

\* Another version has become current: the database refuses a second one
Refused(a) ==
    /\ form[a] # None /\ form[a].v # Current
    /\ Done(a)
    /\ UNCHANGED <<fixed, versions, slots, groups, orders, struck>>

\* Deleted on its own page: no version is added
DeleteSlot ==
    /\ \E s \in Live :
          /\ slots' = slots \ {s}
          /\ struck' = struck \cup {o \in Placed : orders[o].v = s.v}
    /\ UNCHANGED <<fixed, versions, groups, orders, form>>

DeleteGroup ==
    /\ \E g \in Group : groups[g] # None /\ groups' = [groups EXCEPT ![g] = None]
    /\ UNCHANGED <<fixed, versions, slots, orders, form, struck>>

Next ==
    \/ \E o \in Order : Basket(o) \/ Place(o)
    \/ \E a \in Admin : Open(a) \/ SaveProduct(a) \/ SaveSlot(a) \/ SaveGroup(a) \/ Refused(a)
    \/ DeleteSlot
    \/ DeleteGroup

Spec == Init /\ [][Next]_vars

-----------------------------------------------------------------------------
\* Every variable holds what the tables and requests may hold.
TypeOK ==
    /\ fixed \in BOOLEAN
    /\ versions \in UNION {[1 .. n -> ListPrice] : n \in 1 .. MaxVersion}
    /\ \A s \in slots : s \in SlotRow /\ s.v <= Current
    /\ groups \in [Group -> [v : 1 .. Current, price : GroupPrices] \cup {None}]
    /\ \A o \in Order : orders[o] = None \/ (orders[o] \in OrderLine /\ orders[o].v <= Current)
    /\ \A a \in Admin : form[a] = None \/ form[a].v <= Current
    /\ struck \in SUBSET Placed

\* Slots of different times: of two that one request has given the same time, the database
\* chooses which is first, each time anew
Apart(S) == \A s, t \in S : s # t => ~Same(s, t)

\* What an order costs is what its customer was asked to pay, whatever administrators save
\* afterwards: its version, the archived copies of slots and the stored price of its group hold
\* it.  Two edits that add no version break this: a slot deleted on its own page, and a price
\* given to the order's group on the version it holds (the archive of Product.save and
\* TimeSlotPriceAdmin.save_model, payments/models.py:389 and payments/admin.py:43).
PriceKept ==
    \A o \in Placed \ struck :
        Apart(SlotsOf(orders[o].v)) => PriceOf(orders[o]) = orders[o].quote

\* The slots that are in force belong to the version that new orders get: no save, on whichever
\* page and from whatever was read before, leaves a slot on an archived version
\* (payments/admin.py:43, 66).
SlotsFollow == \A s \in Live : s.v = Current

\* A slot that is in force at the time of s
Kept(s) == \E t \in Live : Same(s, t)

\* A slot that keeps its time never comes to clash with one that is added or moved, though each
\* request checks its rows against what it has read before another is saved: the versions make the
\* second one fail.  Rows of one request may clash, as they are not checked against each other
\* (TimeSlotPrice.clean, payments/models.py:119; unique_together, :375).
KeptStayClear ==
    [][\A s, t \in Live' : s # t /\ Clash(s, t) => (Kept(s) <=> Kept(t))]_vars

\* A price in detail adds up to the price: the two computations agree about which slot a part of
\* the time is charged by (payments/models.py:445, 497).
DetailsAddUp ==
    \A v \in {n \in 1 .. Current : Apart(SlotsOf(n))}, r \in Asked, g \in Group \cup {None} :
        LET known == HasPrice(v, g)
            default == IF known THEN groups[g].price ELSE versions[v]
        IN  DetailTotal(Detail(fixed, SlotsOf(v), r[1], r[2], g, known, default)) =
            TotalPrice(fixed, SlotsOf(v), r[1], r[2], g, known, default)
=============================================================================
