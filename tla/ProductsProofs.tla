--------------------------- MODULE ProductsProofs ---------------------------
(***************************************************************************)
(* For any number of administrators, orders, groups, slots and prices:     *)
(* the slots in force follow the product and do not clash, and an order    *)
(* costs what its customer was asked to pay.                               *)
(*                                                                         *)
(* A price stays the same because what it is the sum of does.  That the    *)
(* parts of a price add up to it takes the sums themselves: induction over *)
(* finite sets, as the least number of elements a counterexample has.      *)
(***************************************************************************)
EXTENDS Products, FiniteSetTheorems, WellFoundedInduction, TLAPS

SlotShape == [v : Nat, begin : Nat, end : Nat, price : SlotPrices, archived : BOOLEAN,
              groups : GroupPrice]

\* A slot once its version is archived
Put(s) == [s EXCEPT !.archived = TRUE]
PutAll(S) == {Put(s) : s \in S}

\* The slots of one version; no two of which, maybe, have one time
Slots(S) == S \subseteq SlotShape /\ \A s \in S : s.begin < s.end
Distinct(S) == Slots(S) /\ Apart(S)

First(S, f) ==
    /\ f \in S
    /\ \A t \in S : f.begin < t.begin \/ (f.begin = t.begin /\ f.end <= t.end)

-----------------------------------------------------------------------------
(* Least elements                                                          *)

LEMMA Least ==
    ASSUME NEW T \in SUBSET Nat, T # {}
    PROVE  \E m \in T : \A k \in T : m <= k
<1>1. \E m \in T : \A k \in T : ~ (<<k, m>> \in OpToRel(<, Nat))
  BY NatLessThanWellFounded, WFMin
<1>2. PICK m \in T : \A k \in T : ~ (<<k, m>> \in OpToRel(<, Nat))
  BY <1>1
<1>3. ASSUME NEW k \in T PROVE m <= k
  <2>1. OpToRel(<, Nat) = {ss \in Nat \X Nat : ss[1] < ss[2]}
    BY Zenon DEF OpToRel
  <2>2. k < m => <<k, m>> \in {ss \in Nat \X Nat : ss[1] < ss[2]}
    OBVIOUS
  <2>3. ~ (<<k, m>> \in {ss \in Nat \X Nat : ss[1] < ss[2]})
    BY Zenon, <1>2, <2>1
  <2> QED
    BY <2>2, <2>3
<1> QED
  BY <1>3

\* Some slot is the first
LEMMA FirstIs ==
    ASSUME NEW S, Slots(S), S # {}
    PROVE  First(S, FirstSlot(S))
<1>1. PICK b \in {s.begin : s \in S} : \A k \in {s.begin : s \in S} : b <= k
  <2>1. {s.begin : s \in S} \in SUBSET Nat /\ {s.begin : s \in S} # {}
    BY DEF Slots, SlotShape
  <2> QED
    BY <2>1, Least
<1> DEFINE U == {s \in S : s.begin = b}
<1>2. PICK e \in {s.end : s \in U} : \A k \in {s.end : s \in U} : e <= k
  <2>1. {s.end : s \in U} \in SUBSET Nat /\ {s.end : s \in U} # {}
    BY <1>1 DEF Slots, SlotShape
  <2> QED
    BY <2>1, Least
<1>3. PICK f \in S : f.begin = b /\ f.end = e
  BY <1>2
<1>4. ASSUME NEW t \in S
      PROVE  f.begin < t.begin \/ (f.begin = t.begin /\ f.end <= t.end)
  <2>1. t.begin \in Nat /\ f.begin \in Nat
    BY DEF Slots, SlotShape
  <2>2. b <= t.begin /\ (t.begin = b => e <= t.end)
    BY <1>1, <1>2
  <2> QED
    BY <1>3, <2>1, <2>2
<1> QED
  BY <1>3, <1>4 DEF First, FirstSlot

\* Of slots of different times only one is
LEMMA FirstUnique ==
    ASSUME NEW S, Distinct(S), NEW f, First(S, f)
    PROVE  FirstSlot(S) = f
<1> DEFINE g == FirstSlot(S)
<1>1. First(S, g)
  BY FirstIs DEF Distinct, First
<1> HIDE DEF g
<1>2. f.begin \in Nat /\ f.end \in Nat /\ g.begin \in Nat /\ g.end \in Nat
  BY <1>1 DEF First, Distinct, Slots, SlotShape
<1>3. Same(f, g)
  BY <1>1, <1>2 DEF First, Same
<1>4. f = g
  BY <1>1, <1>3 DEF First, Distinct, Apart
<1> QED
  BY <1>4 DEF g

-----------------------------------------------------------------------------
(* Archived slots cost the same                                            *)

\* All but the flag stays
LEMMA PutKeeps ==
    ASSUME NEW s \in SlotShape
    PROVE  /\ Put(s) \in SlotShape /\ Put(s).archived = TRUE /\ Put(s).v = s.v
           /\ Put(s).begin = s.begin /\ Put(s).end = s.end
           /\ Put(s).price = s.price /\ Put(s).groups = s.groups
BY DEF Put, SlotShape

LEMMA PutSlots ==
    ASSUME NEW S, Slots(S)
    PROVE  Slots(PutAll(S))
BY PutKeeps DEF Slots, PutAll

LEMMA PutDistinct ==
    ASSUME NEW S, Distinct(S)
    PROVE  Distinct(PutAll(S))
<1>1. \A s \in S : Put(s).begin = s.begin /\ Put(s).end = s.end
  BY PutKeeps DEF Distinct, Slots
<1>2. Apart(PutAll(S))
  BY <1>1 DEF Distinct, Apart, Same, PutAll
<1> QED
  BY <1>2, PutSlots DEF Distinct

LEMMA FirstPut ==
    ASSUME NEW S, Distinct(S), S # {}
    PROVE  FirstSlot(PutAll(S)) = Put(FirstSlot(S)) /\ FirstSlot(S) \in S
<1> DEFINE f == FirstSlot(S)
<1>1. First(S, f)
  BY FirstIs DEF Distinct
<1>2. \A s \in S : Put(s).begin = s.begin /\ Put(s).end = s.end
  BY PutKeeps DEF Distinct, Slots
<1> HIDE DEF f
<1>3. First(PutAll(S), Put(f))
  BY <1>1, <1>2 DEF First, PutAll
<1>4. FirstSlot(PutAll(S)) = Put(f)
  BY <1>3, PutDistinct, FirstUnique
<1> QED
  BY <1>1, <1>4 DEF f, First

\* Some of the slots of a version
LEMMA SomeSlots ==
    ASSUME NEW S, NEW U \in SUBSET S
    PROVE  (Slots(S) => Slots(U)) /\ (Distinct(S) => Distinct(U))
BY DEF Slots, Distinct, Apart

Small(X) == {s \in X : \A t \in X : s.end - s.begin <= t.end - t.begin}

LEMMA SomeSmall ==
    ASSUME NEW S, Slots(S), S # {}
    PROVE  Small(S) # {} /\ Small(S) \in SUBSET S
<1>1. \A s \in S : s.end - s.begin \in Nat
  BY DEF Slots, SlotShape
<1>2. PICK m \in {s.end - s.begin : s \in S} : \A k \in {s.end - s.begin : s \in S} : m <= k
  <2>1. {s.end - s.begin : s \in S} \in SUBSET Nat /\ {s.end - s.begin : s \in S} # {}
    BY <1>1
  <2> QED
    BY <2>1, Least
<1> QED
  BY <1>2 DEF Small

LEMMA SmallestIn ==
    ASSUME NEW S, Slots(S), S # {}
    PROVE  SmallestSlot(S) \in S
<1>1. Small(S) # {} /\ Small(S) \in SUBSET S
  BY SomeSmall
<1>2. First(Small(S), FirstSlot(Small(S)))
  BY <1>1, SomeSlots, FirstIs
<1> QED
  BY <1>1, <1>2 DEF SmallestSlot, Small, First

LEMMA SmallestPut ==
    ASSUME NEW S, Distinct(S), S # {}
    PROVE  SmallestSlot(PutAll(S)) = Put(SmallestSlot(S)) /\ SmallestSlot(S) \in S
<1>1. Small(S) # {} /\ Small(S) \in SUBSET S
  BY SomeSmall DEF Distinct
<1>2. \A s \in S : Put(s).begin = s.begin /\ Put(s).end = s.end
  BY PutKeeps DEF Distinct, Slots
<1>3. Small(PutAll(S)) = PutAll(Small(S))
  BY <1>2 DEF PutAll, Small
<1>4. FirstSlot(PutAll(Small(S))) = Put(FirstSlot(Small(S))) /\ FirstSlot(Small(S)) \in Small(S)
  BY <1>1, SomeSlots, FirstPut
<1> QED
  BY <1>1, <1>3, <1>4 DEF SmallestSlot, Small

\* The slots that a filter lets through
LEMMA PutAround ==
    ASSUME NEW S, Slots(S), NEW b, NEW e
    PROVE  {s \in PutAll(S) : Contains(s, b, e)} = PutAll({s \in S : Contains(s, b, e)})
<1>1. \A s \in S : Contains(Put(s), b, e) <=> Contains(s, b, e)
  BY PutKeeps DEF Slots, Contains
<1> QED
  BY <1>1 DEF PutAll

LEMMA PutPriced ==
    ASSUME NEW S, Slots(S), NEW g
    PROVE  {s \in PutAll(S) : PricedFor(s, g)} = PutAll({s \in S : PricedFor(s, g)})
<1>1. \A s \in S : PricedFor(Put(s), g) <=> PricedFor(s, g)
  BY PutKeeps DEF Slots, PricedFor
<1> QED
  BY <1>1 DEF PutAll

LEMMA FixedPut ==
    ASSUME NEW S, Distinct(S), NEW b, NEW e, NEW g, NEW known \in BOOLEAN, NEW default
    PROVE  FixedPrice(PutAll(S), b, e, g, known, default) = FixedPrice(S, b, e, g, known, default)
<1> DEFINE around == {s \in S : Contains(s, b, e)}
           own == {s \in around : PricedFor(s, g)}
           chosen == Eligible(S, b, e, g, known)
<1>1. around \in SUBSET S /\ own \in SUBSET S /\ Distinct(around)
  BY SomeSlots
<1>2. {s \in PutAll(S) : Contains(s, b, e)} = PutAll(around)
  BY PutAround DEF Distinct
<1>3. {s \in PutAll(around) : PricedFor(s, g)} = PutAll(own)
  BY <1>1, PutPriced DEF Distinct
<1>4. \A X : PutAll(X) = {} <=> X = {}
  BY DEF PutAll
<1>5. chosen = IF own # {} THEN own ELSE IF known THEN {} ELSE around
  BY DEF Eligible
<1>6. Eligible(PutAll(S), b, e, g, known) =
        IF PutAll(own) # {} THEN PutAll(own) ELSE IF known THEN {} ELSE PutAll(around)
  BY <1>2, <1>3 DEF Eligible
<1>7. Eligible(PutAll(S), b, e, g, known) = PutAll(chosen)
  BY <1>4, <1>5, <1>6
<1>8. chosen \in SUBSET S
  BY <1>1, <1>5
<1>9. CASE chosen = {}
  BY <1>4, <1>7, <1>9 DEF FixedPrice
<1>10. CASE chosen # {}
  <2>1. SmallestSlot(PutAll(chosen)) = Put(SmallestSlot(chosen)) /\ SmallestSlot(chosen) \in S
    BY <1>8, <1>10, SomeSlots, SmallestPut
  <2>2. SlotPrice(Put(SmallestSlot(chosen)), g) = SlotPrice(SmallestSlot(chosen), g)
    BY <2>1, PutKeeps DEF Distinct, Slots, SlotPrice, PricedFor
  <2>3. PutAll(chosen) # {}
    BY <1>4, <1>10
  <2> QED
    BY <1>7, <1>10, <2>1, <2>2, <2>3 DEF FixedPrice
<1> QED
  BY <1>9, <1>10

LEMMA ChunkPut ==
    ASSUME NEW S, Distinct(S), NEW c, NEW g, NEW known \in BOOLEAN, NEW default
    PROVE  ChunkPrice(PutAll(S), c, g, known, default) = ChunkPrice(S, c, g, known, default)
<1> DEFINE around == {s \in S : Contains(s, c, c + 1)}
<1>1. {s \in PutAll(S) : Contains(s, c, c + 1)} = PutAll(around)
  BY PutAround DEF Distinct
<1>2. CASE around = {}
  <2>1. PutAll(around) = {}
    BY <1>2 DEF PutAll
  <2> QED
    BY <1>1, <1>2, <2>1 DEF ChunkPrice
<1>3. CASE around # {}
  <2>1. FirstSlot(PutAll(around)) = Put(FirstSlot(around)) /\ FirstSlot(around) \in S
    BY <1>3, SomeSlots, FirstPut
  <2>2. /\ PricedFor(Put(FirstSlot(around)), g) <=> PricedFor(FirstSlot(around), g)
        /\ Put(FirstSlot(around)).groups = FirstSlot(around).groups
        /\ Put(FirstSlot(around)).price = FirstSlot(around).price
    BY <2>1, PutKeeps DEF Distinct, Slots, PricedFor
  <2>3. PutAll(around) # {}
    BY <1>3 DEF PutAll
  <2> QED
    BY <1>1, <1>3, <2>1, <2>2, <2>3 DEF ChunkPrice
<1> QED
  BY <1>2, <1>3

\* Copies in the archive cost what the slots did
LEMMA TotalPut ==
    ASSUME NEW f \in BOOLEAN, NEW S, Distinct(S), NEW b, NEW e, NEW g, NEW known \in BOOLEAN, NEW default
    PROVE  TotalPrice(f, PutAll(S), b, e, g, known, default) = TotalPrice(f, S, b, e, g, known, default)
<1>1. FixedPrice(PutAll(S), b, e, g, known, default) = FixedPrice(S, b, e, g, known, default)
  BY FixedPut
<1>2. \A c \in Chunks(b, e) :
        ChunkPrice(PutAll(S), c, g, known, default) = ChunkPrice(S, c, g, known, default)
  BY ChunkPut
<1>3. [c \in Chunks(b, e) |-> ChunkPrice(PutAll(S), c, g, known, default)] =
      [c \in Chunks(b, e) |-> ChunkPrice(S, c, g, known, default)]
  BY <1>2
<1>4. PutAll(S) = {} <=> S = {}
  BY DEF PutAll
<1> QED
  BY <1>1, <1>3, <1>4 DEF TotalPrice

-----------------------------------------------------------------------------
(* The inductive invariant                                                 *)

GroupRow == [v : Nat, price : GroupPrices]

OfVersion(S, v) == {s \in S : s.v = v}
PlacedIn(O) == {o \in Order : O[o] # None /\ O[o].range # None}
Priced(G, v, g) == g # None /\ G[g] # None /\ G[g].v = v

\* Slots in force are the current version's, archived ones are of versions before it
SlotsInv(S, n) ==
    /\ S \subseteq SlotShape
    /\ \A s \in S : s.begin < s.end /\ s.v <= n
    /\ \A s \in S : IF s.archived THEN s.v < n ELSE s.v = n

\* A request that may still be saved has read every slot in force
FormOf(S, n, x) ==
    /\ x.v \in Nat /\ x.v <= n
    /\ Slots(x.rows) /\ \A r \in x.rows : ~r.archived
    /\ x.v = n => {s \in S : ~s.archived} \subseteq x.rows

FormsInv(S, n, F) ==
    /\ F = [a \in Admin |-> F[a]]
    /\ \A a \in Admin : F[a] # None => FormOf(S, n, F[a])

GroupsInv(G, n) ==
    /\ G \in [Group -> GroupRow \cup {None}]
    /\ \A g \in Group : G[g] # None => G[g].v <= n

LineOf(l, n) ==
    /\ l = [v |-> l.v, group |-> l.group, range |-> l.range, base |-> l.base,
            based |-> l.based, quote |-> l.quote]
    /\ l.v \in Nat /\ l.v <= n
    /\ l.group \in Group \cup {None}
    /\ l.based \in BOOLEAN /\ (l.based => l.group # None)

\* An order that nothing struck knows whether its group has a price
OrdersInv(O, G, n, K) ==
    /\ O = [o \in Order |-> O[o]]
    /\ \A o \in Order : O[o] # None => LineOf(O[o], n)
    /\ K \subseteq PlacedIn(O)
    /\ \A o \in PlacedIn(O) \ K : Priced(G, O[o].v, O[o].group) => O[o].based

Cost(f, S, l) ==
    TotalPrice(f, OfVersion(S, l.v), l.range[1], l.range[2], l.group, l.based, l.base)

\* What was asked for is the price, unless the database has two slots of one time to choose from
QuotesInv(f, S, O, K) ==
    \A o \in PlacedIn(O) \ K :
        Apart(OfVersion(S, O[o].v)) => Cost(f, S, O[o]) = O[o].quote

ProductInv ==
    /\ fixed \in BOOLEAN
    /\ versions \in Seq(Nat) /\ Len(versions) > 0
    /\ SlotsInv(slots, Len(versions))
    /\ FormsInv(slots, Len(versions), form)
    /\ GroupsInv(groups, Len(versions))
    /\ OrdersInv(orders, groups, Len(versions), struck)
    /\ QuotesInv(fixed, slots, orders, struck)

-----------------------------------------------------------------------------
(* What a save does to the slots                                           *)

\* The slots that a save adds
Fresh(N, n) == Slots(N) /\ \A s \in N : s.v = n /\ ~s.archived

After(S, N) == {s \in S : s.archived} \cup PutAll({s \in S : ~s.archived}) \cup N

LEMMA VersionSlots ==
    ASSUME NEW n \in Nat, NEW S, SlotsInv(S, n), NEW v \in Nat
    PROVE  Slots(OfVersion(S, v))
BY DEF SlotsInv, OfVersion, Slots

LEMMA AfterVersions ==
    ASSUME NEW n \in Nat, NEW S, NEW N, SlotsInv(S, n), Fresh(N, n + 1)
    PROVE  /\ \A v \in Nat : v < n => OfVersion(After(S, N), v) = OfVersion(S, v)
           /\ OfVersion(After(S, N), n) = PutAll(OfVersion(S, n))
           /\ OfVersion(After(S, N), n + 1) = N
           /\ \A v \in Nat : v > n + 1 => OfVersion(After(S, N), v) = {}
<1>1. \A s \in S : /\ s \in SlotShape /\ s.v \in Nat /\ s.archived \in BOOLEAN /\ s.v <= n
                   /\ IF s.archived THEN s.v < n ELSE s.v = n
                   /\ Put(s).v = s.v
  BY PutKeeps DEF SlotsInv, SlotShape
<1>2. \A s \in N : s.v = n + 1
  BY DEF Fresh
<1>3. {s \in S : ~s.archived} = OfVersion(S, n)
  BY <1>1 DEF OfVersion
<1>4. \A v \in Nat : v < n => OfVersion(After(S, N), v) = OfVersion(S, v)
  BY <1>1, <1>2 DEF OfVersion, After, PutAll
<1>5. OfVersion(After(S, N), n) = PutAll(OfVersion(S, n))
  BY <1>1, <1>2, <1>3 DEF OfVersion, After, PutAll
<1>6. OfVersion(After(S, N), n + 1) = N
  BY <1>1, <1>2 DEF OfVersion, After, PutAll
<1>7. \A v \in Nat : v > n + 1 => OfVersion(After(S, N), v) = {}
  BY <1>1, <1>2 DEF OfVersion, After, PutAll
<1> QED
  BY <1>4, <1>5, <1>6, <1>7

LEMMA AfterSlots ==
    ASSUME NEW n \in Nat, NEW S, NEW N, SlotsInv(S, n), Fresh(N, n + 1)
    PROVE  SlotsInv(After(S, N), n + 1)
<1>1. \A s \in S : /\ s \in SlotShape /\ Put(s) \in SlotShape
                   /\ Put(s).begin = s.begin /\ Put(s).end = s.end /\ Put(s).v = s.v
                   /\ Put(s).archived = TRUE
                   /\ s.v \in Nat /\ s.v <= n /\ s.begin < s.end
  BY PutKeeps DEF SlotsInv, SlotShape
<1>2. After(S, N) \subseteq SlotShape
  BY <1>1 DEF After, PutAll, Fresh, Slots
<1>3. \A s \in After(S, N) : s.begin < s.end /\ s.v <= n + 1
  BY <1>1 DEF After, PutAll, Fresh, Slots
<1>4. \A s \in After(S, N) : IF s.archived THEN s.v < n + 1 ELSE s.v = n + 1
  BY <1>1 DEF After, PutAll, Fresh, Slots
<1> QED
  BY <1>2, <1>3, <1>4 DEF SlotsInv

\* An order costs as much once its version is archived
LEMMA AfterCost ==
    ASSUME NEW f \in BOOLEAN, NEW n \in Nat, NEW S, NEW N, NEW l,
           SlotsInv(S, n), Fresh(N, n + 1), LineOf(l, n), Apart(OfVersion(After(S, N), l.v))
    PROVE  Apart(OfVersion(S, l.v)) /\ Cost(f, After(S, N), l) = Cost(f, S, l)
<1>1. l.v \in Nat /\ l.v <= n /\ l.based \in BOOLEAN
  BY DEF LineOf
<1>2. CASE l.v < n
  BY <1>1, <1>2, AfterVersions DEF Cost
<1>3. CASE l.v = n
  <2> DEFINE U == OfVersion(S, n)
  <2>1. Slots(U) /\ OfVersion(After(S, N), n) = PutAll(U)
    BY VersionSlots, AfterVersions
  <2>2. \A s \in U : ~s.archived /\ s \in SlotShape
    BY DEF SlotsInv, OfVersion, SlotShape
  <2> HIDE DEF U
  <2>3. \A s, t \in U : Put(s) = Put(t) => s = t
    <3> SUFFICES ASSUME NEW s \in U, NEW t \in U, Put(s) = Put(t) PROVE s = t
      OBVIOUS
    <3>1. s \in SlotShape /\ t \in SlotShape /\ s.archived = FALSE /\ t.archived = FALSE
      BY <2>2 DEF SlotShape
    <3> DEFINE x == Put(s)
    <3>2. /\ x.v = s.v /\ x.begin = s.begin /\ x.end = s.end
          /\ x.price = s.price /\ x.groups = s.groups
      BY <3>1, PutKeeps
    <3>3. x = Put(t)
      OBVIOUS
    <3> HIDE DEF x
    <3>4. /\ x.v = t.v /\ x.begin = t.begin /\ x.end = t.end
          /\ x.price = t.price /\ x.groups = t.groups
      BY <3>1, <3>3, PutKeeps
    <3> QED
      <4>1. s = [v |-> s.v, begin |-> s.begin, end |-> s.end, price |-> s.price,
                 archived |-> s.archived, groups |-> s.groups]
        BY <3>1 DEF SlotShape
      <4>2. t = [v |-> t.v, begin |-> t.begin, end |-> t.end, price |-> t.price,
                 archived |-> t.archived, groups |-> t.groups]
        BY <3>1 DEF SlotShape
      <4> QED
        BY Zenon, <3>1, <3>2, <3>4, <4>1, <4>2
  <2>4. Apart(PutAll(U))
    BY <1>3, <2>1
  <2>5. Apart(U)
    <3> SUFFICES ASSUME NEW s \in U, NEW t \in U, s # t PROVE ~Same(s, t)
      BY DEF Apart
    <3>1. Put(s) \in PutAll(U) /\ Put(t) \in PutAll(U) /\ Put(s) # Put(t)
      BY <2>3 DEF PutAll
    <3>2. ~Same(Put(s), Put(t))
      BY <2>4, <3>1 DEF Apart
    <3> QED
      BY <2>2, <3>2, PutKeeps DEF Same
  <2>6. TotalPrice(f, PutAll(U), l.range[1], l.range[2], l.group, l.based, l.base) =
        TotalPrice(f, U, l.range[1], l.range[2], l.group, l.based, l.base)
    BY <1>1, <2>1, <2>5, TotalPut DEF Distinct
  <2> QED
    BY <1>3, <2>1, <2>5, <2>6 DEF Cost, U
<1> QED
  BY <1>1, <1>2, <1>3

-----------------------------------------------------------------------------
(* Steps *)

LEMMA InitProduct ==
    ASSUME ProductAssumption, Init
    PROVE  ProductInv
<1> DEFINE n == Len(versions)
<1>1. fixed \in BOOLEAN /\ versions \in Seq(Nat) /\ n = 1
  <2>1. PICK p \in ListPrice : versions = <<p>>
    BY DEF Init
  <2> QED
    BY <2>1 DEF Init, ProductAssumption
<1>2. SlotsInv(slots, n)
  BY DEF Init, SlotsInv
<1>3. FormsInv(slots, n, form)
  BY DEF Init, FormsInv
<1>4. GroupsInv(groups, n)
  BY DEF Init, GroupsInv
<1>5. OrdersInv(orders, groups, n, struck)
  BY DEF Init, OrdersInv, PlacedIn
<1>6. QuotesInv(fixed, slots, orders, struck)
  BY DEF Init, QuotesInv, PlacedIn
<1> QED
  BY <1>1, <1>2, <1>3, <1>4, <1>5, <1>6 DEF ProductInv

\* A save is one of a new version: new slots, copies of the old ones, and groups that have moved
LEMMA SaveStep ==
    ASSUME ProductInv, NEW a \in Admin, NEW p \in Nat, NEW N, Fresh(N, Len(versions) + 1),
           versions' = Append(versions, p), slots' = After(slots, N), Done(a),
           GroupsInv(groups', Len(versions) + 1),
           \A g \in Group, v \in Nat :
              v <= Len(versions) /\ Priced(groups', v, g) => Priced(groups, v, g),
           UNCHANGED <<fixed, orders, struck>>
    PROVE  ProductInv'
<1> DEFINE n == Len(versions)
<1>1. fixed \in BOOLEAN /\ versions \in Seq(Nat) /\ n \in Nat /\ SlotsInv(slots, n)
  BY DEF ProductInv
<1>2. versions' \in Seq(Nat) /\ Len(versions') = n + 1 /\ Len(versions') > 0
  BY <1>1
<1>3. SlotsInv(slots', n + 1)
  BY <1>1, AfterSlots
<1>4. FormsInv(slots', n + 1, form')
  <2>1. FormsInv(slots, n, form)
    BY DEF ProductInv
  <2>2. form' = [b \in Admin |-> form'[b]]
    BY <2>1 DEF FormsInv, Done
  <2>3. ASSUME NEW b \in Admin, form'[b] # None PROVE FormOf(slots', n + 1, form'[b])
    <3>1. form'[b] = form[b] /\ form[b] # None
      BY <2>1, <2>3 DEF FormsInv, Done
    <3>2. FormOf(slots, n, form[b])
      BY <2>1, <3>1 DEF FormsInv
    <3> QED
      BY <1>1, <3>1, <3>2 DEF FormOf
  <2> QED
    BY <2>2, <2>3 DEF FormsInv
<1>5. OrdersInv(orders, groups, n, struck)
  BY DEF ProductInv
<1>6. OrdersInv(orders, groups', n + 1, struck)
  <2>1. \A o \in Order : orders[o] # None => LineOf(orders[o], n) /\ LineOf(orders[o], n + 1)
    BY <1>1, <1>5 DEF OrdersInv, LineOf
  <2>2. ASSUME NEW o \in PlacedIn(orders) \ struck, Priced(groups', orders[o].v, orders[o].group)
        PROVE  orders[o].based
    <3>1. /\ orders[o].v \in Nat /\ orders[o].v <= n /\ orders[o].group \in Group \cup {None}
      BY <2>1 DEF PlacedIn, LineOf
    <3>2. orders[o].group \in Group
      BY <2>2, <3>1 DEF Priced
    <3>3. Priced(groups, orders[o].v, orders[o].group)
      BY <2>2, <3>1, <3>2
    <3> QED
      BY <1>5, <3>3 DEF OrdersInv
  <2> QED
    BY <1>5, <2>1, <2>2 DEF OrdersInv
<1>7. QuotesInv(fixed, slots', orders, struck)
  <2> SUFFICES ASSUME NEW o \in PlacedIn(orders) \ struck, Apart(OfVersion(slots', orders[o].v))
               PROVE  Cost(fixed, slots', orders[o]) = orders[o].quote
    BY DEF QuotesInv
  <2>1. LineOf(orders[o], n)
    BY <1>5 DEF OrdersInv, PlacedIn
  <2>2. /\ Apart(OfVersion(slots, orders[o].v))
        /\ Cost(fixed, slots', orders[o]) = Cost(fixed, slots, orders[o])
    BY <1>1, <2>1, AfterCost
  <2> QED
    BY <2>2 DEF ProductInv, QuotesInv
<1> QED
  BY <1>1, <1>2, <1>3, <1>4, <1>6, <1>7 DEF ProductInv

\* The groups' prices that move are of the new version
LEMMA MovedGroups ==
    ASSUME ProductAssumption, ProductInv, NEW g \in Group
    PROVE  /\ Moved(g) \in GroupRow \cup {None}
           /\ Moved(g) # None => Moved(g).v <= Len(versions) + 1
           /\ \A v \in Nat : v <= Len(versions) /\ Moved(g) # None /\ Moved(g).v = v
                              => Priced(groups, v, g)
<1> DEFINE n == Len(versions)
<1>1. /\ groups[g] \in GroupRow \cup {None} /\ n \in Nat
      /\ groups[g] # None => groups[g].v <= n
      /\ g # None
  BY DEF ProductInv, GroupsInv, ProductAssumption
<1>2. CASE HasPrice(n, g)
  <2>1. groups[g] \in GroupRow
    BY <1>1, <1>2 DEF HasPrice
  <2>2. Moved(g) = [groups[g] EXCEPT !.v = n + 1]
    BY <1>2 DEF Moved, Current
  <2>3. Moved(g) \in GroupRow /\ Moved(g).v = n + 1
    BY <1>1, <2>1, <2>2 DEF GroupRow
  <2> QED
    BY <1>1, <2>3
<1>3. CASE ~HasPrice(n, g)
  <2>1. Moved(g) = groups[g]
    BY <1>3 DEF Moved, Current
  <2>2. groups[g] # None => groups[g].v \in Nat
    BY <1>1 DEF GroupRow
  <2> QED
    BY <1>1, <2>1, <2>2 DEF Priced
<1> QED
  BY <1>2, <1>3

\* What is sent becomes slots
LEMMA RowSlots ==
    ASSUME ProductInv, NEW row, NEW gs \in GroupPrice,
           row.begin \in Nat, row.end \in Nat, row.begin < row.end, row.price \in SlotPrices
    PROVE  /\ Slot(row, gs) \in SlotShape /\ ~Slot(row, gs).archived
           /\ Slot(row, gs).v = Len(versions) + 1
           /\ Slot(row, gs).begin = row.begin /\ Slot(row, gs).end = row.end
BY DEF ProductInv, Slot, SlotShape, Home, Current

LEMMA GroupsOfRow ==
    ASSUME ProductInv, NEW s
    PROVE  GroupsOf(s) \in GroupPrice
<1>1. \A t \in Live : t.groups \in GroupPrice
  BY DEF ProductInv, SlotsInv, SlotShape, Live
<1>2. NoGroups \in GroupPrice
  BY DEF GroupPrice, NoGroups
<1> QED
  BY <1>1, <1>2 DEF GroupsOf

LEMMA SentRow ==
    ASSUME ProductAssumption, NEW row \in Rows
    PROVE  /\ row.begin \in Nat /\ row.end \in Nat /\ row.begin < row.end
           /\ row.price \in SlotPrices
<1>1. PICK span \in Span, price \in SlotPrices : row = Row(span, price)
  BY DEF Rows
<1>2. span \in Nat \X Nat /\ span[1] < span[2]
  BY DEF ProductAssumption
<1> QED
  BY <1>1, <1>2 DEF Row

LEMMA Words ==
    /\ Current = Len(versions)
    /\ Archived = {s \in slots : s.archived}
    /\ Live = {s \in slots : ~s.archived}
    /\ Copies = PutAll({s \in slots : ~s.archived})
    /\ \A v, g : HasPrice(v, g) <=> Priced(groups, v, g)
    /\ Placed = PlacedIn(orders)
BY DEF Current, Archived, Live, Copies, PutAll, Put, HasPrice, Priced, Placed, PlacedIn

LEMMA ReadForm ==
    ASSUME ProductInv, NEW a \in Admin, MaySave(a)
    PROVE  /\ Slots(form[a].rows) /\ Live \subseteq form[a].rows
           /\ slots \ form[a].rows = {s \in slots : s.archived}
<1>1. FormOf(slots, Len(versions), form[a])
  BY DEF ProductInv, FormsInv, MaySave
<1>2. Slots(form[a].rows) /\ Live \subseteq form[a].rows /\ \A r \in form[a].rows : ~r.archived
  BY <1>1, Words DEF FormOf, MaySave
<1> QED
  BY <1>2, Words

\* The slots that the page of the product saves
Sent(read, edited, new, to) ==
    {Slot(s, GroupsOf(s)) : s \in read \ edited}
    \cup {Slot(to[s], GroupsOf(s)) : s \in {t \in edited : to[t] # None}}
    \cup {Slot(row, NoGroups) : row \in new}

LEMMA SentFresh ==
    ASSUME ProductAssumption, ProductInv, NEW read, NEW edited \in SUBSET read,
           NEW new \in SUBSET Rows, NEW to \in [edited -> Rows \cup {None}], Slots(read)
    PROVE  Fresh(Sent(read, edited, new, to), Len(versions) + 1)
<1> DEFINE n == Len(versions)
           New(x) == x \in SlotShape /\ x.begin < x.end /\ x.v = n + 1 /\ ~x.archived
<1>1. ASSUME NEW s \in read PROVE New(Slot(s, GroupsOf(s)))
  <2>1. s \in SlotShape /\ s.begin < s.end
    BY DEF Slots
  <2>2. s.begin \in Nat /\ s.end \in Nat /\ s.price \in SlotPrices
    BY <2>1 DEF SlotShape
  <2> QED
    BY <2>1, <2>2, RowSlots, GroupsOfRow
<1>2. \A s : \A row \in Rows : New(Slot(row, GroupsOf(s)))
  BY SentRow, RowSlots, GroupsOfRow
<1>3. \A row \in Rows : New(Slot(row, NoGroups))
  <2>1. NoGroups \in GroupPrice
    BY DEF GroupPrice, NoGroups
  <2> QED
    BY <2>1, SentRow, RowSlots
<1>4. \A s \in edited : to[s] # None => to[s] \in Rows
  OBVIOUS
<1> HIDE DEF New
<1>5. \A x \in Sent(read, edited, new, to) : New(x)
  BY <1>1, <1>2, <1>3, <1>4 DEF Sent
<1> QED
  BY <1>5 DEF Fresh, Slots, New

\* A save of the product as the proofs below read it
LEMMA SentBy ==
    ASSUME NEW a \in Admin, SaveProduct(a)
    PROVE  \E edited, new, to :
              /\ edited \in SUBSET form[a].rows /\ new \in SUBSET Rows
              /\ to \in [edited -> Rows \cup {None}]
              /\ \A row \in new : Fits(row, form[a].rows)
              /\ Valid(form[a].rows, edited, to)
              /\ slots' = (slots \ form[a].rows) \cup Copies
                          \cup Sent(form[a].rows, edited, new, to)
<1> DEFINE read == form[a].rows
<1>1. PICK edited \in SUBSET read, new \in SUBSET {row \in Rows : Fits(row, read)} :
        \E to \in [edited -> Rows \cup {None}] :
           /\ Valid(read, edited, to)
           /\ slots' = (slots \ read) \cup Copies
                    \cup {Slot(s, GroupsOf(s)) : s \in read \ edited}
                    \cup {Slot(to[s], GroupsOf(s)) : s \in {t \in edited : to[t] # None}}
                    \cup {Slot(row, NoGroups) : row \in new}
  BY DEF SaveProduct
<1>2. PICK to \in [edited -> Rows \cup {None}] :
           /\ Valid(read, edited, to)
           /\ slots' = (slots \ read) \cup Copies
                    \cup {Slot(s, GroupsOf(s)) : s \in read \ edited}
                    \cup {Slot(to[s], GroupsOf(s)) : s \in {t \in edited : to[t] # None}}
                    \cup {Slot(row, NoGroups) : row \in new}
  BY <1>1
<1> HIDE DEF read
<1>3. slots' = (slots \ read) \cup Copies \cup Sent(read, edited, new, to)
  BY <1>2 DEF Sent
<1>4. edited \in SUBSET read /\ new \in SUBSET Rows /\ \A row \in new : Fits(row, read)
  OBVIOUS
<1> QED
  BY <1>2, <1>3, <1>4 DEF read

LEMMA SaveProductStep ==
    ASSUME ProductAssumption, ProductInv, NEW a \in Admin, SaveProduct(a)
    PROVE  ProductInv'
<1> DEFINE n == Len(versions)
           read == form[a].rows
<1>1. PICK p \in ListPrice : versions' = Append(versions, p)
  BY DEF SaveProduct
<1>2. PICK edited, new, to :
        /\ edited \in SUBSET read /\ new \in SUBSET Rows
        /\ to \in [edited -> Rows \cup {None}]
        /\ slots' = (slots \ read) \cup Copies \cup Sent(read, edited, new, to)
  BY SentBy
<1> DEFINE N == Sent(read, edited, new, to)
<1>3. fixed \in BOOLEAN /\ n \in Nat
  BY DEF ProductInv
<1>4. Slots(read) /\ slots \ read = {s \in slots : s.archived}
  BY ReadForm DEF SaveProduct
<1>5. Fresh(N, n + 1)
  BY <1>2, <1>4, SentFresh
<1>6. slots' = After(slots, N)
  BY <1>2, <1>4, Words DEF After
<1>7. PICK deals \in Deals :
        groups' = [g \in Group |->
            IF g \notin DOMAIN deals THEN Moved(g)
            ELSE IF deals[g] = None THEN None ELSE [v |-> n + 1, price |-> deals[g]]]
  BY DEF SaveProduct, Current
<1>8. ASSUME NEW g \in Group
      PROVE  /\ groups'[g] \in GroupRow \cup {None}
             /\ groups'[g] # None => groups'[g].v <= n + 1
             /\ \A v \in Nat : v <= n /\ Priced(groups', v, g) => Priced(groups, v, g)
  <2>1. CASE g \notin DOMAIN deals
    <3>1. groups'[g] = Moved(g)
      BY <1>7, <2>1
    <3> QED
      BY <3>1, MovedGroups DEF Priced
  <2>2. CASE g \in DOMAIN deals /\ deals[g] = None
    <3>1. groups'[g] = None
      BY <1>7, <2>2
    <3> QED
      BY <3>1 DEF Priced
  <2>3. CASE g \in DOMAIN deals /\ deals[g] # None
    <3>1. groups'[g] = [v |-> n + 1, price |-> deals[g]]
      BY <1>7, <2>3
    <3>2. deals[g] \in GroupPrices
      BY <2>3 DEF Deals
    <3>3. groups'[g] \in GroupRow /\ groups'[g].v = n + 1
      BY <1>3, <3>1, <3>2 DEF GroupRow
    <3> QED
      BY <1>3, <3>3 DEF Priced
  <2> QED
    BY <2>1, <2>2, <2>3
<1>9. GroupsInv(groups', n + 1)
  BY <1>7, <1>8 DEF GroupsInv
<1>10. p \in Nat
  BY DEF ProductAssumption
<1> QED
  BY <1>1, <1>5, <1>6, <1>8, <1>9, <1>10, SaveStep DEF SaveProduct

LEMMA SaveSlotStep ==
    ASSUME ProductAssumption, ProductInv, NEW a \in Admin, SaveSlot(a)
    PROVE  ProductInv'
<1> DEFINE n == Len(versions)
<1>1. PICK old \in {{}} \cup {{s} : s \in form[a].rows}, row \in Rows, gs \in GroupPrice :
        slots' = Archived \cup Copies
                 \cup {[s EXCEPT !.v = Home] : s \in Live \ old} \cup {Slot(row, gs)}
  BY DEF SaveSlot
<1> DEFINE Move(s) == [s EXCEPT !.v = n + 1]
           one == Slot(row, gs)
           N == {Move(s) : s \in Live \ old} \cup {one}
<1>2. n \in Nat /\ versions \in Seq(Nat) /\ n > 0
  BY DEF ProductInv
<1>3. /\ one \in SlotShape /\ ~one.archived /\ one.v = n + 1
      /\ one.begin < one.end
  BY SentRow, RowSlots
<1>4. \A s \in Live : s \in SlotShape /\ s.begin < s.end /\ ~s.archived
  BY DEF ProductInv, SlotsInv, Live
<1>5. \A s \in Live : /\ Move(s) \in SlotShape /\ Move(s).v = n + 1 /\ ~Move(s).archived
                      /\ Move(s).begin < Move(s).end
  BY <1>2, <1>4 DEF SlotShape
<1>6. Fresh(N, n + 1)
  BY <1>3, <1>5 DEF Fresh, Slots
<1>7. slots' = After(slots, N)
  BY <1>1, Words DEF After, Home
<1>8. groups' = [g \in Group |-> Moved(g)]
  BY DEF SaveSlot
<1>9. GroupsInv(groups', n + 1)
  BY <1>8, MovedGroups DEF GroupsInv
<1>10. \A g \in Group, v \in Nat : v <= n /\ Priced(groups', v, g) => Priced(groups, v, g)
  BY <1>8, MovedGroups DEF Priced
<1>11. versions[n] \in Nat /\ versions' = Append(versions, versions[n])
  BY <1>2 DEF SaveSlot, Current
<1> QED
  BY <1>6, <1>7, <1>9, <1>10, <1>11, SaveStep DEF SaveSlot

LEMMA DoneForms ==
    ASSUME ProductInv, NEW a \in Admin, Done(a)
    PROVE  FormsInv(slots, Len(versions), form')
<1>1. FormsInv(slots, Len(versions), form)
  BY DEF ProductInv
<1>2. form' = [b \in Admin |-> form'[b]]
  BY <1>1 DEF FormsInv, Done
<1>3. \A b \in Admin : form'[b] # None => form'[b] = form[b] /\ form[b] # None
  BY <1>1 DEF FormsInv, Done
<1> QED
  BY <1>1, <1>2, <1>3 DEF FormsInv

LEMMA RefusedStep ==
    ASSUME ProductInv, NEW a \in Admin, Refused(a)
    PROVE  ProductInv'
BY DoneForms DEF ProductInv, Refused

\* A price of a group is of the version its page showed; orders it makes wrong are struck
LEMMA SaveGroupStep ==
    ASSUME ProductAssumption, ProductInv, NEW a \in Admin, SaveGroup(a)
    PROVE  ProductInv'
<1> DEFINE n == Len(versions)
<1>1. PICK g \in Group, p \in GroupPrices :
        /\ groups' = [groups EXCEPT ![g] = [v |-> form[a].v, price |-> p]]
        /\ struck' = struck \cup Unbased(form[a].v, g)
  BY DEF SaveGroup
<1>2. form[a].v \in Nat /\ form[a].v <= n
  BY DEF ProductInv, FormsInv, FormOf, SaveGroup
<1>3. FormsInv(slots, n, form')
  BY DoneForms DEF SaveGroup
<1>4. GroupsInv(groups', n)
  <2>1. [v |-> form[a].v, price |-> p] \in GroupRow
    BY <1>2 DEF GroupRow
  <2> QED
    BY <1>1, <1>2, <2>1 DEF ProductInv, GroupsInv
<1>5. OrdersInv(orders, groups, n, struck)
  BY DEF ProductInv
<1>6. OrdersInv(orders, groups', n, struck')
  <2>1. struck' \subseteq PlacedIn(orders)
    BY <1>1, <1>5, Words DEF OrdersInv, Unbased
  <2>2. ASSUME NEW o \in PlacedIn(orders) \ struck', Priced(groups', orders[o].v, orders[o].group)
        PROVE  orders[o].based
    <3>1. o \notin struck /\ o \notin Unbased(form[a].v, g)
      BY <1>1
    <3>2. orders[o].group \in Group
      BY <1>5, <2>2 DEF OrdersInv, PlacedIn, LineOf, Priced
    <3>3. CASE orders[o].group = g
      <4>1. groups'[g] = [v |-> form[a].v, price |-> p]
        BY <1>1 DEF ProductInv, GroupsInv
      <4>2. orders[o].v = form[a].v
        BY <2>2, <3>3, <4>1 DEF Priced
      <4> QED
        BY <3>1, <3>3, <4>2, Words DEF Unbased, PlacedIn
    <3>4. CASE orders[o].group # g
      <4>1. groups'[orders[o].group] = groups[orders[o].group]
        BY <1>1, <3>2, <3>4 DEF ProductInv, GroupsInv
      <4>2. Priced(groups, orders[o].v, orders[o].group)
        BY <2>2, <4>1 DEF Priced
      <4> QED
        BY <1>5, <3>1, <4>2 DEF OrdersInv
    <3> QED
      BY <3>3, <3>4
  <2> QED
    BY <1>5, <2>1, <2>2 DEF OrdersInv
<1>7. QuotesInv(fixed, slots, orders, struck')
  BY <1>1 DEF ProductInv, QuotesInv
<1> QED
  BY <1>3, <1>4, <1>6, <1>7 DEF ProductInv, SaveGroup

LEMMA DeleteGroupStep ==
    ASSUME ProductInv, DeleteGroup
    PROVE  ProductInv'
<1> DEFINE n == Len(versions)
<1>1. PICK g \in Group : groups' = [groups EXCEPT ![g] = None]
  BY DEF DeleteGroup
<1>2. GroupsInv(groups', n)
  BY <1>1 DEF ProductInv, GroupsInv
<1>3. OrdersInv(orders, groups', n, struck)
  <2>1. OrdersInv(orders, groups, n, struck) /\ GroupsInv(groups, n)
    BY DEF ProductInv
  <2>2. \A o \in PlacedIn(orders) : orders[o].group \in Group \cup {None}
    BY <2>1 DEF OrdersInv, PlacedIn, LineOf
  <2>3. \A v : \A h \in Group : Priced(groups', v, h) => Priced(groups, v, h)
    BY <1>1, <2>1 DEF GroupsInv, Priced
  <2>4. \A v : \A h : Priced(groups', v, h) => h # None
    BY DEF Priced
  <2> QED
    BY <2>1, <2>2, <2>3, <2>4 DEF OrdersInv
<1> QED
  BY <1>2, <1>3 DEF ProductInv, DeleteGroup

\* A slot that goes without a new version strikes the orders of its version
LEMMA DeleteSlotStep ==
    ASSUME ProductInv, DeleteSlot
    PROVE  ProductInv'
<1> DEFINE n == Len(versions)
<1>1. PICK s \in Live : /\ slots' = slots \ {s}
                        /\ struck' = struck \cup {o \in Placed : orders[o].v = s.v}
  BY DEF DeleteSlot
<1>2. SlotsInv(slots', n)
  BY <1>1 DEF ProductInv, SlotsInv
<1>3. FormsInv(slots', n, form)
  BY <1>1 DEF ProductInv, FormsInv, FormOf
<1>4. OrdersInv(orders, groups, n, struck')
  BY <1>1, Words DEF ProductInv, OrdersInv
<1>5. QuotesInv(fixed, slots', orders, struck')
  <2> SUFFICES ASSUME NEW o \in PlacedIn(orders) \ struck',
                      Apart(OfVersion(slots', orders[o].v))
               PROVE  Cost(fixed, slots', orders[o]) = orders[o].quote
    BY DEF QuotesInv
  <2>1. o \notin struck /\ orders[o].v # s.v
    BY <1>1, Words
  <2>2. OfVersion(slots', orders[o].v) = OfVersion(slots, orders[o].v)
    BY <1>1, <2>1 DEF OfVersion
  <2>3. Cost(fixed, slots, orders[o]) = orders[o].quote
    BY <2>1, <2>2 DEF ProductInv, QuotesInv
  <2> QED
    BY <2>2, <2>3 DEF Cost
<1> QED
  BY <1>2, <1>3, <1>4, <1>5 DEF ProductInv, DeleteSlot

\* A request reads the slots in force
LEMMA OpenStep ==
    ASSUME ProductInv, NEW a \in Admin, Open(a)
    PROVE  ProductInv'
<1> DEFINE n == Len(versions)
           new == [v |-> n, rows |-> Live]
<1>1. n \in Nat /\ SlotsInv(slots, n) /\ FormsInv(slots, n, form)
  BY DEF ProductInv
<1>2. form' = [form EXCEPT ![a] = new]
  BY DEF Open, Current
<1>3. Slots(Live) /\ Live = {s \in slots : ~s.archived}
  BY <1>1, Words DEF SlotsInv, Slots
<1>4. FormOf(slots, n, new)
  BY <1>1, <1>3 DEF FormOf
<1>5. FormsInv(slots, n, form')
  BY <1>1, <1>2, <1>4 DEF FormsInv
<1> QED
  BY <1>5 DEF ProductInv, Open

LEMMA BasketStep ==
    ASSUME ProductInv, NEW o \in Order, Basket(o)
    PROVE  ProductInv'
<1> DEFINE n == Len(versions)
<1>1. PICK g \in Group \cup {None} :
        orders' = [orders EXCEPT ![o] = [v |-> n, group |-> g, range |-> None,
                                         base |-> None, based |-> FALSE, quote |-> 0]]
  BY DEF Basket, Current
<1>2. n \in Nat /\ OrdersInv(orders, groups, n, struck)
  BY DEF ProductInv
<1>3. /\ orders' = [x \in Order |-> orders'[x]]
      /\ \A x \in Order \ {o} : orders'[x] = orders[x]
      /\ orders'[o] = [v |-> n, group |-> g, range |-> None,
                       base |-> None, based |-> FALSE, quote |-> 0]
  BY <1>1, <1>2 DEF OrdersInv
<1>4. PlacedIn(orders') = PlacedIn(orders) /\ o \notin PlacedIn(orders)
  BY <1>3 DEF PlacedIn, Basket
<1>5. LineOf(orders'[o], n)
  BY <1>2, <1>3 DEF LineOf
<1>6. OrdersInv(orders', groups, n, struck)
  <2>1. \A x \in Order : orders'[x] # None => LineOf(orders'[x], n)
    BY <1>2, <1>3, <1>5 DEF OrdersInv
  <2>2. struck \subseteq PlacedIn(orders')
    BY <1>2, <1>4 DEF OrdersInv
  <2>3. \A x \in PlacedIn(orders') \ struck :
          Priced(groups, orders'[x].v, orders'[x].group) => orders'[x].based
    <3> SUFFICES ASSUME NEW x \in PlacedIn(orders') \ struck,
                        Priced(groups, orders'[x].v, orders'[x].group)
                 PROVE  orders'[x].based
      OBVIOUS
    <3>1. x \in PlacedIn(orders) \ struck /\ orders'[x] = orders[x]
      BY <1>3, <1>4 DEF PlacedIn
    <3> QED
      BY <1>2, <3>1 DEF OrdersInv
  <2> QED
    BY <1>3, <2>1, <2>2, <2>3 DEF OrdersInv
<1>7. QuotesInv(fixed, slots, orders', struck)
  BY <1>3, <1>4 DEF ProductInv, QuotesInv, PlacedIn
<1> QED
  BY <1>6, <1>7 DEF ProductInv, Basket

\* What is asked for an order is what it costs then
LEMMA PlaceStep ==
    ASSUME ProductAssumption, ProductInv, NEW o \in Order, Place(o)
    PROVE  ProductInv'
<1> DEFINE n == Len(versions)
           line == orders[o]
           based == HasPrice(line.v, line.group)
           base == IF based THEN groups[line.group].price ELSE versions[line.v]
<1>1. PICK range \in Asked :
        LET placed == [line EXCEPT !.range = range, !.based = based, !.base = base]
        IN  orders' = [orders EXCEPT ![o] = [placed EXCEPT !.quote = PriceOf(placed)]]
  BY DEF Place
<1> DEFINE placed == [line EXCEPT !.range = range, !.based = based, !.base = base]
           done == [placed EXCEPT !.quote = PriceOf(placed)]
<1>2. n \in Nat /\ OrdersInv(orders, groups, n, struck)
  BY DEF ProductInv
<1>3. LineOf(line, n) /\ range # None
  BY <1>2 DEF OrdersInv, Place, ProductAssumption
<1>4. based \in BOOLEAN
  BY DEF HasPrice
<1>5. placed = [v |-> line.v, group |-> line.group, range |-> range, base |-> base,
                based |-> based, quote |-> line.quote]
  <2>1. line = [v |-> line.v, group |-> line.group, range |-> line.range, base |-> line.base,
                based |-> line.based, quote |-> line.quote]
    BY <1>3 DEF LineOf
  <2> HIDE DEF line, based, base
  <2> DEFINE line1 == [line EXCEPT !.range = range]
             line2 == [line1 EXCEPT !.based = based]
             line3 == [line2 EXCEPT !.base = base]
  <2>2. placed = line3
    OBVIOUS
  <2>3. line1 = [v |-> line.v, group |-> line.group, range |-> range, base |-> line.base,
                 based |-> line.based, quote |-> line.quote]
    BY <2>1
  <2> HIDE DEF placed, line1
  <2>4. line2 = [v |-> line.v, group |-> line.group, range |-> range, base |-> line.base,
                 based |-> based, quote |-> line.quote]
    BY <2>3
  <2> HIDE DEF line2
  <2>5. line3 = [v |-> line.v, group |-> line.group, range |-> range, base |-> base,
                 based |-> based, quote |-> line.quote]
    BY <2>4
  <2> QED
    BY <2>2, <2>5
<1>6. done = [v |-> line.v, group |-> line.group, range |-> range, base |-> base,
              based |-> based, quote |-> PriceOf(placed)]
  <2> HIDE DEF line, based, base, placed
  <2> QED
    BY <1>5
<1>7. Known(placed) <=> based
  BY <1>5 DEF Known, HasPrice
<1>8. PriceOf(placed) = Cost(fixed, slots, done)
  <2> HIDE DEF based, base
  <2>1. /\ placed.v = line.v /\ placed.group = line.group /\ placed.range = range
        /\ placed.base = base
        /\ done.v = line.v /\ done.group = line.group /\ done.range = range
        /\ done.base = base /\ done.based = based
    BY <1>5, <1>6
  <2>2. Known(placed) = based
    BY <1>4, <1>7 DEF Known
  <2>3. SlotsOf(line.v) = OfVersion(slots, line.v)
    BY DEF SlotsOf, OfVersion
  <2> HIDE DEF placed, done, line
  <2> QED
    BY <2>1, <2>2, <2>3 DEF PriceOf, Cost
<1>9. LineOf(done, n)
  BY <1>3, <1>4, <1>6 DEF LineOf, HasPrice
<1> HIDE DEF placed, done
<1>10. /\ orders' = [x \in Order |-> orders'[x]]
       /\ \A x \in Order \ {o} : orders'[x] = orders[x]
       /\ orders'[o] = done
  BY <1>1, <1>2 DEF OrdersInv, placed, done
<1>11. PlacedIn(orders') \subseteq PlacedIn(orders) \cup {o} /\ o \notin PlacedIn(orders)
  BY <1>10 DEF PlacedIn, Place
<1>12. PlacedIn(orders) \subseteq PlacedIn(orders')
  BY <1>10, <1>11 DEF PlacedIn
<1>13. Priced(groups, done.v, done.group) => done.based
  BY <1>6 DEF Priced, HasPrice
<1>14. OrdersInv(orders', groups, n, struck)
  <2>1. \A x \in Order : orders'[x] # None => LineOf(orders'[x], n)
    BY <1>2, <1>9, <1>10 DEF OrdersInv
  <2>2. struck \subseteq PlacedIn(orders')
    BY <1>2, <1>12 DEF OrdersInv
  <2>3. \A x \in PlacedIn(orders') \ struck :
          Priced(groups, orders'[x].v, orders'[x].group) => orders'[x].based
    <3> SUFFICES ASSUME NEW x \in PlacedIn(orders') \ struck,
                        Priced(groups, orders'[x].v, orders'[x].group)
                 PROVE  orders'[x].based
      OBVIOUS
    <3>1. CASE x = o
      BY <1>10, <1>13, <3>1
    <3>2. CASE x # o
      <4>1. x \in PlacedIn(orders) \ struck /\ orders'[x] = orders[x]
        BY <1>10, <1>11, <3>2 DEF PlacedIn
      <4> QED
        BY <1>2, <4>1 DEF OrdersInv
    <3> QED
      BY <3>1, <3>2
  <2> QED
    BY <1>10, <2>1, <2>2, <2>3 DEF OrdersInv
<1>15. done.quote = PriceOf(placed)
  BY <1>6
<1>16. QuotesInv(fixed, slots, orders', struck)
  <2> SUFFICES ASSUME NEW x \in PlacedIn(orders') \ struck,
                      Apart(OfVersion(slots, orders'[x].v))
               PROVE  Cost(fixed, slots, orders'[x]) = orders'[x].quote
    BY DEF QuotesInv
  <2>1. CASE x = o
    BY <1>8, <1>10, <1>15, <2>1
  <2>2. CASE x # o
    <3>1. x \in PlacedIn(orders) \ struck /\ orders'[x] = orders[x]
      BY <1>10, <1>11, <2>2 DEF PlacedIn
    <3> QED
      BY <3>1 DEF ProductInv, QuotesInv
  <2> QED
    BY <2>1, <2>2
<1> QED
  BY <1>14, <1>16 DEF ProductInv, Place

-----------------------------------------------------------------------------
(* What follows *)

LEMMA NextProduct ==
    ASSUME ProductAssumption, ProductInv, [Next]_vars
    PROVE  ProductInv'
<1>1. CASE UNCHANGED vars
  BY <1>1 DEF vars, ProductInv
<1>2. CASE \E o \in Order : Basket(o) \/ Place(o)
  BY <1>2, BasketStep, PlaceStep
<1>3. CASE \E a \in Admin : Open(a) \/ SaveProduct(a) \/ SaveSlot(a) \/ SaveGroup(a) \/ Refused(a)
  BY <1>3, OpenStep, SaveProductStep, SaveSlotStep, SaveGroupStep, RefusedStep
<1>4. CASE DeleteSlot \/ DeleteGroup
  BY <1>4, DeleteSlotStep, DeleteGroupStep
<1> QED
  BY <1>1, <1>2, <1>3, <1>4 DEF Next

\* Prices, slots, groups, orders and requests fit together: the invariant that the properties
\* below rest on.
THEOREM ProductInvariant ==
    ASSUME ProductAssumption
    PROVE  Spec => []ProductInv
<1>1. Init => ProductInv
  BY InitProduct
<1>2. ProductInv /\ [Next]_vars => ProductInv'
  BY NextProduct
<1> QED
  BY <1>1, <1>2, PTL DEF Spec

\* No save leaves a slot in force on an archived version, whatever its request had read.
THEOREM SlotsFollowProduct ==
    ASSUME ProductAssumption
    PROVE  Spec => []SlotsFollow
<1>1. ProductInv => SlotsFollow
  BY Words DEF ProductInv, SlotsInv, SlotsFollow
<1> QED
  BY <1>1, ProductInvariant, PTL

\* A slot that keeps its time clashes with none that gets one
LEMMA SentClear ==
    ASSUME NEW read, NEW edited \in SUBSET read, NEW new \in SUBSET Rows, NEW to,
           Slots(read), Live \subseteq read, Valid(read, edited, to),
           \A row \in new : Fits(row, read),
           NEW x \in Sent(read, edited, new, to), NEW y \in Sent(read, edited, new, to),
           x # y, Clash(x, y), Kept(x)
    PROVE  Kept(y)
<1>1. PICK k \in Live : Same(x, k)
  BY DEF Kept
<1>2. k \in read /\ k.begin < k.end /\ k.begin \in Nat /\ k.end \in Nat
  BY <1>1 DEF Slots, SlotShape
<1>3. Clash(k, y) /\ Clash(y, k) /\ Clash(y, x)
  BY <1>1 DEF Clash, Same
<1>4. \A row, gs : Slot(row, gs).begin = row.begin /\ Slot(row, gs).end = row.end
  BY DEF Slot
<1>5. ASSUME NEW row, NEW gs, NEW z
      PROVE  /\ Clash(z, Slot(row, gs)) <=> Clash(z, row)
             /\ Same(Slot(row, gs), z) <=> Same(row, z)
  BY <1>4 DEF Clash, Same
<1>6. ASSUME NEW row \in new, y = Slot(row, NoGroups) PROVE FALSE
  <2>1. ~Clash(k, row)
    BY <1>2 DEF Fits
  <2>2. Clash(k, row)
    BY <1>3, <1>5, <1>6
  <2> QED
    BY <2>1, <2>2
<1>7. ASSUME NEW r \in read \ edited, y = Slot(r, GroupsOf(r)) PROVE Kept(y)
  <2>1. Fits(r, read \ {r})
    BY DEF Valid
  <2>2. Clash(k, r)
    BY <1>3, <1>5, <1>7
  <2>3. k = r
    BY <1>2, <2>1, <2>2 DEF Fits
  <2>4. Same(y, k)
    BY <1>4, <1>7, <2>3 DEF Same
  <2> QED
    BY <1>1, <2>4 DEF Kept
<1>8. ASSUME NEW u \in edited, to[u] # None, y = Slot(to[u], GroupsOf(u)) PROVE FALSE
  <2>1. Fits(to[u], read \ {u})
    BY <1>8 DEF Valid
  <2>2. Clash(k, to[u])
    BY <1>3, <1>5, <1>8
  <2>3. k = u
    BY <1>2, <2>1, <2>2 DEF Fits
  <2>4. Same(x, u) /\ Clash(u, x) /\ u \in read
    BY <1>1, <1>2, <2>3 DEF Same, Clash
  <2>5. ASSUME NEW r \in read \ edited, x = Slot(r, GroupsOf(r)) PROVE FALSE
    <3>1. ~Clash(r, to[u])
      BY <2>1 DEF Fits
    <3>2. Same(x, r)
      BY <1>4, <2>5 DEF Same
    <3>3. Clash(x, to[u])
      BY <1>5, <1>8
    <3> QED
      BY <3>1, <3>2, <3>3 DEF Clash, Same
  <2>6. ASSUME NEW row \in new, x = Slot(row, NoGroups) PROVE FALSE
    <3>1. ~Clash(u, row)
      BY <2>4 DEF Fits
    <3>2. Clash(u, row)
      BY <1>5, <2>4, <2>6
    <3> QED
      BY <3>1, <3>2
  <2>7. ASSUME NEW w \in edited, to[w] # None, x = Slot(to[w], GroupsOf(w)) PROVE FALSE
    <3>1. w # u
      BY <1>8, <2>7
    <3>2. ~Clash(u, to[w])
      BY <2>4, <2>7, <3>1 DEF Valid, Fits
    <3>3. Clash(u, to[w])
      BY <1>5, <2>4, <2>7
    <3> QED
      BY <3>2, <3>3
  <2> QED
    BY <2>5, <2>6, <2>7 DEF Sent
<1> QED
  BY <1>6, <1>7, <1>8 DEF Sent

\* Slots in force that come to clash both keep their time, or neither does
StayClear == \A s, t \in Live' : s # t /\ Clash(s, t) => (Kept(s) <=> Kept(t))

LEMMA ClashSym == ASSUME NEW s, NEW t PROVE Clash(s, t) <=> Clash(t, s)
BY DEF Clash, Same

LEMMA ProductClear ==
    ASSUME ProductAssumption, ProductInv, NEW a \in Admin, SaveProduct(a)
    PROVE  StayClear
<1> DEFINE read == form[a].rows
<1>1. /\ Slots(read) /\ Live \subseteq read
      /\ slots \ read = {s \in slots : s.archived}
  BY ReadForm DEF SaveProduct
<1>2. PICK edited, new, to :
        /\ edited \in SUBSET read /\ new \in SUBSET Rows
        /\ to \in [edited -> Rows \cup {None}]
        /\ \A row \in new : Fits(row, read)
        /\ Valid(read, edited, to)
        /\ slots' = (slots \ read) \cup Copies \cup Sent(read, edited, new, to)
  BY SentBy
<1>3. \A s \in (slots \ read) \cup Copies : s.archived
  BY <1>1, Words, PutKeeps DEF PutAll, ProductInv, SlotsInv
<1>4. Live' \subseteq Sent(read, edited, new, to)
  BY <1>2, <1>3 DEF Live
<1> HIDE DEF read
<1>5. ASSUME NEW s \in Live', NEW t \in Live', s # t, Clash(s, t), Kept(s) PROVE Kept(t)
  BY <1>1, <1>2, <1>4, <1>5, SentClear
<1> QED
  BY <1>5, ClashSym DEF StayClear

LEMMA SlotClear ==
    ASSUME ProductAssumption, ProductInv, NEW a \in Admin, SaveSlot(a)
    PROVE  StayClear
<1> DEFINE read == form[a].rows
<1>1. Live \subseteq read
  BY ReadForm DEF SaveSlot
<1>2. PICK old \in {{}} \cup {{s} : s \in form[a].rows}, row \in Rows, gs \in GroupPrice :
        /\ Fits(row, read \ old)
        /\ slots' = Archived \cup Copies
                    \cup {[s EXCEPT !.v = Home] : s \in Live \ old} \cup {Slot(row, gs)}
  BY DEF SaveSlot
<1> DEFINE one == Slot(row, gs)
<1>3. \A s \in Archived \cup Copies : s.archived
  BY Words, PutKeeps DEF PutAll, ProductInv, SlotsInv
<1>4. \A t \in Live' : t = one \/ \E s \in Live \ old : t = [s EXCEPT !.v = Home]
  BY <1>2, <1>3 DEF Live
<1>5. \A s \in Live : s \in SlotShape
  BY DEF ProductInv, SlotsInv, Live
<1>6. one.begin = row.begin /\ one.end = row.end
  BY DEF Slot
<1> HIDE DEF one, read
<1>7. ASSUME NEW t \in Live', t # one
      PROVE  \E s \in Live \ old : Same(t, s)
  <2>1. PICK s \in Live \ old : t = [s EXCEPT !.v = Home]
    BY <1>4, <1>7
  <2>2. t.begin = s.begin /\ t.end = s.end
    BY <1>5, <2>1 DEF SlotShape
  <2> QED
    BY <2>2 DEF Same
<1>8. ASSUME NEW t \in Live', t # one PROVE Kept(t) /\ ~Clash(t, one) /\ ~Clash(one, t)
  <2>1. PICK s \in Live \ old : Same(t, s)
    BY <1>7, <1>8
  <2>2. ~Clash(s, row)
    BY <1>1, <1>2, <2>1 DEF Fits
  <2>3. ~Clash(t, one)
    BY <1>6, <2>1, <2>2 DEF Clash, Same
  <2> QED
    BY <2>1, <2>3, ClashSym DEF Kept
<1> QED
  BY <1>8 DEF StayClear

\* A slot that keeps its time never comes to clash with one that gets one, though requests check
\* their rows against what they have read.
THEOREM KeptAlwaysStayClear ==
    ASSUME ProductAssumption
    PROVE  Spec => KeptStayClear
<1>1. ASSUME ProductInv, [Next]_vars
      PROVE  [\A s, t \in Live' : s # t /\ Clash(s, t) => (Kept(s) <=> Kept(t))]_vars
  <2>1. ASSUME Live' \subseteq Live PROVE StayClear
    BY <2>1 DEF StayClear, Kept, Same
  <2>2. ASSUME UNCHANGED slots \/ DeleteSlot PROVE StayClear
    <3>1. Live' \subseteq Live
      BY <2>2 DEF Live, DeleteSlot
    <3> QED
      BY <2>1, <3>1
  <2>3. ASSUME NEW a \in Admin, SaveProduct(a) \/ SaveSlot(a) PROVE StayClear
    BY <1>1, <2>3, ProductClear, SlotClear
  <2>4. ASSUME NEW o \in Order, Basket(o) \/ Place(o) PROVE StayClear
    BY <2>2, <2>4 DEF Basket, Place
  <2>5. ASSUME NEW a \in Admin, Open(a) \/ SaveGroup(a) \/ Refused(a) PROVE StayClear
    BY <2>2, <2>5 DEF Open, SaveGroup, Refused
  <2>6. ASSUME DeleteGroup PROVE StayClear
    BY <2>2, <2>6 DEF DeleteGroup
  <2>7. ASSUME Next PROVE StayClear
    <3>1. CASE \E o \in Order : Basket(o) \/ Place(o)
      BY <2>4, <3>1
    <3>2. CASE \E a \in Admin :
                  Open(a) \/ SaveProduct(a) \/ SaveSlot(a) \/ SaveGroup(a) \/ Refused(a)
      BY <2>3, <2>5, <3>2
    <3>3. CASE DeleteSlot
      BY <2>2, <3>3
    <3>4. CASE DeleteGroup
      BY <2>6, <3>4
    <3> QED
      BY Zenon, <2>7, <3>1, <3>2, <3>3, <3>4 DEF Next
  <2> QED
    BY <1>1, <2>7 DEF StayClear
<1> QED
  BY <1>1, ProductInvariant, PTL DEF Spec, KeptStayClear

\* An order costs what its customer was asked to pay, whatever administrators save afterwards,
\* unless an edit that adds no version has struck it.
THEOREM PricesAreKept ==
    ASSUME ProductAssumption
    PROVE  Spec => []PriceKept
<1>1. ProductInv => PriceKept
  <2> SUFFICES ASSUME ProductInv, NEW o \in Placed \ struck, Apart(SlotsOf(orders[o].v))
               PROVE  PriceOf(orders[o]) = orders[o].quote
    BY DEF PriceKept
  <2> DEFINE line == orders[o]
  <2>1. o \in PlacedIn(orders) \ struck
    BY Words
  <2>2. LineOf(line, Len(versions)) /\ (Priced(groups, line.v, line.group) => line.based)
    BY <2>1 DEF ProductInv, OrdersInv, PlacedIn
  <2>3. Cost(fixed, slots, line) = line.quote
    BY <2>1 DEF ProductInv, QuotesInv, SlotsOf, OfVersion
  <2>4. Known(line) = line.based
    <3>1. Known(line) <=> line.based
      BY <2>2, Words DEF Known, LineOf
    <3> QED
      BY <2>2, <3>1 DEF LineOf, Known
  <2>5. SlotsOf(line.v) = OfVersion(slots, line.v)
    BY DEF SlotsOf, OfVersion
  <2> HIDE DEF line
  <2>6. PriceOf(line) = line.quote
    BY <2>3, <2>4, <2>5 DEF PriceOf, Cost
  <2> QED
    BY <2>6 DEF line
<1> QED
  BY <1>1, ProductInvariant, PTL

-----------------------------------------------------------------------------
(* Sums over finite sets                                                 *)

Some(s) == CHOOSE x \in s : TRUE
UpTo(I, n) == {s \in SUBSET I : Cardinality(s) <= n}

\* g sums f over each set of a family
Sums(g, f, D) ==
    g = [s \in D |-> IF s = {} THEN 0 ELSE f[Some(s)] + g[s \ {Some(s)}]]

LEMMA Smaller ==
    ASSUME NEW I, IsFiniteSet(I), NEW s \in SUBSET I, s # {}
    PROVE  /\ Some(s) \in s /\ IsFiniteSet(s) /\ s \ {Some(s)} \in SUBSET I
           /\ Cardinality(s) \in Nat /\ Cardinality(s) > 0
           /\ Cardinality(s \ {Some(s)}) = Cardinality(s) - 1
<1>1. Some(s) \in s
  BY DEF Some
<1>2. IsFiniteSet(s) /\ Cardinality(s) \in Nat
  BY FS_Subset, FS_CardinalityType
<1>3. Cardinality(s) # 0
  BY <1>2, FS_EmptySet
<1>4. Cardinality(s \ {Some(s)}) = Cardinality(s) - 1
  BY <1>1, <1>2, FS_RemoveElement
<1> QED
  BY <1>1, <1>2, <1>3, <1>4

LEMMA SumsExist ==
    ASSUME NEW f, NEW I, IsFiniteSet(I)
    PROVE  \E g : Sums(g, f, SUBSET I)
<1> DEFINE Bad == {n \in Nat : ~\E g : Sums(g, f, UpTo(I, n))}
<1>1. Bad = {}
  <2> SUFFICES ASSUME Bad # {} PROVE FALSE
    OBVIOUS
  <2>1. PICK m \in Bad : \A k \in Bad : m <= k
    <3>1. Bad \in SUBSET Nat
      OBVIOUS
    <3> QED
      BY <3>1, Least
  <2>2. m \in Nat /\ ~\E g : Sums(g, f, UpTo(I, m))
    BY <2>1
  <2>3. CASE m = 0
    <3>1. \A s \in UpTo(I, m) : s = {}
      BY <2>3, FS_Subset, FS_CardinalityType, FS_EmptySet DEF UpTo
    <3>2. Sums([s \in UpTo(I, m) |-> 0], f, UpTo(I, m))
      BY <3>1 DEF Sums
    <3> QED
      BY <2>2, <3>2
  <2>4. CASE m # 0
    <3>1. m - 1 \in Nat /\ m - 1 \notin Bad
      BY <2>1, <2>2, <2>4
    <3>2. PICK g : Sums(g, f, UpTo(I, m - 1))
      BY <3>1
    <3> DEFINE h == [s \in UpTo(I, m) |-> IF s = {} THEN 0 ELSE f[Some(s)] + g[s \ {Some(s)}]]
    <3>3. ASSUME NEW s \in UpTo(I, m), s # {}
          PROVE  h[s \ {Some(s)}] = g[s \ {Some(s)}]
      <4> DEFINE t == s \ {Some(s)}
      <4>1. t \in UpTo(I, m - 1)
        BY <2>2, <3>3, Smaller DEF UpTo
      <4>2. t \in UpTo(I, m)
        <5>1. IsFiniteSet(t) /\ Cardinality(t) \in Nat
          BY <4>1, FS_Subset, FS_CardinalityType DEF UpTo
        <5> QED
          BY <2>2, <4>1, <5>1 DEF UpTo
      <4> HIDE DEF t
      <4>3. g[t] = IF t = {} THEN 0 ELSE f[Some(t)] + g[t \ {Some(t)}]
        BY <3>2, <4>1 DEF Sums
      <4> QED
        BY <4>2, <4>3 DEF t
    <3>4. \A s \in UpTo(I, m) :
            (IF s = {} THEN 0 ELSE f[Some(s)] + g[s \ {Some(s)}]) =
            (IF s = {} THEN 0 ELSE f[Some(s)] + h[s \ {Some(s)}])
      BY <3>3
    <3>5. h = [s \in UpTo(I, m) |-> IF s = {} THEN 0 ELSE f[Some(s)] + h[s \ {Some(s)}]]
      <4> HIDE DEF h
      <4>1. h = [s \in UpTo(I, m) |-> IF s = {} THEN 0 ELSE f[Some(s)] + g[s \ {Some(s)}]]
        BY DEF h
      <4> QED
        BY <3>4, <4>1
    <3>6. Sums(h, f, UpTo(I, m))
      BY Zenon, <3>5 DEF Sums
    <3> QED
      BY <2>2, <3>6
  <2> QED
    BY <2>3, <2>4
<1>2. UpTo(I, Cardinality(I)) = SUBSET I
  <2>1. \A s \in SUBSET I : Cardinality(s) <= Cardinality(I)
    BY FS_Subset
  <2> QED
    BY <2>1 DEF UpTo
<1>3. Cardinality(I) \in Nat
  BY FS_CardinalityType
<1>4. \E g : Sums(g, f, UpTo(I, Cardinality(I)))
  BY <1>1, <1>3
<1> QED
  BY <1>2, <1>4

\* The sum of a function over a set of indices is what the community modules compute
Total(f, s) == SumFunctionOnSet(f, s)

LEMMA TotalDef ==
    ASSUME NEW f, NEW s, IsFiniteSet(s)
    PROVE  \E g : Sums(g, f, SUBSET s) /\ Total(f, s) = g[s]
<1> DEFINE g == CHOOSE h : h = [t \in SUBSET s |->
                   IF t = {} THEN 0 ELSE f[CHOOSE x \in t : TRUE] + h[t \ {CHOOSE x \in t : TRUE}]]
<1>1. Total(f, s) = g[s]
  BY DEF Total, SumFunctionOnSet, FoldFunctionOnSet, MapThenFoldSet
<1>2. \E h : h = [t \in SUBSET s |->
                   IF t = {} THEN 0 ELSE f[CHOOSE x \in t : TRUE] + h[t \ {CHOOSE x \in t : TRUE}]]
  <2>1. PICK h : Sums(h, f, SUBSET s)
    BY SumsExist
  <2> QED
    BY Zenon, <2>1 DEF Sums, Some
<1>3. Sums(g, f, SUBSET s)
  BY Zenon, <1>2 DEF Sums, Some
<1> QED
  BY <1>1, <1>3

\* Two functions that sum agree, whichever sets they sum over
LEMMA SumsAgree ==
    ASSUME NEW f, NEW I, NEW J \in SUBSET I, NEW g, NEW h,
           IsFiniteSet(I), Sums(g, f, SUBSET I), Sums(h, f, SUBSET J)
    PROVE  g[J] = h[J]
<1> DEFINE Bad == {n \in Nat : \E s \in SUBSET J : Cardinality(s) = n /\ g[s] # h[s]}
<1>1. Bad = {}
  <2> SUFFICES ASSUME Bad # {} PROVE FALSE
    OBVIOUS
  <2>1. PICK m \in Bad : \A k \in Bad : m <= k
    <3>1. Bad \in SUBSET Nat
      OBVIOUS
    <3> QED
      BY <3>1, Least
  <2>2. PICK s \in SUBSET J : Cardinality(s) = m /\ g[s] # h[s]
    BY <2>1
  <2>3. /\ g[s] = IF s = {} THEN 0 ELSE f[Some(s)] + g[s \ {Some(s)}]
        /\ h[s] = IF s = {} THEN 0 ELSE f[Some(s)] + h[s \ {Some(s)}]
    BY DEF Sums
  <2>4. s # {}
    BY <2>2, <2>3
  <2>5. m - 1 \in Nat /\ m - 1 \notin Bad /\ Cardinality(s \ {Some(s)}) = m - 1
    <3>1. s \in SUBSET I
      OBVIOUS
    <3>2. Cardinality(s) \in Nat /\ Cardinality(s) > 0 /\ Cardinality(s \ {Some(s)}) = Cardinality(s) - 1
      BY <2>4, <3>1, Smaller
    <3>3. m \in Nat /\ m > 0 /\ m - 1 \in Nat
      BY <2>2, <3>2
    <3> QED
      BY <2>1, <2>2, <3>2, <3>3
  <2>6. g[s \ {Some(s)}] = h[s \ {Some(s)}]
    BY <2>5
  <2> QED
    BY <2>2, <2>3, <2>6
<1>2. Cardinality(J) \in Nat /\ J \in SUBSET J
  BY FS_Subset, FS_CardinalityType
<1> QED
  BY <1>1, <1>2

LEMMA TotalStep ==
    ASSUME NEW f, NEW s, IsFiniteSet(s)
    PROVE  Total(f, s) = IF s = {} THEN 0 ELSE f[Some(s)] + Total(f, s \ {Some(s)})
<1>1. PICK g : Sums(g, f, SUBSET s) /\ Total(f, s) = g[s]
  BY TotalDef
<1>2. g[s] = IF s = {} THEN 0 ELSE f[Some(s)] + g[s \ {Some(s)}]
  BY <1>1 DEF Sums
<1>3. ASSUME s # {} PROVE g[s \ {Some(s)}] = Total(f, s \ {Some(s)})
  <2> DEFINE t == s \ {Some(s)}
  <2>1. IsFiniteSet(t) /\ t \in SUBSET s
    BY FS_Subset
  <2> HIDE DEF t
  <2>2. PICK h : Sums(h, f, SUBSET t) /\ Total(f, t) = h[t]
    BY <2>1, TotalDef
  <2>3. g[t] = h[t]
    BY <1>1, <2>1, <2>2, SumsAgree
  <2> QED
    BY <2>2, <2>3 DEF t
<1> QED
  BY <1>1, <1>2, <1>3

LEMMA TotalOfNone == ASSUME NEW f PROVE Total(f, {}) = 0
BY TotalStep, FS_EmptySet

LEMMA TotalType ==
    ASSUME NEW f, NEW s, IsFiniteSet(s), \A x \in s : f[x] \in Int
    PROVE  Total(f, s) \in Int /\ ((\A x \in s : f[x] \in Nat) => Total(f, s) \in Nat)
<1> DEFINE Fit(t) == Total(f, t) \in Int /\ ((\A x \in s : f[x] \in Nat) => Total(f, t) \in Nat)
           Bad == {n \in Nat : \E t \in SUBSET s : Cardinality(t) = n /\ ~Fit(t)}
<1>1. Bad = {}
  <2> SUFFICES ASSUME Bad # {} PROVE FALSE
    OBVIOUS
  <2>1. PICK m \in Bad : \A k \in Bad : m <= k
    <3>1. Bad \in SUBSET Nat
      OBVIOUS
    <3> QED
      BY <3>1, Least
  <2>2. PICK t \in SUBSET s : Cardinality(t) = m /\ ~Fit(t)
    BY <2>1
  <2>3. IsFiniteSet(t)
    BY FS_Subset
  <2>4. t # {}
    BY <2>2, TotalOfNone
  <2>5. /\ Some(t) \in s /\ t \ {Some(t)} \in SUBSET s
        /\ Cardinality(t \ {Some(t)}) = m - 1 /\ m - 1 \in Nat
    BY <2>2, <2>4, Smaller
  <2>6. m - 1 \notin Bad
    BY <2>1, <2>5
  <2>7. Fit(t \ {Some(t)})
    BY <2>5, <2>6
  <2>8. Total(f, t) = f[Some(t)] + Total(f, t \ {Some(t)})
    BY <2>3, <2>4, TotalStep
  <2> QED
    BY <2>2, <2>5, <2>7, <2>8
<1>2. Cardinality(s) \in Nat
  BY FS_CardinalityType
<1> QED
  BY <1>1, <1>2

\* Any element may come first
LEMMA TotalWithout ==
    ASSUME NEW f, NEW s, IsFiniteSet(s), \A x \in s : f[x] \in Int, NEW x \in s
    PROVE  Total(f, s) = f[x] + Total(f, s \ {x})
<1> DEFINE Fit(t) == \A y \in t : Total(f, t) = f[y] + Total(f, t \ {y})
           Bad == {n \in Nat : \E t \in SUBSET s : Cardinality(t) = n /\ ~Fit(t)}
<1>1. Bad = {}
  <2> SUFFICES ASSUME Bad # {} PROVE FALSE
    OBVIOUS
  <2>1. PICK m \in Bad : \A k \in Bad : m <= k
    <3>1. Bad \in SUBSET Nat
      OBVIOUS
    <3> QED
      BY <3>1, Least
  <2>2. PICK t \in SUBSET s : Cardinality(t) = m /\ ~Fit(t)
    BY <2>1
  <2>3. IsFiniteSet(t) /\ \A u \in SUBSET t : IsFiniteSet(u) /\ Total(f, u) \in Int
    BY FS_Subset, TotalType
  <2>4. PICK y \in t : Total(f, t) # f[y] + Total(f, t \ {y})
    BY <2>2
  <2> DEFINE a == Some(t)
  <2>5. /\ a \in t /\ Cardinality(t \ {a}) = m - 1 /\ m - 1 \in Nat
        /\ Cardinality(t \ {y}) = m - 1
    BY <2>2, <2>3, <2>4, Smaller, FS_RemoveElement
  <2> HIDE DEF a
  <2>6. Total(f, t) = f[a] + Total(f, t \ {a})
    BY <2>3, <2>4, TotalStep DEF a
  <2>7. y # a
    BY <2>4, <2>6
  <2>8. Fit(t \ {a}) /\ Fit(t \ {y})
    <3>1. m - 1 \notin Bad
      BY <2>1, <2>5
    <3>2. t \ {a} \in SUBSET s /\ t \ {y} \in SUBSET s
      OBVIOUS
    <3> QED
      BY <2>5, <3>1, <3>2
  <2>9. Total(f, t \ {a}) = f[y] + Total(f, (t \ {a}) \ {y})
    BY <2>7, <2>8
  <2>10. Total(f, t \ {y}) = f[a] + Total(f, (t \ {y}) \ {a})
    BY <2>5, <2>7, <2>8
  <2>11. (t \ {a}) \ {y} = (t \ {y}) \ {a}
    OBVIOUS
  <2>12. f[a] \in Int /\ f[y] \in Int /\ Total(f, (t \ {y}) \ {a}) \in Int
    BY <2>3, <2>5
  <2>13. Total(f, t) = f[y] + Total(f, t \ {y})
    <3>1. \A p, q, z \in Int : p + (q + z) = q + (p + z)
      OBVIOUS
    <3>2. f[a] + (f[y] + Total(f, (t \ {y}) \ {a})) = f[y] + (f[a] + Total(f, (t \ {y}) \ {a}))
      BY Zenon, <2>12, <3>1
    <3> QED
      BY Zenon, <2>6, <2>9, <2>10, <2>11, <3>2
  <2> QED
    BY <2>4, <2>13
<1>2. Cardinality(s) \in Nat
  BY FS_CardinalityType
<1>3. Fit(s)
  BY <1>1, <1>2
<1> QED
  BY <1>3

\* A part of a sum on its own
LEMMA TotalApart ==
    ASSUME NEW f, NEW s, NEW t, IsFiniteSet(s), IsFiniteSet(t), s \cap t = {},
           \A x \in s \cup t : f[x] \in Int
    PROVE  Total(f, s \cup t) = Total(f, s) + Total(f, t)
<1> DEFINE Fit(u) == Total(f, s \cup u) = Total(f, s) + Total(f, u)
           Bad == {n \in Nat : \E u \in SUBSET t : Cardinality(u) = n /\ ~Fit(u)}
<1>1. Bad = {}
  <2> SUFFICES ASSUME Bad # {} PROVE FALSE
    OBVIOUS
  <2>1. PICK m \in Bad : \A k \in Bad : m <= k
    <3>1. Bad \in SUBSET Nat
      OBVIOUS
    <3> QED
      BY <3>1, Least
  <2>2. PICK u \in SUBSET t : Cardinality(u) = m /\ ~Fit(u)
    BY <2>1
  <2>3. IsFiniteSet(u) /\ IsFiniteSet(s \cup u)
    BY FS_Subset, FS_Union
  <2>4. u # {}
    <3> SUFFICES ASSUME u = {} PROVE FALSE
      OBVIOUS
    <3>1. s \cup u = s /\ Total(f, u) = 0
      BY TotalOfNone
    <3>2. Total(f, s) \in Int
      BY TotalType
    <3> QED
      BY <2>2, <3>1, <3>2
  <2> DEFINE x == Some(u)
  <2>5. /\ x \in u /\ u \ {x} \in SUBSET t
        /\ Cardinality(u \ {x}) = m - 1 /\ m - 1 \in Nat
    <3>1. /\ x \in u /\ u \ {x} \in SUBSET t
          /\ Cardinality(u) \in Nat /\ Cardinality(u) > 0
          /\ Cardinality(u \ {x}) = Cardinality(u) - 1
      BY <2>4, Smaller
    <3>2. Cardinality(u) = m
      BY <2>2
    <3> HIDE DEF x, Bad
    <3> QED
      BY <3>1, <3>2
  <2> HIDE DEF x
  <2>6. m - 1 \notin Bad
    <3>1. m \in Nat
      BY <2>1
    <3> HIDE DEF Bad
    <3> QED
      BY <2>1, <2>5, <3>1
  <2>7. Fit(u \ {x})
    BY <2>5, <2>6
  <2>8. Total(f, u) = f[x] + Total(f, u \ {x})
    BY <2>3, <2>5, TotalWithout
  <2>9. Total(f, s \cup u) = f[x] + Total(f, (s \cup u) \ {x})
    BY <2>3, <2>5, TotalWithout
  <2>10. (s \cup u) \ {x} = s \cup (u \ {x})
    BY <2>5
  <2>11. Total(f, s) \in Int /\ Total(f, u \ {x}) \in Int /\ f[x] \in Int
    <3>1. IsFiniteSet(u \ {x})
      BY <2>3, FS_Subset
    <3> QED
      BY <2>5, <3>1, TotalType
  <2>12. Fit(u)
    <3>1. \A p, q, z \in Int : p + (q + z) = q + (p + z)
      OBVIOUS
    <3>2. f[x] + (Total(f, s) + Total(f, u \ {x})) = Total(f, s) + (f[x] + Total(f, u \ {x}))
      BY Zenon, <2>11, <3>1
    <3> QED
      BY Zenon, <2>7, <2>8, <2>9, <2>10, <3>2
  <2> QED
    BY <2>2, <2>12
<1>2. Cardinality(t) \in Nat
  BY FS_CardinalityType
<1>3. Fit(t)
  BY <1>1, <1>2
<1> QED
  BY <1>3

LEMMA TotalOfOne ==
    ASSUME NEW f, NEW x, f[x] \in Int
    PROVE  Total(f, {x}) = f[x]
<1>1. IsFiniteSet({x}) /\ {x} \ {x} = {}
  BY FS_Singleton
<1>2. Total(f, {x}) = f[x] + Total(f, {x} \ {x})
  BY <1>1, TotalWithout
<1> QED
  BY <1>1, <1>2, TotalOfNone

LEMMA TotalOfSame ==
    ASSUME NEW f, NEW s, NEW p \in Int, IsFiniteSet(s), \A x \in s : f[x] = p
    PROVE  Total(f, s) = Cardinality(s) * p
<1> DEFINE Fit(u) == Total(f, u) = Cardinality(u) * p
           Bad == {n \in Nat : \E u \in SUBSET s : Cardinality(u) = n /\ ~Fit(u)}
<1>1. Bad = {}
  <2> SUFFICES ASSUME Bad # {} PROVE FALSE
    OBVIOUS
  <2>1. PICK m \in Bad : \A k \in Bad : m <= k
    <3>1. Bad \in SUBSET Nat
      OBVIOUS
    <3> QED
      BY <3>1, Least
  <2>2. PICK u \in SUBSET s : Cardinality(u) = m /\ ~Fit(u)
    BY <2>1
  <2>3. IsFiniteSet(u)
    BY FS_Subset
  <2>4. u # {}
    <3> SUFFICES ASSUME u = {} PROVE FALSE
      OBVIOUS
    <3>1. Total(f, u) = 0 /\ Cardinality(u) = 0
      BY TotalOfNone, FS_EmptySet
    <3> QED
      BY <2>2, <3>1
  <2> DEFINE x == Some(u)
  <2>5. /\ x \in u /\ u \ {x} \in SUBSET s
        /\ Cardinality(u \ {x}) = m - 1 /\ m - 1 \in Nat
    <3>1. /\ x \in u /\ u \ {x} \in SUBSET s
          /\ Cardinality(u) \in Nat /\ Cardinality(u) > 0
          /\ Cardinality(u \ {x}) = Cardinality(u) - 1
      BY <2>4, Smaller
    <3>2. Cardinality(u) = m
      BY <2>2
    <3> HIDE DEF x, Bad
    <3> QED
      BY <3>1, <3>2
  <2> HIDE DEF x
  <2>6. m - 1 \notin Bad
    <3>1. m \in Nat
      BY <2>1
    <3> HIDE DEF Bad
    <3> QED
      BY <2>1, <2>5, <3>1
  <2>7. Total(f, u \ {x}) = (m - 1) * p
    BY <2>5, <2>6
  <2>8. Total(f, u) = f[x] + Total(f, u \ {x})
    <3>1. \A y \in u : f[y] \in Int
      OBVIOUS
    <3> QED
      BY <2>3, <2>5, <3>1, TotalWithout
  <2>9. f[x] = p /\ m \in Int
    BY <2>2, <2>5
  <2>10. p + (m - 1) * p = m * p
    <3>1. \A i, q \in Int : q + (i - 1) * q = i * q
      OBVIOUS
    <3> QED
      BY Zenon, <2>9, <3>1
  <2>11. Fit(u)
    BY <2>2, <2>7, <2>8, <2>9, <2>10
  <2> QED
    BY <2>2, <2>11
<1>2. Cardinality(s) \in Nat
  BY FS_CardinalityType
<1>3. Fit(s)
  BY <1>1, <1>2
<1> QED
  BY <1>3

Grouped(K, d, y) == {c \in K : d[c] = y}

\* What is added one by one may be grouped, and each group counted
LEMMA TotalOfGroups ==
    ASSUME NEW K, NEW f, NEW d, NEW h, NEW p, NEW G, IsFiniteSet(K),
           G = {d[c] : c \in K},
           \A y \in G : p[y] \in Int /\ h[y] = Cardinality(Grouped(K, d, y)) * p[y],
           \A c \in K : f[c] = p[d[c]]
    PROVE  /\ IsFiniteSet(G)
           /\ Total(f, K) = Total(h, G)
<1> DEFINE In(T) == {c \in K : d[c] \in T}
           Group1(y) == Grouped(K, d, y)
           Fit(T) == Total(f, In(T)) = Total(h, T)
           Bad == {n \in Nat : \E T \in SUBSET G : Cardinality(T) = n /\ ~Fit(T)}
<1>1. IsFiniteSet(G)
  <2>1. [c \in K |-> d[c]] \in Surjection(K, G)
    BY DEF Surjection
  <2> QED
    BY <2>1, FS_Surjection
<1>2. \A c \in K : f[c] \in Int /\ d[c] \in G
  OBVIOUS
<1>3. \A y \in G : /\ IsFiniteSet(Group1(y)) /\ Cardinality(Group1(y)) \in Nat
                   /\ h[y] = Cardinality(Group1(y)) * p[y] /\ p[y] \in Int /\ h[y] \in Int
  <2> SUFFICES ASSUME NEW y \in G
               PROVE  /\ IsFiniteSet(Group1(y)) /\ Cardinality(Group1(y)) \in Nat
                      /\ h[y] = Cardinality(Group1(y)) * p[y] /\ p[y] \in Int /\ h[y] \in Int
    OBVIOUS
  <2>1. Group1(y) \subseteq K
    BY DEF Grouped
  <2>2. IsFiniteSet(Group1(y)) /\ Cardinality(Group1(y)) \in Nat
    BY <2>1, FS_Subset, FS_CardinalityType
  <2>3. h[y] = Cardinality(Group1(y)) * p[y] /\ p[y] \in Int
    OBVIOUS
  <2> HIDE DEF Group1
  <2>4. \A i, j \in Int : i * j \in Int
    OBVIOUS
  <2> QED
    BY <2>2, <2>3, <2>4
<1>4. \A T \in SUBSET G : IsFiniteSet(T) /\ IsFiniteSet(In(T)) /\ In(T) \subseteq K
  BY <1>1, FS_Subset
<1>5. Bad = {}
  <2> SUFFICES ASSUME Bad # {} PROVE FALSE
    OBVIOUS
  <2>1. PICK m \in Bad : \A k \in Bad : m <= k
    <3>1. Bad \in SUBSET Nat
      OBVIOUS
    <3> QED
      BY <3>1, Least
  <2>2. PICK T \in SUBSET G : Cardinality(T) = m /\ ~Fit(T)
    BY <2>1
  <2>3. T # {}
    <3> SUFFICES ASSUME T = {} PROVE FALSE
      OBVIOUS
    <3>1. In(T) = {}
      OBVIOUS
    <3>2. Total(f, In(T)) = 0 /\ Total(h, T) = 0
      BY Zenon, <3>1, TotalOfNone
    <3> QED
      BY <2>2, <3>2
  <2> DEFINE y == Some(T)
             R == T \ {y}
  <2>4. y \in T /\ R \in SUBSET G /\ Cardinality(R) = m - 1 /\ m - 1 \in Nat /\ m \in Nat
    <3>1. /\ y \in T /\ R \in SUBSET G
          /\ Cardinality(T) \in Nat /\ Cardinality(T) > 0
          /\ Cardinality(R) = Cardinality(T) - 1
      BY <1>1, <2>3, Smaller
    <3>2. Cardinality(T) = m
      BY <2>2
    <3> HIDE DEF y, R, Bad
    <3> QED
      BY <3>1, <3>2
  <2> HIDE DEF y
  <2>5. Fit(R)
    <3>1. m - 1 \notin Bad
      <4> HIDE DEF Bad
      <4> QED
        BY <2>1, <2>4
    <3> QED
      BY <2>4, <3>1
  <2>6. Total(h, T) = h[y] + Total(h, R)
    <3>1. \A z \in T : h[z] \in Int
      BY <1>3
    <3>2. IsFiniteSet(T)
      BY <1>4
    <3> QED
      BY <2>4, <3>1, <3>2, TotalWithout
  <2>7. Total(f, In(T)) = Total(f, Group1(y)) + Total(f, In(R))
    <3> DEFINE one == Group1(y)
               rest == In(R)
    <3>1. In(T) = one \cup rest /\ one \cap rest = {}
      BY <2>4 DEF Grouped
    <3>2. IsFiniteSet(one) /\ IsFiniteSet(rest)
      BY <1>3, <1>4, <2>4
    <3>3. \A c \in one \cup rest : f[c] \in Int
      BY <1>2 DEF Grouped
    <3> HIDE DEF one, rest
    <3>4. Total(f, one \cup rest) = Total(f, one) + Total(f, rest)
      BY <3>1, <3>2, <3>3, TotalApart
    <3> QED
      BY Zenon, <3>1, <3>4 DEF one, rest
  <2>8. Total(f, Group1(y)) = h[y]
    <3>1. \A c \in Group1(y) : f[c] = p[y]
      BY DEF Grouped
    <3>2. y \in G
      BY <2>4
    <3> HIDE DEF Group1
    <3>3. IsFiniteSet(Group1(y)) /\ h[y] = Cardinality(Group1(y)) * p[y] /\ p[y] \in Int
      BY <1>3, <3>2
    <3> QED
      BY <3>1, <3>3, TotalOfSame
  <2>9. Fit(T)
    BY Zenon, <2>5, <2>6, <2>7, <2>8
  <2> QED
    BY <2>2, <2>9
<1>6. Cardinality(G) \in Nat
  BY <1>1, FS_CardinalityType
<1>7. Fit(G)
  <2> HIDE DEF Fit
  <2> QED
    BY <1>5, <1>6
<1>8. In(G) = K
  OBVIOUS
<1> QED
  BY <1>1, <1>7, <1>8

\* The sum of what the parts of a price cost
LEMMA DetailTotalIs ==
    ASSUME NEW d, IsFiniteSet(d)
    PROVE  DetailTotal(d) = Total([x \in d |-> x.count * x.price], d)
<1> DEFINE f == [x \in d |-> x.count * x.price]
           Body(h) == [s \in SUBSET d |->
              IF s = {} THEN 0
              ELSE (CHOOSE x \in s : TRUE).count * (CHOOSE x \in s : TRUE).price
                   + h[s \ {CHOOSE x \in s : TRUE}]]
           g == CHOOSE h : h = Body(h)
<1>1. DetailTotal(d) = g[d]
  BY DEF DetailTotal, MapThenSumSet, MapThenFoldSet
<1>2. \A h : Sums(h, f, SUBSET d) <=> h = Body(h)
  <2> SUFFICES ASSUME NEW h PROVE Sums(h, f, SUBSET d) <=> h = Body(h)
    OBVIOUS
  <2>1. \A s \in SUBSET d : s # {} => f[Some(s)] = (CHOOSE x \in s : TRUE).count * (CHOOSE x \in s : TRUE).price
    BY DEF Some
  <2>2. Body(h) = [s \in SUBSET d |-> IF s = {} THEN 0 ELSE f[Some(s)] + h[s \ {Some(s)}]]
    <3> HIDE DEF f
    <3> QED
      BY <2>1 DEF Some
  <2> HIDE DEF Body, f
  <2> QED
    BY Zenon, <2>2 DEF Sums
<1>3. \E h : Sums(h, f, SUBSET d)
  <2> HIDE DEF f
  <2> QED
    BY SumsExist
<1> HIDE DEF f, Body
<1>4. Sums(g, f, SUBSET d)
  BY Zenon, <1>2, <1>3
<1> HIDE DEF g
<1>5. PICK h : Sums(h, f, SUBSET d) /\ Total(f, d) = h[d]
  BY TotalDef
<1>6. g[d] = h[d]
  BY <1>4, <1>5, SumsAgree
<1> QED
  BY <1>1, <1>5, <1>6 DEF f

-----------------------------------------------------------------------------
(* A price in detail                                                     *)

\* What a slot, if any, makes of the price of a chunk
PriceUnder(x, g, default) == IF x = {} THEN default ELSE SlotPrice(FirstSlot(x), g)

LEMMA FirstOfOne == ASSUME NEW s \in SlotShape PROVE FirstSlot({s}) = s
<1>1. s.end <= s.end
  BY DEF SlotShape
<1> QED
  BY <1>1 DEF FirstSlot

\* What a slot costs is a number
LEMMA SlotPriced ==
    ASSUME ProductAssumption, NEW s \in SlotShape, NEW g \in Group \cup {None}
    PROVE  SlotPrice(s, g) \in Nat
<1>1. s.price \in Nat /\ s.groups \in GroupPrice
  BY DEF ProductAssumption, SlotShape
<1>2. ASSUME PricedFor(s, g) PROVE s.groups[g] \in Nat
  <2>1. g \in Group /\ s.groups[g] # None
    BY <1>2 DEF PricedFor
  <2>2. s.groups[g] \in GroupPrices
    BY <1>1, <2>1 DEF GroupPrice
  <2> QED
    BY <2>2 DEF ProductAssumption
<1> QED
  BY <1>1, <1>2 DEF SlotPrice

\* Both computations charge a chunk by the same slot
LEMMA ChunkListed ==
    ASSUME ProductAssumption, NEW S, Slots(S), NEW c, NEW g \in Group \cup {None},
           NEW known \in BOOLEAN, NEW default \in Nat
    PROVE  /\ ChunkPrice(S, c, g, known, default)
                = PriceUnder(DetailSlots(S, c, g, known), g, default)
           /\ ChunkPrice(S, c, g, known, default) \in Nat
<1> DEFINE around == {s \in S : Contains(s, c, c + 1)}
           s == FirstSlot(around)
<1>1. CASE around = {}
  <2>1. DetailSlots(S, c, g, known) = {}
    BY <1>1 DEF DetailSlots
  <2>2. ChunkPrice(S, c, g, known, default) = default
    BY <1>1 DEF ChunkPrice
  <2> QED
    BY <2>1, <2>2 DEF PriceUnder
<1>2. CASE around # {}
  <2>1. s \in S
    BY <1>2, SomeSlots, FirstIs DEF First
  <2>2. ChunkPrice(S, c, g, known, default) =
          IF PricedFor(s, g) THEN s.groups[g] ELSE IF known THEN default ELSE s.price
    BY <1>2 DEF ChunkPrice
  <2>3. DetailSlots(S, c, g, known) = IF known /\ ~PricedFor(s, g) THEN {} ELSE {s}
    BY <1>2 DEF DetailSlots
  <2> HIDE DEF s, around
  <2>4. FirstSlot({s}) = s
    BY <2>1, FirstOfOne DEF Slots
  <2>5. SlotPrice(s, g) \in Nat
    BY <2>1, SlotPriced DEF Slots
  <2>6. SlotPrice(s, g) = IF PricedFor(s, g) THEN s.groups[g] ELSE s.price
    BY DEF SlotPrice
  <2>7. CASE known /\ ~PricedFor(s, g)
    <3>1. ChunkPrice(S, c, g, known, default) = default /\ DetailSlots(S, c, g, known) = {}
      BY <2>2, <2>3, <2>7
    <3> QED
      BY <3>1 DEF PriceUnder
  <2>8. CASE ~(known /\ ~PricedFor(s, g))
    <3>1. /\ ChunkPrice(S, c, g, known, default) = SlotPrice(s, g)
          /\ DetailSlots(S, c, g, known) = {s}
      BY <2>2, <2>3, <2>6, <2>8
    <3>2. PriceUnder({s}, g, default) = SlotPrice(s, g)
      BY <2>4 DEF PriceUnder
    <3> QED
      BY <2>5, <3>1, <3>2
  <2> QED
    BY <2>7, <2>8
<1> QED
  BY <1>1, <1>2

\* Per period, a price in detail adds up to the price
LEMMA PeriodAddsUp ==
    ASSUME NEW S, NEW b \in Nat, NEW e \in Nat,
           NEW g \in Group \cup {None}, NEW known \in BOOLEAN, NEW default \in Nat,
           ProductAssumption, Slots(S), b < e
    PROVE  DetailTotal(Detail(FALSE, S, b, e, g, known, default)) =
           TotalPrice(FALSE, S, b, e, g, known, default)
<1> DEFINE K == Chunks(b, e)
           f == [c \in K |-> ChunkPrice(S, c, g, known, default)]
           Count(x) == Cardinality({c \in K : DetailSlots(S, c, g, known) = x})
           Part(x) == [slots |-> x, count |-> Count(x), price |-> PriceUnder(x, g, default)]
           d == [c \in K |-> Part(DetailSlots(S, c, g, known))]
           all == Detail(FALSE, S, b, e, g, known, default)
           h == [x \in all |-> x.count * x.price]
           p == [x \in all |-> x.price]
<1>1. all = {Part(x) : x \in {DetailSlots(S, c, g, known) : c \in K}}
  BY DEF Detail, PriceUnder
<1>2. all = {d[c] : c \in K}
  BY <1>1
<1>3. \A c \in K : f[c] = d[c].price /\ f[c] \in Nat
  <2>1. \A c \in K : f[c] = ChunkPrice(S, c, g, known, default)
    OBVIOUS
  <2>2. ASSUME NEW c \in K
        PROVE  /\ f[c] = PriceUnder(DetailSlots(S, c, g, known), g, default)
               /\ f[c] \in Nat
    BY <2>1, ChunkListed
  <2> QED
    BY <2>2
<1>4. \A c \in K : f[c] = p[d[c]]
  BY <1>2, <1>3
<1>5. ASSUME NEW y \in all
      PROVE  p[y] \in Int /\ h[y] = Cardinality(Grouped(K, d, y)) * p[y]
  <2>1. PICK k \in K : y = d[k]
    BY <1>2
  <2>2. /\ y.slots = DetailSlots(S, k, g, known) /\ y.count = Count(y.slots)
        /\ p[y] = y.price /\ h[y] = y.count * y.price
    BY <2>1
  <2>3. p[y] \in Int
    BY <1>3, <2>1, <2>2
  <2>4. Grouped(K, d, y) = {c \in K : DetailSlots(S, c, g, known) = y.slots}
    <3>1. \A c \in K : d[c] = y => DetailSlots(S, c, g, known) = y.slots
      OBVIOUS
    <3>2. \A c \in K : DetailSlots(S, c, g, known) = DetailSlots(S, k, g, known) => d[c] = d[k]
      OBVIOUS
    <3> HIDE DEF d
    <3> QED
      BY <2>1, <2>2, <3>1, <3>2 DEF Grouped
  <2> QED
    BY <2>2, <2>3, <2>4
<1>6. IsFiniteSet(K) /\ TotalPrice(FALSE, S, b, e, g, known, default) = Total(f, K)
  <2>1. IsFiniteSet(K) /\ Cardinality(K) = e - b
    BY FS_Interval DEF Chunks
  <2>2. CASE S = {}
    <3>1. \A c \in K : ChunkPrice(S, c, g, known, default) = default
      BY <2>2 DEF ChunkPrice
    <3>2. \A c \in K : f[c] = default
      BY <3>1
    <3> HIDE DEF K, f
    <3>3. Total(f, K) = (e - b) * default
      <4>1. default \in Int
        OBVIOUS
      <4> QED
        BY Zenon, <2>1, <3>2, <4>1, TotalOfSame
    <3>4. (e - b) * default = default * (e - b)
      OBVIOUS
    <3>5. TotalPrice(FALSE, S, b, e, g, known, default) = default * (e - b)
      BY <2>2 DEF TotalPrice
    <3> QED
      BY <2>1, <3>3, <3>4, <3>5 DEF K, f
  <2>3. CASE S # {}
    <3>1. TotalPrice(FALSE, S, b, e, g, known, default) = SumFunction(f)
      BY <2>3 DEF TotalPrice
    <3>2. SumFunction(f) = Total(f, K)
      BY DEF SumFunction, FoldFunction, Total, SumFunctionOnSet
    <3> QED
      BY <2>1, <3>1, <3>2
  <2> QED
    BY <2>2, <2>3
<1> HIDE DEF K, f, d, h, p, all
<1>7. IsFiniteSet(all) /\ Total(f, K) = Total(h, all)
  <2> HIDE DEF Count, Part
  <2>1. \A y \in all : p[y] \in Int /\ h[y] = Cardinality(Grouped(K, d, y)) * p[y]
    BY <1>5
  <2> QED
    BY <1>2, <1>4, <1>6, <2>1, TotalOfGroups
<1>8. DetailTotal(all) = Total(h, all)
  BY Zenon, <1>7, DetailTotalIs DEF h
<1> QED
  BY Zenon, <1>6, <1>7, <1>8 DEF all

LEMMA FixedPriced ==
    ASSUME ProductAssumption, NEW S, Slots(S), NEW b, NEW e,
           NEW g \in Group \cup {None}, NEW known \in BOOLEAN, NEW default \in Nat
    PROVE  FixedPrice(S, b, e, g, known, default) \in Nat
<1> DEFINE chosen == Eligible(S, b, e, g, known)
<1>1. chosen \in SUBSET S
  BY DEF Eligible
<1>2. CASE chosen = {}
  BY <1>2 DEF FixedPrice
<1>3. CASE chosen # {}
  <2>1. SmallestSlot(chosen) \in chosen
    BY <1>1, <1>3, SomeSlots, SmallestIn
  <2>2. SlotPrice(SmallestSlot(chosen), g) \in Nat
    BY <1>1, <2>1, SlotPriced DEF Slots
  <2> QED
    BY <1>3, <2>2 DEF FixedPrice
<1> QED
  BY <1>2, <1>3

\* A fixed price is one part, once
LEMMA FixedAddsUp ==
    ASSUME ProductAssumption, NEW S, Slots(S), NEW b, NEW e,
           NEW g \in Group \cup {None}, NEW known \in BOOLEAN, NEW default \in Nat
    PROVE  DetailTotal(Detail(TRUE, S, b, e, g, known, default)) =
           TotalPrice(TRUE, S, b, e, g, known, default)
<1> DEFINE price == FixedPrice(S, b, e, g, known, default)
           part == [slots |-> {}, count |-> 1, price |-> price]
           f == [x \in {part} |-> x.count * x.price]
<1>1. price \in Nat
  BY FixedPriced
<1>2. Detail(TRUE, S, b, e, g, known, default) = {part}
  BY DEF Detail
<1>3. TotalPrice(TRUE, S, b, e, g, known, default) = price
  BY DEF TotalPrice
<1> HIDE DEF price
<1>4. f[part] = price
  BY <1>1
<1> HIDE DEF part
<1>5. DetailTotal({part}) = Total(f, {part})
  BY DetailTotalIs, FS_Singleton
<1> HIDE DEF f
<1>6. Total(f, {part}) = f[part]
  BY <1>1, <1>4, TotalOfOne
<1> QED
  BY <1>2, <1>3, <1>4, <1>5, <1>6

\* The parts of a price in detail add up to the price, for any number of slots of any version,
\* of either price type, and any time: the two computations agree about what each chunk is
\* charged by, and the second forgets none.
THEOREM DetailsAlwaysAddUp ==
    ASSUME ProductAssumption
    PROVE  Spec => []DetailsAddUp
<1>1. ProductInv => DetailsAddUp
  <2> SUFFICES ASSUME ProductInv,
                      NEW v \in {n \in 1 .. Current : Apart(SlotsOf(n))}, NEW r \in Asked,
                      NEW g \in Group \cup {None}
               PROVE  LET known == HasPrice(v, g)
                          default == IF known THEN groups[g].price ELSE versions[v]
                      IN  DetailTotal(Detail(fixed, SlotsOf(v), r[1], r[2], g, known, default)) =
                          TotalPrice(fixed, SlotsOf(v), r[1], r[2], g, known, default)
    BY DEF DetailsAddUp
  <2> DEFINE known == HasPrice(v, g)
             default == IF known THEN groups[g].price ELSE versions[v]
             S == SlotsOf(v)
             b == r[1]
             e == r[2]
  <2>1. known \in BOOLEAN
    BY DEF HasPrice
  <2>2. v \in Nat /\ v \in 1 .. Len(versions) /\ versions \in Seq(Nat) /\ fixed \in BOOLEAN
    BY DEF ProductInv, Current
  <2>3. default \in Nat
    <3>1. CASE known
      <4>1. g \in Group /\ groups[g] # None
        BY <3>1 DEF HasPrice
      <4>2. groups[g] \in GroupRow
        BY <4>1 DEF ProductInv, GroupsInv
      <4> QED
        BY <3>1, <4>2 DEF GroupRow, ProductAssumption
    <3>2. CASE ~known
      <4>1. versions[v] \in Nat
        BY <2>2
      <4> QED
        BY <3>2, <4>1
    <3> QED
      BY <3>1, <3>2
  <2>4. Slots(S)
    <3>1. S = OfVersion(slots, v)
      BY DEF SlotsOf, OfVersion
    <3>2. SlotsInv(slots, Len(versions)) /\ Len(versions) \in Nat
      BY DEF ProductInv
    <3> QED
      BY <2>2, <3>1, <3>2, VersionSlots
  <2>5. b \in Nat /\ e \in Nat /\ b < e
    BY DEF ProductAssumption
  <2> HIDE DEF known, default, S, b, e
  <2>6. DetailTotal(Detail(TRUE, S, b, e, g, known, default)) =
        TotalPrice(TRUE, S, b, e, g, known, default)
    BY <2>1, <2>3, <2>4, FixedAddsUp
  <2>7. DetailTotal(Detail(FALSE, S, b, e, g, known, default)) =
        TotalPrice(FALSE, S, b, e, g, known, default)
    BY <2>1, <2>3, <2>4, <2>5, PeriodAddsUp
  <2>8. DetailTotal(Detail(fixed, S, b, e, g, known, default)) =
        TotalPrice(fixed, S, b, e, g, known, default)
    BY <2>2, <2>6, <2>7
  <2> QED
    BY <2>8 DEF known, default, S, b, e
<1> QED
  BY <1>1, ProductInvariant, PTL

-----------------------------------------------------------------------------
(* Types *)

LineTypes(l) ==
    /\ l.v > 0
    /\ l.range \in Asked \cup {None}
    /\ l.base \in ListPrice \cup GroupPrices \cup {None}
    /\ l.quote \in Nat

\* What the invariant above does not say: prices are prices, and versions are counted from one
ProductTypes ==
    /\ versions \in Seq(ListPrice) /\ Len(versions) <= MaxVersion
    /\ \A s \in slots : s.v > 0
    /\ \A g \in Group : groups[g] # None => groups[g].v > 0
    /\ \A a \in Admin : form[a] # None => form[a].v > 0
    /\ \A o \in Order : orders[o] # None => LineTypes(orders[o])

\* A price is a number
LEMMA PriceIsNumber ==
    ASSUME NEW f \in BOOLEAN, NEW S, NEW b \in Nat, NEW e \in Nat,
           NEW g \in Group \cup {None}, NEW known \in BOOLEAN, NEW default \in Nat,
           ProductAssumption, Slots(S), b < e
    PROVE  TotalPrice(f, S, b, e, g, known, default) \in Nat
<1> DEFINE K == Chunks(b, e)
           h == [c \in K |-> ChunkPrice(S, c, g, known, default)]
<1>1. CASE f = TRUE
  <2>1. FixedPrice(S, b, e, g, known, default) \in Nat
    BY FixedPriced
  <2> QED
    BY <1>1, <2>1 DEF TotalPrice
<1>2. CASE f = FALSE /\ S = {}
  <2>1. e - b \in Nat /\ \A i, j \in Nat : i * j \in Nat
    OBVIOUS
  <2>2. default * (e - b) \in Nat
    BY <2>1
  <2> QED
    BY <1>2, <2>2 DEF TotalPrice
<1>3. CASE f = FALSE /\ S # {}
  <2>1. TotalPrice(f, S, b, e, g, known, default) = SumFunction(h)
    BY <1>3 DEF TotalPrice
  <2>2. SumFunction(h) = Total(h, K)
    BY DEF SumFunction, FoldFunction, Total, SumFunctionOnSet
  <2>3. IsFiniteSet(K)
    BY FS_Interval DEF Chunks
  <2>4. ASSUME NEW c \in K PROVE h[c] \in Nat
    BY ChunkListed
  <2> HIDE DEF K, h
  <2>5. \A c \in K : h[c] \in Int /\ h[c] \in Nat
    BY <2>4
  <2>6. Total(h, K) \in Nat
    BY <2>3, <2>5, TotalType
  <2> QED
    BY <2>1, <2>2, <2>6
<1> QED
  BY <1>1, <1>2, <1>3

LEMMA InitTypes == ASSUME ProductAssumption, Init PROVE ProductTypes
<1>1. PICK p \in ListPrice : versions = <<p>>
  BY DEF Init
<1>2. versions \in Seq(ListPrice) /\ Len(versions) <= MaxVersion
  BY <1>1 DEF ProductAssumption
<1> QED
  BY <1>2 DEF Init, ProductTypes

\* A request that is done is none
LEMMA DoneTypes ==
    ASSUME ProductInv, ProductTypes, NEW a \in Admin, Done(a)
    PROVE  \A b \in Admin : form'[b] # None => form'[b].v > 0
BY DEF ProductInv, FormsInv, ProductTypes, Done

LEMMA MovedTypes ==
    ASSUME ProductInv, ProductTypes, ProductAssumption, NEW g \in Group, Moved(g) # None
    PROVE  Moved(g).v > 0
<1>1. Len(versions) \in Nat /\ groups[g] \in GroupRow \cup {None} /\ g # None
  BY DEF ProductInv, GroupsInv, ProductAssumption
<1>2. CASE HasPrice(Current, g)
  <2>1. groups[g] \in GroupRow
    BY <1>1, <1>2 DEF HasPrice
  <2>2. Moved(g) = [groups[g] EXCEPT !.v = Current + 1]
    BY <1>2 DEF Moved
  <2>3. Moved(g).v = Len(versions) + 1
    BY <2>1, <2>2 DEF GroupRow, Current
  <2> QED
    BY <1>1, <2>3
<1>3. CASE ~HasPrice(Current, g)
  BY <1>3 DEF Moved, ProductTypes
<1> QED
  BY <1>2, <1>3

LEMMA SaveProductTypes ==
    ASSUME ProductAssumption, ProductInv, ProductTypes, NEW a \in Admin, SaveProduct(a)
    PROVE  ProductTypes'
<1>1. PICK p \in ListPrice : versions' = Append(versions, p)
  BY DEF SaveProduct
<1>2. versions \in Seq(ListPrice) /\ Len(versions) \in Nat
  BY DEF ProductTypes
<1>3. versions' \in Seq(ListPrice) /\ Len(versions') <= MaxVersion
  BY <1>1, <1>2 DEF SaveProduct, MaySave, Current, ProductAssumption
<1>4. \A s \in slots' : s.v > 0
  <2>1. \A s \in slots : s.v > 0 /\ Put(s).v = s.v
    BY PutKeeps DEF ProductInv, SlotsInv, ProductTypes
  <2>2. \A s \in slots \cup Copies : s.v > 0
    BY <2>1, Words DEF PutAll
  <2>3. \A row, gs : Slot(row, gs).v > 0
    BY <1>2 DEF Slot, Home, Current
  <2>4. PICK sent : /\ slots' = (slots \ form[a].rows) \cup Copies \cup sent
                    /\ \A x \in sent : x.v > 0
    <3>1. PICK edited, new, to :
            slots' = (slots \ form[a].rows) \cup Copies
                     \cup Sent(form[a].rows, edited, new, to)
      BY SentBy
    <3>2. \A x \in Sent(form[a].rows, edited, new, to) : x.v > 0
      BY <2>3 DEF Sent
    <3> QED
      BY <3>1, <3>2
  <2> QED
    BY <2>2, <2>4
<1>5. \A g \in Group : groups'[g] # None => groups'[g].v > 0
  <2> SUFFICES ASSUME NEW g \in Group, groups'[g] # None PROVE groups'[g].v > 0
    OBVIOUS
  <2>1. PICK deals \in Deals :
        groups' = [h \in Group |->
            IF h \notin DOMAIN deals THEN Moved(h)
            ELSE IF deals[h] = None THEN None ELSE [v |-> Current + 1, price |-> deals[h]]]
    BY DEF SaveProduct
  <2>2. CASE g \in DOMAIN deals
    <3>1. groups'[g].v = Current + 1
      BY <2>1, <2>2
    <3> QED
      BY <1>2, <3>1 DEF Current
  <2>3. CASE g \notin DOMAIN deals
    <3>1. groups'[g] = Moved(g)
      BY <2>1, <2>3
    <3> QED
      BY <3>1, MovedTypes
  <2> QED
    BY <2>2, <2>3
<1>6. \A b \in Admin : form'[b] # None => form'[b].v > 0
  BY DoneTypes DEF SaveProduct
<1> QED
  BY <1>3, <1>4, <1>5, <1>6 DEF ProductTypes, SaveProduct, LineTypes

LEMMA SaveSlotTypes ==
    ASSUME ProductAssumption, ProductInv, ProductTypes, NEW a \in Admin, SaveSlot(a)
    PROVE  ProductTypes'
<1>1. versions \in Seq(ListPrice) /\ Len(versions) \in Nat /\ Len(versions) > 0
  BY DEF ProductTypes, ProductInv
<1>2. versions' \in Seq(ListPrice) /\ Len(versions') <= MaxVersion
  <2>1. versions[Current] \in ListPrice
    BY <1>1 DEF Current
  <2> QED
    BY <1>1, <2>1 DEF SaveSlot, MaySave, Current, ProductAssumption
<1>3. \A s \in slots' : s.v > 0
  <2>1. PICK row, gs, old :
          slots' = Archived \cup Copies
                   \cup {[s EXCEPT !.v = Home] : s \in Live \ old} \cup {Slot(row, gs)}
    BY DEF SaveSlot
  <2>2. \A s \in slots : s.v > 0 /\ Put(s).v = s.v /\ s \in SlotShape
    BY PutKeeps DEF ProductInv, SlotsInv, ProductTypes
  <2>3. \A s \in Archived \cup Copies : s.v > 0
    BY <2>2, Words DEF PutAll
  <2>4. Slot(row, gs).v > 0
    BY <1>1 DEF Slot, Home, Current
  <2>5. \A s \in Live : [s EXCEPT !.v = Home].v > 0
    <3>1. Live \subseteq slots
      BY DEF Live
    <3> QED
      BY <1>1, <2>2, <3>1 DEF Home, Current, SlotShape
  <2> QED
    BY <2>1, <2>3, <2>4, <2>5
<1>4. \A g \in Group : groups'[g] # None => groups'[g].v > 0
  BY MovedTypes DEF SaveSlot
<1>5. \A b \in Admin : form'[b] # None => form'[b].v > 0
  BY DoneTypes DEF SaveSlot
<1> QED
  BY <1>2, <1>3, <1>4, <1>5 DEF ProductTypes, SaveSlot, LineTypes

LEMMA SaveGroupTypes ==
    ASSUME ProductInv, ProductTypes, NEW a \in Admin, SaveGroup(a)
    PROVE  ProductTypes'
<1>1. PICK g \in Group, p \in GroupPrices :
        groups' = [groups EXCEPT ![g] = [v |-> form[a].v, price |-> p]]
  BY DEF SaveGroup
<1>2. form[a].v > 0
  BY DEF ProductTypes, SaveGroup
<1>3. \A h \in Group : groups'[h] # None => groups'[h].v > 0
  BY <1>1, <1>2 DEF ProductTypes, ProductInv, GroupsInv
<1>4. \A b \in Admin : form'[b] # None => form'[b].v > 0
  BY DoneTypes DEF SaveGroup
<1> QED
  BY <1>3, <1>4 DEF ProductTypes, SaveGroup, LineTypes

LEMMA OpenTypes ==
    ASSUME ProductInv, ProductTypes, NEW a \in Admin, Open(a)
    PROVE  ProductTypes'
<1>1. \A b \in Admin : form'[b] # None => form'[b].v > 0
  BY DEF ProductInv, FormsInv, ProductTypes, Open, Current
<1> QED
  BY <1>1 DEF ProductTypes, Open, LineTypes

LEMMA BasketTypes ==
    ASSUME ProductInv, ProductTypes, NEW o \in Order, Basket(o)
    PROVE  ProductTypes'
<1>1. PICK g : orders' = [orders EXCEPT ![o] = [v |-> Current, group |-> g, range |-> None,
                                                base |-> None, based |-> FALSE, quote |-> 0]]
  BY DEF Basket
<1>2. Current > 0 /\ orders = [x \in Order |-> orders[x]]
  BY DEF ProductInv, OrdersInv, Current
<1>3. \A x \in Order : orders'[x] # None => LineTypes(orders'[x])
  BY <1>1, <1>2 DEF ProductTypes, LineTypes
<1> QED
  BY <1>3 DEF ProductTypes, Basket

LEMMA PlaceTypes ==
    ASSUME ProductAssumption, ProductInv, ProductTypes, NEW o \in Order, Place(o)
    PROVE  ProductTypes'
<1> DEFINE line == orders[o]
           based == HasPrice(line.v, line.group)
           base == IF based THEN groups[line.group].price ELSE versions[line.v]
<1>1. PICK range \in Asked :
        LET placed == [line EXCEPT !.range = range, !.based = based, !.base = base]
        IN  orders' = [orders EXCEPT ![o] = [placed EXCEPT !.quote = PriceOf(placed)]]
  BY DEF Place
<1> DEFINE placed == [line EXCEPT !.range = range, !.based = based, !.base = base]
           done == [placed EXCEPT !.quote = PriceOf(placed)]
<1>2. /\ LineOf(line, Len(versions)) /\ LineTypes(line)
      /\ line.group \in Group \cup {None} /\ line.v \in 1 .. Len(versions)
  BY DEF ProductInv, OrdersInv, ProductTypes, Place, LineOf, LineTypes
<1>3. based \in BOOLEAN
  BY DEF HasPrice
<1>4. base \in ListPrice \cup GroupPrices /\ base \in Nat
  <2>1. CASE based
    <3>1. groups[line.group] \in GroupRow
      BY <1>2, <2>1 DEF HasPrice, ProductInv, GroupsInv
    <3> QED
      BY <2>1, <3>1 DEF GroupRow, ProductAssumption
  <2>2. CASE ~based
    <3>1. versions[line.v] \in ListPrice
      BY <1>2 DEF ProductTypes
    <3> QED
      BY <2>2, <3>1 DEF ProductAssumption
  <2> QED
    BY <2>1, <2>2
<1>5. placed.v = line.v /\ placed.group = line.group /\ placed.range = range /\ placed.base = base
  <2>1. line = [v |-> line.v, group |-> line.group, range |-> line.range, base |-> line.base,
                based |-> line.based, quote |-> line.quote]
    BY <1>2 DEF LineOf
  <2> HIDE DEF line, based, base
  <2> QED
    BY <2>1
<1>6. DOMAIN placed = {"v", "group", "range", "base", "based", "quote"}
  <2>1. line = [v |-> line.v, group |-> line.group, range |-> line.range, base |-> line.base,
                based |-> line.based, quote |-> line.quote]
    BY <1>2 DEF LineOf
  <2>2. DOMAIN line = {"v", "group", "range", "base", "based", "quote"}
    <3> HIDE DEF line
    <3> QED
      BY <2>1
  <2> HIDE DEF line, based, base
  <2> QED
    BY <2>2
<1>7. PriceOf(placed) \in Nat
  <2>1. Slots(SlotsOf(placed.v))
    <3>1. SlotsOf(placed.v) = OfVersion(slots, placed.v)
      BY DEF SlotsOf, OfVersion
    <3>2. fixed \in BOOLEAN /\ SlotsInv(slots, Len(versions)) /\ Len(versions) \in Nat
      BY DEF ProductInv
    <3>3. placed.v \in Nat
      BY <1>2, <1>5
    <3> HIDE DEF placed
    <3> QED
      BY <3>1, <3>2, <3>3, VersionSlots
  <2>2. Known(placed) \in BOOLEAN
    BY DEF Known
  <2>3. placed.range[1] \in Nat /\ placed.range[2] \in Nat /\ placed.range[1] < placed.range[2]
    BY <1>5 DEF ProductAssumption
  <2>4. placed.group \in Group \cup {None} /\ placed.base \in Nat
    BY <1>2, <1>4, <1>5
  <2>5. fixed \in BOOLEAN
    BY DEF ProductInv
  <2> HIDE DEF placed
  <2> QED
    BY <2>1, <2>2, <2>3, <2>4, <2>5, PriceIsNumber DEF PriceOf
<1>8. done.v = line.v /\ done.range = range /\ done.base = base /\ done.quote \in Nat
  <2> HIDE DEF placed, line, based, base
  <2> QED
    BY <1>5, <1>6, <1>7
<1>9. LineTypes(done)
  BY <1>2, <1>4, <1>8 DEF LineTypes
<1> HIDE DEF done
<1>10. /\ orders = [x \in Order |-> orders[x]]
       /\ orders' = [orders EXCEPT ![o] = done]
  BY <1>1 DEF ProductInv, OrdersInv, done
<1>11. \A x \in Order : orders'[x] # None => LineTypes(orders'[x])
  BY <1>9, <1>10 DEF ProductTypes
<1> QED
  BY <1>11 DEF ProductTypes, Place

LEMMA OtherTypes ==
    ASSUME ProductInv, ProductTypes,
           (\E a \in Admin : Refused(a)) \/ DeleteSlot \/ DeleteGroup
    PROVE  ProductTypes'
<1>1. ASSUME NEW a \in Admin, Refused(a) PROVE ProductTypes'
  <2>1. \A b \in Admin : form'[b] # None => form'[b].v > 0
    BY <1>1, DoneTypes DEF Refused
  <2> QED
    BY <1>1, <2>1 DEF ProductTypes, Refused, LineTypes
<1>2. CASE DeleteSlot
  BY <1>2 DEF ProductTypes, DeleteSlot, LineTypes
<1>3. CASE DeleteGroup
  <2>1. PICK g \in Group : groups' = [groups EXCEPT ![g] = None]
    BY <1>3 DEF DeleteGroup
  <2>2. \A h \in Group : groups'[h] # None => groups'[h].v > 0
    BY <2>1 DEF ProductTypes, ProductInv, GroupsInv
  <2> QED
    BY <1>3, <2>2 DEF ProductTypes, DeleteGroup, LineTypes
<1> QED
  BY <1>1, <1>2, <1>3

LEMMA NextTypes ==
    ASSUME ProductAssumption, ProductInv, ProductTypes, [Next]_vars
    PROVE  ProductTypes'
<1>1. CASE UNCHANGED vars
  BY <1>1 DEF vars, ProductTypes, LineTypes
<1>2. CASE \E o \in Order : Basket(o) \/ Place(o)
  BY <1>2, BasketTypes, PlaceTypes
<1>3. CASE \E a \in Admin : Open(a) \/ SaveProduct(a) \/ SaveSlot(a) \/ SaveGroup(a) \/ Refused(a)
  BY <1>3, OpenTypes, SaveProductTypes, SaveSlotTypes, SaveGroupTypes, OtherTypes
<1>4. CASE DeleteSlot \/ DeleteGroup
  BY <1>4, OtherTypes
<1> QED
  BY <1>1, <1>2, <1>3, <1>4 DEF Next

LEMMA TypesOK == ASSUME ProductAssumption, ProductInv, ProductTypes PROVE TypeOK
<1> DEFINE n == Len(versions)
<1>1. n \in 1 .. MaxVersion /\ n \in Nat /\ MaxVersion \in Nat /\ Current = n
  BY DEF ProductInv, ProductTypes, ProductAssumption, Current
<1>2. fixed \in BOOLEAN
  BY DEF ProductInv
<1>3. versions \in UNION {[1 .. m -> ListPrice] : m \in 1 .. MaxVersion}
  <2>1. versions \in [1 .. n -> ListPrice]
    BY DEF ProductTypes
  <2> QED
    BY <1>1, <2>1
<1>4. \A s \in slots : s \in SlotRow /\ s.v <= Current
  <2> SUFFICES ASSUME NEW s \in slots PROVE s \in SlotRow /\ s.v <= Current
    OBVIOUS
  <2>1. s \in SlotShape /\ s.v <= n /\ s.v > 0
    BY DEF ProductInv, SlotsInv, ProductTypes
  <2>2. s.v \in 1 .. MaxVersion
    BY <1>1, <2>1 DEF SlotShape
  <2> QED
    BY <1>1, <2>1, <2>2 DEF SlotShape, SlotRow
<1>5. groups \in [Group -> [v : 1 .. Current, price : GroupPrices] \cup {None}]
  <2>1. \A g \in Group : groups[g] \in [v : 1 .. Current, price : GroupPrices] \cup {None}
    <3> SUFFICES ASSUME NEW g \in Group, groups[g] # None
                 PROVE  groups[g] \in [v : 1 .. Current, price : GroupPrices]
      OBVIOUS
    <3>1. groups[g] \in GroupRow /\ groups[g].v <= n /\ groups[g].v > 0
      BY DEF ProductInv, GroupsInv, ProductTypes
    <3> QED
      BY <1>1, <3>1 DEF GroupRow
  <2> QED
    BY <2>1 DEF ProductInv, GroupsInv
<1>6. \A o \in Order : orders[o] = None \/ (orders[o] \in OrderLine /\ orders[o].v <= Current)
  <2> SUFFICES ASSUME NEW o \in Order, orders[o] # None
               PROVE  orders[o] \in OrderLine /\ orders[o].v <= Current
    OBVIOUS
  <2>1. LineOf(orders[o], n) /\ LineTypes(orders[o])
    BY DEF ProductInv, OrdersInv, ProductTypes
  <2>2. orders[o].v \in 1 .. MaxVersion
    BY <1>1, <2>1 DEF LineOf, LineTypes
  <2> QED
    BY <1>1, <2>1, <2>2 DEF LineOf, LineTypes, OrderLine
<1>7. \A a \in Admin : form[a] = None \/ form[a].v <= Current
  BY <1>1 DEF ProductInv, FormsInv, FormOf
<1>8. struck \in SUBSET Placed
  BY Words DEF ProductInv, OrdersInv
<1> QED
  BY <1>2, <1>3, <1>4, <1>5, <1>6, <1>7, <1>8 DEF TypeOK

\* Every table and request holds what it may: each order line is of a version there is, and what
\* it has to pay is a number.
THEOREM ProductsTyped ==
    ASSUME ProductAssumption
    PROVE  Spec => []TypeOK
<1>1. Init => ProductTypes
  BY InitTypes
<1>2. ProductInv /\ ProductTypes /\ [Next]_vars => ProductTypes'
  BY NextTypes
<1>3. ProductInv /\ ProductTypes => TypeOK
  BY TypesOK
<1> QED
  BY <1>1, <1>2, <1>3, ProductInvariant, PTL DEF Spec

=============================================================================
