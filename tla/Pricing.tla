------------------------------ MODULE Pricing ------------------------------
(***************************************************************************)
(* What a product costs (payments): a default price, the prices of time    *)
(* slots, and those of customer groups.  The code computes it three times, *)
(* as one number, in detail, and for fixed prices by functions of their    *)
(* own.                                                                    *)
(*                                                                         *)
(* Times are counted in the chunks of five minutes that the code prices    *)
(* one by one, and prices per period in the price of a chunk: roundings,   *)
(* taxes and remainders of a chunk are left out.                           *)
(***************************************************************************)
EXTENDS Integers, FiniteSets, FiniteSetsExt

CONSTANTS
    Group, \* customer groups
    None   \* no group, no price

\* A priced time slot holds its time, its price and those of groups in it

\* is_datetime_range_between_times; begin__lte, end__gte
Contains(s, b, e) == s.begin <= b /\ e <= s.end

PricedFor(s, g) == g # None /\ s.groups[g] # None

SlotPrice(s, g) == IF PricedFor(s, g) THEN s.groups[g] ELSE s.price

\* TimeSlotPrice.Meta.ordering: which of two slots of one time is first is the database's choice
FirstSlot(S) == CHOOSE s \in S : \A t \in S :
    s.begin < t.begin \/ (s.begin = t.begin /\ s.end <= t.end)

\* find_time_slot_with_smallest_duration
SmallestSlot(S) ==
    FirstSlot({s \in S : \A t \in S : s.end - s.begin <= t.end - t.begin})

-----------------------------------------------------------------------------
(* Fixed prices: one slot for the whole time *)

\* The slots that may decide, for a group that the product has prices for, or has not
Eligible(S, b, e, g, known) ==
    LET around == {s \in S : Contains(s, b, e)}
        own == {s \in around : PricedFor(s, g)}
    IN  IF own # {} THEN own ELSE IF known THEN {} ELSE around

FixedPrice(S, b, e, g, known, default) ==
    LET chosen == Eligible(S, b, e, g, known) IN
    IF chosen = {} THEN default ELSE SlotPrice(SmallestSlot(chosen), g)

-----------------------------------------------------------------------------
(* Prices per period: the first slot around each chunk *)

Chunks(b, e) == b .. e - 1

ChunkPrice(S, c, g, known, default) ==
    LET around == {s \in S : Contains(s, c, c + 1)} IN
    IF around = {} THEN default
    ELSE LET s == FirstSlot(around) IN
         IF PricedFor(s, g) THEN s.groups[g] ELSE IF known THEN default ELSE s.price

\* get_price_for_time_range
TotalPrice(fixed, S, b, e, g, known, default) ==
    IF fixed THEN FixedPrice(S, b, e, g, known, default)
    ELSE IF S = {} THEN default * (e - b)
    ELSE SumFunction([c \in Chunks(b, e) |-> ChunkPrice(S, c, g, known, default)])

-----------------------------------------------------------------------------
(* Prices in detail: what is paid how many times *)

\* (mutant) the prices of groups that the product has are forgotten
MutDetailSlots(S, c, g, known) == {s \in S : Contains(s, c, c + 1)}

\* The slot, if any, under which a chunk is listed
DetailSlots(S, c, g, known) ==
    LET around == {s \in S : Contains(s, c, c + 1)} IN
    IF around = {} \/ (known /\ ~PricedFor(FirstSlot(around), g)) THEN {}
    ELSE {FirstSlot(around)}

\* get_detailed_price_for_time_range: the default stands for what has no slot
Detail(fixed, S, b, e, g, known, default) ==
    IF fixed THEN {[slots |-> {}, count |-> 1, price |-> FixedPrice(S, b, e, g, known, default)]}
    ELSE {[slots |-> x,
           count |-> Cardinality({c \in Chunks(b, e) : DetailSlots(S, c, g, known) = x}),
           price |-> IF x = {} THEN default ELSE SlotPrice(FirstSlot(x), g)] :
              x \in {DetailSlots(S, c, g, known) : c \in Chunks(b, e)}}

DetailTotal(d) == MapThenSumSet(LAMBDA x : x.count * x.price, d)
=============================================================================
