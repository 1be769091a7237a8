------------------------------ MODULE MCBooking ------------------------------
(* Instances of Booking for TLC. *)
EXTENDS Booking, TLC

CONSTANTS room, hall, ann, sue, u1, k1, k2, k3, w1, w2, w3

\* ann is a customer, sue manages the unit
\* (the cooldown and the limits bind her as well)
BoundPerms == [u \in User |-> IF u = sue THEN {"approve", "modify", "staff"} ELSE {}]

\* The cooldown binds ann, the limit binds sue
MixedPerms == [u \in User |-> IF u = sue THEN {"approve", "modify", "staff", "viewer"}
                              ELSE {"ignore_max"}]

OneUnit == [r \in Resource |-> u1]
None == [r \in Resource |-> 0]
One == [r \in Resource |-> 1]
Many == [r \in Resource |-> Cardinality(Rid)]

\* Three periods that overlap in pairs but for the first and the last
Chain == {<<0, 2>>, <<1, 3>>, <<2, 3>>}
\* A period and one that meets its end
Near == {<<0, 1>>, <<1, 2>>}
Pair == {<<0, 2>>, <<1, 2>>}
Once == {<<0, 1>>}

Symmetric == Permutations(Rid) \cup Permutations(Worker)

=============================================================================
