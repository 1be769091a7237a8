--------------------------- MODULE MCOrderPayments ---------------------------
(* Instances of OrderPayments for TLC. *)
EXTENDS OrderPayments, TLC

CONSTANTS o1, o2, w1, w2, c1

AllStaff == {"staff", "bypass", "approve", "edit_paid"}
Symmetric == Permutations(Worker)

=============================================================================
