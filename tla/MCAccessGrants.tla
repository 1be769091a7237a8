--------------------------- MODULE MCAccessGrants ---------------------------
(* Instances of AccessGrants for TLC. *)
EXTENDS AccessGrants, TLC

CONSTANTS r1, c1, c2, k1, k2, p1, p2

AllFaults == {"refused", "lost", "notify", "crash"}

\* One process for each driver, whatever goes wrong; two where jobs may overlap
One(faults) == [driver : {"sipass", "abloy"}, grants : {{1, 2}}, cron : {{c} : c \in Cron},
                faults : {faults}]
Two(drivers, rows, faults) ==
    [driver : drivers, grants : {rows}, cron : {Cron}, faults : {faults}]

\* For safety, with a third grant where little else goes wrong; and for liveness
SafetySettings == One(AllFaults)
    \cup Two({"sipass", "abloy"}, {1, 2}, {"refused", "crash"})
    \cup Two({"sipass"}, Grant, {}) \cup Two({"abloy"}, Grant, {"crash"})
LivenessSettings == One({"refused", "crash"})

Symmetric == Permutations(Cron) \cup Permutations(Code) \cup Permutations(Period)
=============================================================================
