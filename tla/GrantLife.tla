----------------------------- MODULE GrantLife -----------------------------
(***************************************************************************)
(* What access control promises of each grant: it is wanted, then it may   *)
(* open its door, and once it is closed it never opens a door again.  When *)
(* an answer of the remote system is lost, a job dies or the last step of  *)
(* an installation fails, its fate is unknown and nothing is promised.     *)
(***************************************************************************)
CONSTANT Grant
VARIABLE life

Stage == {"none", "wanted", "open", "closed", "unknown"}

\* A reservation is confirmed or changed, perhaps too late
Want == {<<"none", "wanted">>, <<"none", "closed">>}

\* The remote system lets the holder of the code in
Open == {<<"wanted", "open">>}

\* The grant is withdrawn, or its time is over
Close == {<<"wanted", "closed">>, <<"open", "closed">>}

LoseSight == {<<s, "unknown">> : s \in Stage \ {"none"}}

Stay == {<<s, s>> : s \in Stage}

Init == life = [g \in Grant |-> "none"]

\* Time closes several grants at once
Next ==
    /\ life' \in [Grant -> Stage]
    /\ \A g \in Grant : <<life[g], life'[g]>> \in Want \cup Open \cup Close \cup LoseSight \cup Stay

Spec == Init /\ [][Next]_life
=============================================================================
