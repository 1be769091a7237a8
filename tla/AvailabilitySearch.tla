------------------------- MODULE AvailabilitySearch -------------------------
(***************************************************************************)
(* The filter available_between of the search for resources                *)
(* (ResourceFilterSet, src/resources/api/resource.py): which resources are *)
(* free for a whole range of time, and which have a free slot of a given   *)
(* length in it.  The two are written twice, by a query and by a walk over *)
(* the reservations; both are operators here, of one resource on one day.  *)
(*                                                                         *)
(* Hours are Closed or a pair, a reservation is a pair of times.           *)
(***************************************************************************)
EXTENDS Integers, SequencesExt

CONSTANTS
    Times,  \* times of the day
    Closed, \* the hours of a day the resource is not open on
    MaxReservations \* bound on the reservations of a day

SearchAssumption == Times \subseteq Int /\ Closed \notin Times \X Times /\ MaxReservations \in Nat

VARIABLES
    open,         \* the hours of the day
    reservations, \* the current reservations of the resource on it
    asked         \* the range and the length of the search

Before(x, y) == IF x < y THEN x ELSE y
After(x, y) == IF x > y THEN x ELSE y

Spans == {s \in Times \X Times : s[1] < s[2]}

\* reservations of a resource that overlap the range
Overlapping(rs, start, end) == {r \in rs : r[2] > start /\ r[1] < end}

\* _is_resource_open
IsOpen(hours, start, end) == hours # Closed /\ hours[1] <= start /\ end <= hours[2]

\* _filter_available_between_whole_range
FreeFor(rs, hours, start, end) == Overlapping(rs, start, end) = {} /\ IsOpen(hours, start, end)

\* (mutant) the period has to be shorter than the gap
MutFits(period, gap) == gap > period

Fits(period, gap) == gap >= period

\* One round of the loop; current is where the next gap may begin, and last the end of the
\* reservation looked at last, past or not
Look(walk, r, end, period) ==
    IF walk.found # "no" THEN walk
    ELSE IF r[2] <= walk.current THEN [walk EXCEPT !.last = r[2]]
    ELSE [current |-> r[2], last |-> r[2],
          found |-> IF Fits(period, r[1] - walk.current) THEN "yes"
                    ELSE IF r[2] > end THEN "never"
                    ELSE "no"]

\* reservations.order_by('begin')
Begun(rs) == CHOOSE q \in SetToSeqs(rs) : \A i, j \in DOMAIN q : i < j => q[i][1] <= q[j][1]

\* _is_resource_available; walk is the state of the loop after so many reservations
HasSlot(rs, hours, start, end, period) ==
    hours # Closed /\
    LET from == After(start, hours[1])
        to == Before(end, hours[2])
        begun == Begun(Overlapping(rs, start, end))
        walk[i \in 0..Len(begun)] ==
            IF i = 0 THEN [current |-> from, last |-> from, found |-> "no"]
            ELSE Look(walk[i - 1], begun[i], to, period)
        done == walk[Len(begun)]
    IN  /\ from < to
        /\ done.found = "yes" \/ (done.found = "no" /\ Fits(period, to - done.last))

\* A day with a few reservations, and a search on it
Init ==
    /\ open \in Spans \cup {Closed}
    /\ reservations \in {R \in SUBSET Spans : IsFiniteSet(R) /\ Cardinality(R) <= MaxReservations}
    /\ asked \in [range : Spans, period : {t \in Times : t > 0}]

-----------------------------------------------------------------------------
(* Properties *)

\* As reservations are that keep the hours and do not overlap; one that begins before the hours
\* and ends in them, or the other way round, does no harm
Orderly ==
    /\ \A r, s \in reservations : r[1] <= s[1] => r[2] <= s[2]
    /\ open # Closed => \A r \in reservations : r[2] > open[1] /\ r[1] < open[2]

\* The two searches agree: a resource has a free slot of some length in a range exactly when it is
\* free for the whole of some range of that length within it.
SearchesAgree == Orderly =>
    LET start == asked.range[1]  end == asked.range[2]  period == asked.period IN
    HasSlot(reservations, open, start, end, period)
      <=> \E t \in Times : /\ start <= t /\ t + period <= end
                           /\ FreeFor(reservations, open, t, t + period)
=============================================================================
