---------------------------- MODULE MCTimeTracker ----------------------------
(***************************************************************************)
(* TimeTracker on a calendar with a midnight at 2.                         *)
(***************************************************************************)
EXTENDS TimeTracker

Midnights == {0, 2, 8}

MCDayStart(t) == CHOOSE m \in Midnights :
                    m <= t /\ \A n \in Midnights : n <= t => n <= m

MCNextDay(t) == CHOOSE m \in Midnights :
                    m > t /\ \A n \in Midnights : n > t => m <= n
==============================================================================
