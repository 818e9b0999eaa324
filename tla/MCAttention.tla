----------------------------- MODULE MCAttention -----------------------------
(***************************************************************************)
(* Attention on a calendar with midnights at 4, 9, 14, 18 and 23.           *)
(***************************************************************************)
EXTENDS Attention, TLC

Symmetry == Permutations(Workspaces)

Midnights == {0, 4, 9, 14, 18, 23}

MCDayStart(t) == CHOOSE m \in Midnights :
                    m <= t /\ \A n \in Midnights : n <= t => n <= m

MCNextDay(t) == CHOOSE m \in Midnights :
                    m > t /\ \A n \in Midnights : n > t => m <= n

ForwardSteps == {1, 3}

AnySteps == {-1, 1}
==============================================================================
