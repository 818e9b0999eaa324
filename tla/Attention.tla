------------------------------ MODULE Attention ------------------------------
(***************************************************************************)
(* SegmentTracker with a record of what really happened, so that the time  *)
(* it bills can be compared with it.  The history variables restrict       *)
(* nothing.                                                                *)
(***************************************************************************)
EXTENDS SegmentTracker, FiniteSets

VARIABLES
    seen,       \* the last time an update had a sign of the user's presence
    place,      \* where the user was then; NoWorkspace when the daemon has ended
    arrived,    \* the first time of presence there, without another place between
    worked,     \* the seconds between two such times that count as work
    lost,       \* the seconds of segments and of midnights that no entry keeps
    absent      \* the seconds that were billed after the last sign of presence

history == <<seen, place, arrived, worked, lost, absent>>

attentionVars == <<vars, history>>

Between(from, to) == from..(to - 1)

Billed == UNION {Between(entries[i].start, entries[i].end) : i \in 1..Len(entries)}

\* A change of focus is evidence of presence, and so is an active poll of the
\* Space in focus.
ShowsPresence ==
    \/ call.active /\ call.ws \in Workspaces
    \/ IsOpen /\ call.ws # current.ws

\* Two signs of presence less than the idle timeout apart, the first of them
\* in a Space, are work.
WorkedSinceSeen ==
    IF place \in Workspaces /\ now - seen < IdleTimeout THEN Between(seen, now) ELSE {}

\* The seconds of the open segment up to its end that leave no entry.
Dropped(end) ==
    IF IsOpen /\ ~IsKept(current, end) THEN Between(current.start, end) ELSE {}

AttentionInit ==
    /\ Init
    /\ seen = now
    /\ place = NoWorkspace
    /\ arrived = now
    /\ worked = {}
    /\ lost = {}
    /\ absent = 0

AttentionBegin(ws, active) ==
    /\ BeginUpdate(ws, active)
    /\ lost' = IF current' = NoSegment /\ IsOpen
               THEN lost \cup Dropped(current.last) ELSE lost
    /\ UNCHANGED <<seen, place, arrived, worked, absent>>

AttentionRollover ==
    /\ Rollover
    /\ lost' = lost \cup Between(EndOfDay(current.start), NextDay(current.start))
                    \cup Dropped(EndOfDay(current.start))
    /\ UNCHANGED <<seen, place, arrived, worked, absent>>

AttentionEnd ==
    /\ EndUpdate
    /\ lost' = IF IsOpen /\ call.ws # current.ws
               THEN lost \cup Dropped(now) ELSE lost
    /\ absent' = Cardinality({t \in Billed' : t >= seen})
    /\ IF ShowsPresence
       THEN /\ seen' = now
            /\ place' = call.ws
            /\ arrived' = IF call.ws = place THEN arrived ELSE now
            /\ worked' = worked \cup WorkedSinceSeen
       ELSE UNCHANGED <<seen, place, arrived, worked>>

AttentionClose ==
    /\ Close("shutdown")
    /\ lost' = lost \cup Dropped(current.last)
    /\ place' = NoWorkspace
    /\ UNCHANGED <<seen, arrived, worked, absent>>

AttentionNext ==
    \/ Tick /\ UNCHANGED history
    \/ \E ws \in Focus, active \in BOOLEAN : AttentionBegin(ws, active)
    \/ AttentionRollover
    \/ AttentionEnd
    \/ AttentionClose

AttentionSpec == AttentionInit /\ [][AttentionNext]_attentionVars

-----------------------------------------------------------------------------

\* Between two updates, every second of work is in an entry or in the open
\* segment, or it was dropped on purpose: the segment was shorter than
\* minEntrySec, or it is the second before midnight (segments.py:6-18).
WorkIsBilled ==
    call.phase = "ready" =>
        worked \subseteq Billed \cup lost \cup
            (IF IsOpen THEN Between(current.start, current.last) ELSE {})

\* What an absence can add to the entries stays below two idle timeouts: one
\* before midnight, where the rollover bills the day to its end, and one
\* after it, until the switch.
OverCountBelowTwoTimeouts == absent < 2 * IdleTimeout

\* Every second is billed to the Space in which the user was last seen: no
\* backdated end and no part that is carried over midnight gives time to the
\* Space that had the focus before, or to the one that has it next
\* (segments.py:161-198).
BilledWhereSeen ==
    [][entries' # entries =>
         LET e == entries'[Len(entries')]
         IN  e.ws = place /\ arrived <= e.start /\ e.end <= now]_attentionVars

==============================================================================
