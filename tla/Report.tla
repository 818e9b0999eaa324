-------------------------------- MODULE Report --------------------------------
(***************************************************************************)
(* workspace-time-tracker/src/report.py: the sums over the entries of a    *)
(* range of local days, and the note that some of them overlap.  A day is  *)
(* its midnight; a range without a bound is one with a bound far away.  An *)
(* entry is named by its position in the list that was read, so a selection*)
(* from the list is a set of positions.                                    *)
(***************************************************************************)
EXTENDS Integers, Sequences, FiniteSets

CONSTANT DayStart(_)    \* the local midnight at or before a time

EntryDay(e) == DayStart(e.start)

FilterEntriesUntil(entries, since, until) ==
    {i \in DOMAIN entries :
        since <= EntryDay(entries[i]) /\ EntryDay(entries[i]) < until}

\* Entries are filtered by the day they start in: none of them spans two.
FilterEntries(entries, since, until) ==
    {i \in DOMAIN entries :
        since <= EntryDay(entries[i]) /\ EntryDay(entries[i]) <= until}

Seconds(e) == e.end - e.start

\* The order in which has_overlap() puts the entries, and those next to each other
\* in it.  (Which of two equal spans is first makes no difference.)
Earlier(entries, i, j) ==
    \/ entries[i].start < entries[j].start
    \/ /\ entries[i].start = entries[j].start
       /\ \/ entries[i].end < entries[j].end
          \/ entries[i].end = entries[j].end /\ i < j

Neighbours(entries, selected, i, j) ==
    /\ Earlier(entries, i, j)
    /\ \A k \in selected : ~(Earlier(entries, i, k) /\ Earlier(entries, k, j))

HasOverlap(entries, selected) ==
    \E i, j \in selected :
        Neighbours(entries, selected, i, j) /\ entries[j].start < entries[i].end

\* The seconds of these entries, added up in the order of the list.
Total(entries, which) ==
    LET upTo[n \in 0..Len(entries)] ==
            IF n = 0 THEN 0
            ELSE upTo[n - 1] + (IF n \in which THEN Seconds(entries[n]) ELSE 0)
    IN  upTo[Len(entries)]

\* What a sum is of: `by` is "workspace" or "day".  (A label stands for its Space.)
Key(e, by) == IF by = "day" THEN EntryDay(e) ELSE e.ws

\* (The sum of the totals is that of the entries selected.)
Summarise(entries, by, since, until) ==
    LET selected == FilterEntries(entries, since, until)
        keys == {Key(entries[i], by) : i \in selected}
        of(k) == {i \in selected : Key(entries[i], by) = k}
    IN  [totals |-> [k \in keys |-> Total(entries, of(k))],
         counts |-> [k \in keys |-> Cardinality(of(k))],
         total_seconds |-> Total(entries, selected),
         overlapping |-> HasOverlap(entries, selected)]
==============================================================================
