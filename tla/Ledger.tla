------------------------------- MODULE Ledger --------------------------------
(***************************************************************************)
(* What the time tracker promises about the entries of one Herdr session:  *)
(* a list that only grows, each new entry a non-empty interval inside one  *)
(* local day that starts no earlier than the previous one ended.  The      *)
(* report relies on it: report.py filters by start day because an entry    *)
(* never spans two days, and adds the seconds up as wall-clock time unless *)
(* entries overlap, which it attributes to a second session.               *)
(***************************************************************************)
EXTENDS Integers, Sequences

CONSTANTS
    Workspaces,     \* the Spaces of the session
    Reasons,        \* the end_reason values an entry can carry
    DayStart(_),    \* the local midnight at or before a time
    MinEntry        \* minEntrySec

VARIABLE entries    \* the entries recorded so far, oldest first

Entry == [ws : Workspaces, start : Int, end : Int, reason : Reasons]

WellFormed(e) ==
    /\ e.start < e.end
    /\ e.end - e.start >= MinEntry
    /\ DayStart(e.start) = DayStart(e.end)

Follows(e) ==
    \A i \in 1..Len(entries) : entries[i].end <= e.start

Init == entries = <<>>

Record(e) ==
    /\ WellFormed(e)
    /\ Follows(e)
    /\ entries' = Append(entries, e)

\* The new entry is the last one, which saves TLC the enumeration of Entry.
Next ==
    /\ entries' # <<>>
    /\ LET e == entries'[Len(entries')] IN e \in Entry /\ Record(e)

Spec == Init /\ [][Next]_entries
==============================================================================
