------------------------------- MODULE Journal -------------------------------
(***************************************************************************)
(* workspace-time-tracker/src/store.py: entries.jsonl as text, to which    *)
(* the daemons of all sessions append, and from which the report reads.    *)
(*                                                                         *)
(* A line is cut down to the brace that opens the entry, the entry, the    *)
(* brace that closes it and the newline.  An append is one write() to a    *)
(* file opened O_APPEND: it is never inside another one, but it can be     *)
(* short (a full disk), which append_entry() does not notice.              *)
(***************************************************************************)
EXTENDS Integers, Sequences, FiniteSets, FiniteSetsExt, SequencesExt

Newline == "\n"

Line(e) == <<"{", e, "}", Newline>>

\* An append: of which entry, and how many characters of its line got there.
Whole(append) == append.length = Len(Line(append.of))

\* entries.jsonl after these appends.
Text(appends) ==
    FlattenSeq([i \in DOMAIN appends |->
        SubSeq(Line(appends[i].of), 1, appends[i].length)])

LineStarts(s) == {1} \cup {i + 1 : i \in {j \in DOMAIN s : s[j] = Newline}}

\* The line that starts at i, up to its newline or to the end of the file.
LineAt(s, i) ==
    LET ends == {j \in i..Len(s) : s[j] = Newline}
    IN  SubSeq(s, i, Min(ends \cup {Len(s) + 1}) - 1)

IsEntry(line) == Len(line) = 3 /\ line[1] = "{" /\ line[3] = "}"

UpToTheFirstBad(s) ==
    {i \in LineStarts(s) :
        \A j \in LineStarts(s) : j <= i => IsEntry(LineAt(s, j))}

\* read_entries(): each line that parses gives an entry; the others are skipped.
GoodLines(s) == {i \in LineStarts(s) : IsEntry(LineAt(s, i))}
==============================================================================
