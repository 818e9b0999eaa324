-------------------------------- MODULE Jsonc --------------------------------
(***************************************************************************)
(* vscode-workspace-sync/src/jsonc.py, and the splice of rewrite.py: how a *)
(* run finds the `folders` member in the text of a workspace file, with    *)
(* the comments and trailing commas the user may have there, and puts      *)
(* another array in its place.                                             *)
(*                                                                         *)
(* The scanner runs as it is written, one action per branch of its loop.   *)
(* What it should find is said by a grammar: every text is that of a       *)
(* document (doc), and each run that writes changes the document too, by   *)
(* its definition.  A text is a sequence of characters, of which there are *)
(* as few as the scanner tells apart: F stands for the word folders, P for *)
(* path, and indentation is left out.                                      *)
(***************************************************************************)
EXTENDS Integers, Sequences, FiniteSetsExt, SequencesExt

CONSTANTS
    Characters,     \* those of a text
    Documents,      \* the workspace files to begin with, see Text
    FolderLists     \* what runs write: lists of paths

VARIABLES
    doc,            \* the document that text should be
    text,           \* the workspace file
    phase,          \* "start", "scan" or "located"
    at,             \* i: where the scanner is
    expect,         \* state
    matched,        \* key_matched
    valueStart,     \* value_start
    found           \* the Member, once located

vars == <<doc, text, phase, at, expect, matched, valueStart, found>>

NoMember == [first |-> 0, next |-> 0]

Quote == "\""
Escape == "\\"
Newline == "\n"
Space == " "
LeftBrace == "{"
RightBrace == "}"
White == {Space, Newline}
Opening == {LeftBrace, "["}
Closing == {RightBrace, "]"}

Syntax == White \cup Opening \cup Closing
          \cup {Quote, Escape, "/", "*", ",", ":", "F", "P"}

ASSUME CharacterAssumption == Syntax \subseteq Characters

FoldersKey == <<Quote, "F", Quote>>
PathKey == <<Quote, "P", Quote>>

-----------------------------------------------------------------------------
(* The scanner.  A position past the last character stands for the end.    *)

FirstAt(s, i, P(_)) == Min({j \in i..Len(s) : P(j)} \cup {Len(s) + 1})

StartsComment(s, i) == i < Len(s) /\ s[i] = "/" /\ s[i + 1] \in {"/", "*"}

CommentEnd(s, i) ==
    LET closes(j) == j < Len(s) /\ s[j] = "*" /\ s[j + 1] = "/"
        ends(j) == s[j] = Newline
    IN  IF s[i + 1] = "/" THEN FirstAt(s, i + 2, ends)
        ELSE Min({FirstAt(s, i + 2, closes) + 2, Len(s) + 1})

SkipGap(s, i) ==
    LET skip[j \in 1..(Len(s) + 1)] ==
            IF j > Len(s) THEN j
            ELSE CASE s[j] \in White -> skip[j + 1]
                   [] StartsComment(s, j) -> skip[CommentEnd(s, j)]
                   [] OTHER -> j
    IN  skip[i]

StringEndUnescaped(s, i) ==
    LET closes(j) == s[j] = Quote IN Min({FirstAt(s, i + 1, closes) + 1, Len(s) + 1})

\* i is the opening quote; an unterminated string is the rest of the text.
StringEnd(s, i) ==
    LET after[j \in 1..(Len(s) + 2)] ==
            IF j > Len(s) THEN Len(s) + 1
            ELSE CASE s[j] = Quote -> j + 1
                   [] s[j] = Escape -> after[j + 2]
                   [] OTHER -> after[j + 1]
    IN  after[i + 1]

\* i is an opening bracket: past its match, strings and comments skipped.
ContainerEnd(s, i) ==
    LET after[j \in 1..(Len(s) + 1)] == [depth \in Nat |->
            IF j > Len(s) THEN j
            ELSE CASE s[j] = Quote -> after[StringEnd(s, j)][depth]
                   [] StartsComment(s, j) -> after[SkipGap(s, j)][depth]
                   [] s[j] \in Opening -> after[j + 1][depth + 1]
                   [] s[j] \in Closing /\ depth <= 1 -> j + 1
                   [] s[j] \in Closing /\ depth > 1 -> after[j + 1][depth - 1]
                   [] OTHER -> after[j + 1][depth]]
    IN  after[i][0]

LiteralEnd(s, i) ==
    LET stops(j) == s[j] \in {",", RightBrace, "]"} \cup White \/ StartsComment(s, j)
    IN  FirstAt(s, i, stops)

ValueEnd(s, i) ==
    CASE s[i] = Quote -> StringEnd(s, i)
      [] s[i] \in Opening -> ContainerEnd(s, i)
      [] OTHER -> Max({LiteralEnd(s, i), i + 1})

\* The `{` of the root object, or 0 when the root is something else.
RootOpen(s) ==
    LET i == SkipGap(s, 1) IN IF i <= Len(s) /\ s[i] = LeftBrace THEN i ELSE 0

-----------------------------------------------------------------------------
(* loads(): which characters are blanked before json.loads sees the text.  *)

CommentPositions(s) ==
    LET from[j \in 1..(Len(s) + 1)] ==
            IF j > Len(s) THEN {}
            ELSE CASE s[j] = Quote -> from[StringEnd(s, j)]
                   [] StartsComment(s, j) ->
                          j..(SkipGap(s, j) - 1) \cup from[SkipGap(s, j)]
                   [] OTHER -> from[j + 1]
    IN  from[1]

StripComments(s) ==
    LET blanked == {j \in CommentPositions(s) : s[j] # Newline}
    IN  [j \in DOMAIN s |-> IF j \in blanked THEN Space ELSE s[j]]

ClosesNext(s, j) == j <= Len(s) /\ s[j] \in Closing

TrailingCommasAdjacent(s) ==
    {j \in DOMAIN s : s[j] = "," /\ ClosesNext(s, j + 1)}

TrailingCommas(s) ==
    LET from[j \in 1..(Len(s) + 1)] ==
            IF j > Len(s) THEN {}
            ELSE CASE s[j] = Quote -> from[StringEnd(s, j)]
                   [] StartsComment(s, j) -> from[SkipGap(s, j)]
                   [] s[j] = "," /\ ClosesNext(s, SkipGap(s, j + 1)) ->
                          {j} \cup from[j + 1]
                   [] OTHER -> from[j + 1]
    IN  from[1]

StripTrailingCommas(s) ==
    LET blanked == TrailingCommas(s)
    IN  [j \in DOMAIN s |-> IF j \in blanked THEN Space ELSE s[j]]

-----------------------------------------------------------------------------
(* rewrite.py: the array of a list of folders, and where it goes.          *)

\* json.dumps of a path.
Dumps(path) ==
    <<Quote>>
    \o FlattenSeq([i \in DOMAIN path |->
           IF path[i] \in {Quote, Escape} THEN <<Escape, path[i]>> ELSE <<path[i]>>])
    \o <<Quote>>

RenderEntry(path) ==
    <<LeftBrace, Space>> \o PathKey \o <<":", Space>> \o Dumps(path)
    \o <<Space, RightBrace>>

RenderFolders(list) ==
    IF list = <<>> THEN <<"[", "]">>
    ELSE <<"[">>
         \o FlattenSeq([i \in DOMAIN list |->
                <<Newline>> \o RenderEntry(list[i])
                \o (IF i < Len(list) THEN <<",">> ELSE <<>>)])
         \o <<Newline, "]">>

\* An object with nothing in front of its `}` but spaces.
IsEmptyObject(rest) ==
    LET ahead(j) == rest[j] # Space
        full(j) == rest[j] \notin White
    IN  \/ FirstAt(rest, 1, full) > Len(rest)
        \/ ClosesNext(rest, FirstAt(rest, 1, ahead))

\* No `folders` yet: it becomes the first member of the root object.
Inserted(s, list) ==
    LET open == RootOpen(s)
        rest == SubSeq(s, open + 1, Len(s))
    IN  SubSeq(s, 1, open) \o <<Newline>> \o FoldersKey \o <<":", Space>>
        \o RenderFolders(list) \o <<",">>
        \o (IF IsEmptyObject(rest) THEN <<Newline>> ELSE <<>>) \o rest

SpliceFolders(s, member, list) ==
    IF member = NoMember THEN Inserted(s, list)
    ELSE SubSeq(s, 1, member.first - 1) \o RenderFolders(list)
         \o SubSeq(s, member.next, Len(s))

-----------------------------------------------------------------------------
(* The grammar.  A gap is white space and comments.  A value has the       *)
(* characters it is written with (raw) and the JSON that they mean, of the *)
(* same length (strict).                                                   *)

Lay(d, Gap(_), Value(_), comma) ==
    LET member(m) == Gap(m.lead) \o m.key \o Gap(m.mid) \o <<":">>
                     \o Gap(m.post) \o Value(m.value) \o Gap(m.tail)
    IN  Gap(d.before) \o <<d.open>>
        \o FlattenSeq([k \in DOMAIN d.members |->
               (IF k = 1 THEN <<>> ELSE <<",">>) \o member(d.members[k])])
        \o (IF d.trailing THEN comma ELSE <<>>)
        \o Gap(d.last) \o <<d.close>> \o Gap(d.after)

Text(d) ==
    LET written(gap) == gap
        raw(value) == value.raw
    IN  Lay(d, written, raw, <<",">>)

Strict(d) ==
    LET blank(gap) == [j \in DOMAIN gap |-> IF gap[j] = Newline THEN Newline ELSE Space]
        strict(value) == value.strict
    IN  Lay(d, blank, strict, <<Space>>)

FoldersOf(d) == {k \in DOMAIN d.members : d.members[k].key = FoldersKey}

\* The document with this list of folders.
WithFolders(d, list) ==
    LET value == [raw |-> RenderFolders(list), strict |-> RenderFolders(list)]
        member == [lead |-> <<Newline>>, key |-> FoldersKey, mid |-> <<>>,
                   post |-> <<Space>>, value |-> value, tail |-> <<>>]
        onOneLine == \A j \in DOMAIN d.last : d.last[j] = Space
        first == [d EXCEPT !.members = <<member>> \o @]
    IN  CASE FoldersOf(d) # {} ->
                 [d EXCEPT !.members = [k \in DOMAIN @ |->
                     IF k \in FoldersOf(d) THEN [@[k] EXCEPT !.value = value] ELSE @[k]]]
          [] FoldersOf(d) = {} /\ d.members # <<>> -> first
          [] FoldersOf(d) = {} /\ d.members = <<>> ->
                 [first EXCEPT !.trailing = TRUE,
                               !.last = IF onOneLine THEN <<Newline>> \o @ ELSE @]

-----------------------------------------------------------------------------

Init ==
    /\ doc \in Documents
    /\ text = Text(doc)
    /\ phase = "start"
    /\ at = 1
    /\ expect = "key"
    /\ matched = FALSE
    /\ valueStart = 0
    /\ found = NoMember

\* find_top_level_member() begins after the `{` of the root.
Open ==
    /\ phase = "start"
    /\ IF RootOpen(text) = 0
       THEN phase' = "located" /\ UNCHANGED at
       ELSE phase' = "scan" /\ at' = RootOpen(text) + 1
    /\ expect' = "key"
    /\ matched' = FALSE
    /\ found' = NoMember
    /\ UNCHANGED <<doc, text, valueStart>>

Here == SkipGap(text, at)

\* A turn of the loop, in front of one of these characters.
Scanning(chars) == phase = "scan" /\ Here <= Len(text) /\ text[Here] \in chars

Chars == ToSet(text)

EndOfRoot ==
    /\ phase = "scan"
    /\ Here <= Len(text) => text[Here] = RightBrace
    /\ phase' = "located"
    /\ UNCHANGED <<doc, text, at, expect, matched, valueStart, found>>

Comma ==
    /\ Scanning({","})
    /\ expect' = "key"
    /\ at' = Here + 1
    /\ UNCHANGED <<doc, text, phase, matched, valueStart, found>>

Colon ==
    /\ Scanning({":"})
    /\ expect = "colon"
    /\ valueStart' = SkipGap(text, Here + 1)
    /\ at' = valueStart'
    /\ expect' = "value"
    /\ UNCHANGED <<doc, text, phase, matched, found>>

Key ==
    /\ Scanning({Quote})
    /\ expect = "key"
    /\ at' = StringEnd(text, Here)
    /\ matched' = (SubSeq(text, Here, at' - 1) = FoldersKey)
    /\ expect' = "colon"
    /\ UNCHANGED <<doc, text, phase, valueStart, found>>

Value ==
    /\ Scanning(Chars \ {RightBrace, ",", ":"})
    /\ expect = "value"
    /\ IF matched
       THEN /\ phase' = "located"
            /\ found' = [first |-> valueStart, next |-> ValueEnd(text, Here)]
            /\ UNCHANGED <<at, expect>>
       ELSE /\ at' = ValueEnd(text, Here)
            /\ expect' = "after"
            /\ UNCHANGED <<phase, found>>
    /\ UNCHANGED <<doc, text, matched, valueStart>>

\* Something that is not JSON: a character is stepped over.
StepOver ==
    /\ Scanning(Chars \ {RightBrace, ","})
    /\ \/ text[Here] = ":" /\ expect # "colon"
       \/ text[Here] \notin {":", Quote} /\ expect = "key"
       \/ text[Here] # ":" /\ expect \in {"colon", "after"}
    /\ at' = Here + 1
    /\ UNCHANGED <<doc, text, phase, expect, matched, valueStart, found>>

\* splice_folders(): the next run finds what this one wrote.
Splice(list) ==
    /\ phase = "located"
    /\ RootOpen(text) # 0
    /\ text' = SpliceFolders(text, found, list)
    /\ doc' = WithFolders(doc, list)
    /\ phase' = "start"
    /\ at' = 1
    /\ UNCHANGED <<expect, matched, valueStart, found>>

\* ValueError: the root is not an object, and nothing is written.
Refuse ==
    /\ phase = "located"
    /\ RootOpen(text) = 0
    /\ phase' = "start"
    /\ UNCHANGED <<doc, text, at, expect, matched, valueStart, found>>

Next ==
    \/ Open \/ EndOfRoot \/ Comma \/ Colon \/ Key \/ Value \/ StepOver
    \/ \E list \in FolderLists : Splice(list)
    \/ Refuse

Spec == Init /\ [][Next]_vars

-----------------------------------------------------------------------------

\* After any number of runs the file is the user's document with another
\* folders array: the span that find_top_level_member() returns is that of the
\* root's `folders`, whatever comments, strings, escapes and nested members of
\* the same name are around it; every other character is the one the user wrote
\* (rewrite.py:3-6), and what a run has written is found by the next.
OnlyFoldersChange == text = Text(doc)

\* loads() hands json.loads the JSON that the document means: comments and
\* trailing commas become spaces, strings that look like them stay, and every
\* character keeps its offset.
LoadsAsJson ==
    phase = "start" => StripTrailingCommas(StripComments(text)) = Strict(doc)
==============================================================================
