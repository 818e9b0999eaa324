------------------------------- MODULE MCJsonc -------------------------------
(***************************************************************************)
(* Jsonc on all workspace files with up to two members in which one kind   *)
(* of gap is used at one kind of place, or everywhere.                     *)
(***************************************************************************)
EXTENDS Jsonc

Gaps == {
    <<Newline>>,
    <<" ", "/", "/", Quote, "{", Newline>>,         \* //"{
    <<"/", "*", "}", ",", ":", "*", "/">>,          \* /*},:*/
    <<"/", "*", "/", "*", "/", "/", "/", Newline>>} \* /*/*///

Places == {"outside", "lead", "mid", "post", "tail", "last", "all"}

Plain(chars) == [raw |-> chars, strict |-> chars]

Values == {
    Plain(<<"x">>),
    Plain(<<Quote, Escape, Quote, "]", "/", "/", Quote>>),  \* "\"]//"
    Plain(<<Quote, ",", "}", Escape, Escape, Quote>>),      \* ",}\\"
    Plain(<<"{">> \o FoldersKey \o <<":", "[", "]", "}">>), \* {"F":[]}
    [raw    |-> <<"[">> \o FoldersKey \o <<",", "/", "*", "]", "*", "/", "]">>,
     strict |-> <<"[">> \o FoldersKey \o <<" ", " ", " ", " ", " ", " ", "]">>]}

Keys == {FoldersKey, <<Quote, "x", Quote>>, <<Quote, Escape, Quote, "F", Quote>>}

KeyValues ==
    {[key |-> k, value |-> v] : k \in Keys, v \in Values}
    \* Not JSON: a key without quotes, a value with no comma after it.
    \cup {[key |-> <<"x">>, value |-> Plain(<<"x">>)],
          [key |-> <<Quote, "x", Quote>>, value |-> Plain(<<"x", " ", "x">>)]}

MemberLists ==
    {<<>>} \cup {<<a>> : a \in KeyValues}
    \cup {<<a, b>> \in KeyValues \X KeyValues :
             /\ {a.key, b.key} # {FoldersKey}
             /\ a.value = Plain(<<"x">>) \/ b.value = Plain(<<"x">>)}

Document(kvs, gap, place, comma) ==
    LET g(p) == IF place \in {p, "all"} THEN gap ELSE <<>>
    IN  [open |-> "{", close |-> "}", before |-> g("outside"), after |-> g("outside"),
         last |-> g("last"), trailing |-> comma /\ kvs # <<>>,
         members |-> [k \in DOMAIN kvs |->
            [lead |-> g("lead"), mid |-> g("mid"), post |-> g("post"), tail |-> g("tail"),
             key |-> kvs[k].key, value |-> kvs[k].value]]]

AnArray == [Document(<<>>, <<" ">>, "all", FALSE) EXCEPT !.open = "[", !.close = "]"]

MCDocuments ==
    {AnArray}
    \cup {Document(kvs, g, p, c) :
             kvs \in MemberLists, g \in Gaps, p \in Places, c \in BOOLEAN}

MCCharacters == Syntax \cup {"x"}

\* No folder; two, one of them with a path that needs escapes.
MCFolderLists == {<<>>, <<<<"x", Quote, "]", Escape>>, <<"/", "/">>>>}
==============================================================================
