---------------------------- MODULE UserFileProofs ----------------------------
(***************************************************************************)
(* Proofs about the two files that a run of vscode-workspace-sync reads    *)
(* and the user edits: the workspace file (Jsonc) and config.json (Config).*)
(*                                                                         *)
(* 1. What the functions of the scanner return, by induction down a text:  *)
(*    each is a recursive function, of which this shows that there is one. *)
(* 2. The grammar of JSONC, over any set of characters, and where the      *)
(*    scanner ends in a gap, a string, a container and a literal of it.    *)
(* 3. The documents: where their parts are in the text, and what the loop  *)
(*    does in front of each.                                               *)
(* 4. What the splice does to the text, which is what WithFolders does to  *)
(*    the document.                                                        *)
(* 5. Which file, mode and pins a session gets from config.json.           *)
(***************************************************************************)
EXTENDS Jsonc, Config, SequenceTheorems, WellFoundedInduction, TLAPS

Texts == Seq(Characters)

-----------------------------------------------------------------------------
(* Recursion down a text.                                                  *)

\* Induction over the naturals, for a property that is given as a set.
LEMMA NatSetInduction ==
    ASSUME NEW T, 0 \in T, \A n \in Nat : n \in T => n + 1 \in T
    PROVE  Nat \subseteq T
  <1> DEFINE R == OpToRel(<, Nat)
             B == {n \in Nat : n \notin T}
  <1>1. IsWellFoundedOn(R, Nat)
    BY NatLessThanWellFounded
  <1>2. SUFFICES ASSUME B # {}
                 PROVE  FALSE
    OBVIOUS
  <1>3. PICK x \in B : \A y \in B : ~(<<y, x>> \in R)
    <2> HIDE DEF R
    <2> QED
      BY <1>1, <1>2, WFMin
  <1>4. x - 1 \in Nat /\ x # 0
    OBVIOUS
  <1>5. <<x - 1, x>> \in R
    BY <1>4 DEF OpToRel
  <1>6. x - 1 \notin B
    BY <1>3, <1>5
  <1> QED
    BY <1>4, <1>6

\* Induction from the end of a text to its beginning: what holds of a position if it
\* holds of those after it, holds of each.
LEMMA Backwards ==
    ASSUME NEW m \in Nat, NEW T,
           \A j \in 1..m : (\A k \in (j + 1)..m : k \in T) => j \in T
    PROVE  1..m \subseteq T
  <1> DEFINE U == {n \in Nat : \A j \in 1..m : j + n > m => j \in T}
  <1>1. 0 \in U
    OBVIOUS
  <1>2. ASSUME NEW n \in Nat, n \in U
        PROVE  n + 1 \in U
    <2> SUFFICES ASSUME NEW j \in 1..m, j + (n + 1) > m
                 PROVE  j \in T
      OBVIOUS
    <2>1. \A k \in (j + 1)..m : k \in 1..m /\ k + n > m
      OBVIOUS
    <2> QED
      BY <1>2, <2>1
  <1>3. Nat \subseteq U
    <2> HIDE DEF U
    <2> QED
      BY <1>1, <1>2, NatSetInduction
  <1>4. \A j \in 1..m : j + m > m /\ m \in U
    BY <1>3
  <1> QED
    BY <1>4

\* f is defined at each position by its value at a later one, or there.
Descends(f, m, next, base, g) ==
    \A j \in 1..m : f[j] = IF next[j] = 0 THEN base[j] ELSE g[<<j, f[next[j]]>>]

\* A function on the positions of a text that is defined so exists.
LEMMA Descent ==
    ASSUME NEW m \in Nat, NEW V, NEW next, NEW base, NEW g,
           \A j \in 1..m : next[j] = 0 \/ next[j] \in (j + 1)..m,
           \A j \in 1..m : base[j] \in V,
           \A j \in 1..m, v \in V : g[<<j, v>>] \in V
    PROVE  \E f \in [1..m -> V] : Descends(f, m, next, base, g)
  <1> DEFINE rhs(f, j) == IF next[j] = 0 THEN base[j] ELSE g[<<j, f[next[j]]>>]
             Upto(f, k) == \A j \in 1..m : j + k > m => f[j] \in V /\ f[j] = rhs(f, j)
             T == {k \in Nat : \E f : Upto(f, k)}
  <1>1. 0 \in T
    OBVIOUS
  <1>2. ASSUME NEW k \in Nat, k \in T
        PROVE  k + 1 \in T
    <2>1. PICK f : Upto(f, k)
      BY <1>2
    <2> DEFINE h == [j \in 1..m |-> rhs(f, j)]
    <2>2. \A j \in 1..m : j + k > m => h[j] = f[j]
      BY <2>1
    <2>3. \A j \in 1..m : j + (k + 1) > m /\ next[j] # 0 =>
             /\ next[j] \in 1..m
             /\ next[j] + k > m
      OBVIOUS
    <2>4. \A j \in 1..m : j + (k + 1) > m /\ next[j] # 0 =>
             /\ h[next[j]] = f[next[j]]
             /\ f[next[j]] \in V
      BY <2>1, <2>2, <2>3
    <2>5. \A j \in 1..m : h[j] = rhs(f, j)
      OBVIOUS
    <2> HIDE DEF h
    <2>6. \A j \in 1..m : j + (k + 1) > m => h[j] = rhs(h, j)
      BY <2>4, <2>5
    <2>7. \A j \in 1..m : j + (k + 1) > m => h[j] \in V
      BY <2>4, <2>5
    <2>8. Upto(h, k + 1)
      BY <2>6, <2>7
    <2> QED
      BY <2>8
  <1>3. Nat \subseteq T
    <2> HIDE DEF T
    <2> QED
      BY <1>1, <1>2, NatSetInduction
  <1>4. PICK f : Upto(f, m)
    BY <1>3
  <1>5. \A j \in 1..m : j + m > m
    OBVIOUS
  <1> DEFINE h == [j \in 1..m |-> f[j]]
  <1>6. \A j \in 1..m : h[j] = f[j]
    OBVIOUS
  <1>7. \A j \in 1..m : f[j] \in V /\ f[j] = rhs(f, j)
    BY <1>4, <1>5
  <1>8. h \in [1..m -> V]
    BY <1>7
  <1>9. \A j \in 1..m : next[j] # 0 => next[j] \in 1..m
    OBVIOUS
  <1> HIDE DEF h
  <1>10. \A j \in 1..m : h[j] = rhs(h, j)
    BY <1>6, <1>7, <1>9
  <1> QED
    BY <1>8, <1>10 DEF Descends

-----------------------------------------------------------------------------
(* The scanner, one position at a time.                                    *)

\* The characters that the scanner tells apart are different ones.
LEMMA Distinct ==
    /\ Quote \notin White \cup Opening \cup Closing
                       \cup {Escape, "/", "*", ",", ":", "F", "P"}
    /\ Escape \notin White \cup Opening \cup Closing
                       \cup {Quote, "/", "*", ",", ":", "F", "P"}
    /\ White \cap (Opening \cup Closing \cup {"/", "*", ",", ":", "F", "P"}) = {}
    /\ Opening \cap (Closing \cup {"/", "*", ",", ":", "F", "P"}) = {}
    /\ Closing \cap {"/", "*", ",", ":", "F", "P"} = {}
    /\ Space # Newline /\ LeftBrace \in Opening /\ RightBrace \in Closing
    /\ Newline \in White /\ Space \in White /\ "[" \in Opening /\ "]" \in Closing
  <1>1. Quote \notin White \cup Opening \cup Closing
                        \cup {Escape, "/", "*", ",", ":", "F", "P"}
    BY Zenon DEF Quote, Escape, Newline, Space, LeftBrace, RightBrace, White, Opening, Closing
  <1>2. Escape \notin White \cup Opening \cup Closing
                        \cup {Quote, "/", "*", ",", ":", "F", "P"}
    BY Zenon DEF Quote, Escape, Newline, Space, LeftBrace, RightBrace, White, Opening, Closing
  <1>3. White \cap (Opening \cup Closing \cup {"/", "*", ",", ":", "F", "P"}) = {}
    BY Zenon DEF Newline, Space, LeftBrace, RightBrace, White, Opening, Closing
  <1>4. Opening \cap (Closing \cup {"/", "*", ",", ":", "F", "P"}) = {}
    BY Zenon DEF LeftBrace, RightBrace, Opening, Closing
  <1>5. Closing \cap {"/", "*", ",", ":", "F", "P"} = {}
    BY Zenon DEF RightBrace, Closing
  <1>6. Space # Newline
    BY Zenon DEF Space, Newline
  <1>7. Newline \in White /\ Space \in White
    BY DEF White
  <1>8. LeftBrace \in Opening /\ RightBrace \in Closing /\ "[" \in Opening /\ "]" \in Closing
    BY DEF Opening, Closing
  <1> QED
    BY <1>1, <1>2, <1>3, <1>4, <1>5, <1>6, <1>7, <1>8

\* What a character is, it is not something else.
LEMMA Kinds ==
    /\ \A c : c = Quote => /\ c # Escape /\ c \notin White /\ c # "/"
                           /\ c \notin Opening /\ c \notin Closing
    /\ \A c : c = Escape => /\ c # Quote /\ c \notin White /\ c # "/"
                            /\ c \notin Opening /\ c \notin Closing
    /\ \A c : c = "/" => /\ c # Quote /\ c # Escape /\ c \notin White
                         /\ c \notin Opening /\ c \notin Closing
    /\ \A c : c \in White => /\ c # Quote /\ c # Escape /\ c # "/"
                             /\ c \notin Opening /\ c \notin Closing
    /\ \A c : c \in Opening => /\ c # Quote /\ c # Escape /\ c # "/"
                               /\ c \notin White /\ c \notin Closing
    /\ \A c : c \in Closing => /\ c # Quote /\ c # Escape /\ c # "/"
                               /\ c \notin White /\ c \notin Opening
  BY Zenon, Distinct

\* The least position in a set of them.
LEMMA MinIsLeast ==
    ASSUME NEW S \in SUBSET Nat, S # {}
    PROVE  Min(S) \in S /\ \A y \in S : Min(S) <= y
  <1> DEFINE R == OpToRel(<, Nat)
  <1>1. IsWellFoundedOn(R, Nat)
    BY NatLessThanWellFounded
  <1>2. PICK x \in S : \A y \in S : ~(<<y, x>> \in R)
    <2> HIDE DEF R
    <2> QED
      BY <1>1, WFMin
  <1>3. ASSUME NEW y \in S, ~(x <= y)
        PROVE  FALSE
    <2>1. y \in Nat /\ x \in Nat /\ y < x
      BY <1>3
    <2>2. <<y, x>> \in R
      BY <2>1 DEF OpToRel
    <2> QED
      BY <1>2, <2>2
  <1> QED
    BY <1>2, <1>3 DEF Min

\* The first position from i on that is in Q, or the end.
LEMMA FirstIs ==
    ASSUME NEW n \in Nat, NEW i \in Nat \ {0}, i <= n + 1, NEW Q \in SUBSET (i..n)
    PROVE  /\ Min(Q \cup {n + 1}) \in i..(n + 1)
           /\ \A e \in i..(n + 1) :
                 (e \in Q \/ e = n + 1) /\ (\A k \in i..(e - 1) : k \notin Q)
                    => Min(Q \cup {n + 1}) = e
  <1> DEFINE S == Q \cup {n + 1}
  <1>1. S \in SUBSET Nat /\ S # {} /\ \A y \in S : i <= y /\ y <= n + 1
    OBVIOUS
  <1>2. Min(S) \in S /\ \A y \in S : Min(S) <= y
    <2> HIDE DEF S
    <2> QED
      BY <1>1, MinIsLeast
  <1> HIDE DEF S
  <1>4. Min(S) \in i..(n + 1)
    <2>1. \A x \in S : x \in i..(n + 1)
      BY <1>1
    <2> QED
      BY <1>2, <2>1
  <1>3. ASSUME NEW e \in i..(n + 1), e \in Q \/ e = n + 1, \A k \in i..(e - 1) : k \notin Q
        PROVE  Min(S) = e
    <2>1. e \in S
      BY <1>3 DEF S
    <2>2. Min(S) <= e /\ Min(S) \in i..(n + 1)
      BY <1>2, <1>4, <2>1
    <2>3. Min(S) \notin i..(e - 1)
      <3>1. \A k \in i..(e - 1) : k \notin S
        BY <1>3 DEF S
      <3> QED
        BY <1>2, <3>1
    <2> QED
      BY <2>2, <2>3
  <1> QED
    BY <1>3, <1>4 DEF S

\* A comment ends behind its beginning; a line comment at the first newline, another
\* behind the first `*/` after its `/*`.
LEMMA CommentEnds ==
    ASSUME NEW s \in Texts, NEW j \in 1..Len(s), StartsComment(s, j)
    PROVE  /\ CommentEnd(s, j) \in (j + 1)..(Len(s) + 1)
           /\ \A e \in (j + 2)..Len(s) :
                 /\ s[j + 1] = "/"
                 /\ s[e] = Newline
                 /\ \A k \in (j + 2)..(e - 1) : s[k] # Newline
                 => CommentEnd(s, j) = e
           /\ \A e \in (j + 2)..(Len(s) - 1) :
                 /\ s[j + 1] = "*"
                 /\ s[e] = "*" /\ s[e + 1] = "/"
                 /\ \A k \in (j + 2)..(e - 1) : ~(s[k] = "*" /\ s[k + 1] = "/")
                 => CommentEnd(s, j) = e + 2
  <1> DEFINE n == Len(s)
             lines == {k \in (j + 2)..n : s[k] = Newline}
             blocks == {k \in (j + 2)..n : k < n /\ s[k] = "*" /\ s[k + 1] = "/"}
  <1>1. n \in Nat /\ j < n /\ j + 2 \in Nat \ {0} /\ j + 2 <= n + 1
    BY DEF Texts, StartsComment
  <1>2. s[j + 1] = "/" => CommentEnd(s, j) = Min(lines \cup {n + 1})
    BY DEF CommentEnd, FirstAt
  <1>3. s[j + 1] # "/" =>
           CommentEnd(s, j) = Min({Min(blocks \cup {n + 1}) + 2, n + 1})
    BY DEF CommentEnd, FirstAt
  <1>4. /\ Min(lines \cup {n + 1}) \in (j + 2)..(n + 1)
        /\ \A e \in (j + 2)..(n + 1) :
              (e \in lines \/ e = n + 1) /\ (\A k \in (j + 2)..(e - 1) : k \notin lines)
                 => Min(lines \cup {n + 1}) = e
    <2>1. lines \in SUBSET ((j + 2)..n)
      OBVIOUS
    <2> HIDE DEF lines, n
    <2> QED
      BY <1>1, <2>1, FirstIs
  <1>5. /\ Min(blocks \cup {n + 1}) \in (j + 2)..(n + 1)
        /\ \A e \in (j + 2)..(n + 1) :
              (e \in blocks \/ e = n + 1) /\ (\A k \in (j + 2)..(e - 1) : k \notin blocks)
                 => Min(blocks \cup {n + 1}) = e
    <2>1. blocks \in SUBSET ((j + 2)..n)
      OBVIOUS
    <2> HIDE DEF blocks, n
    <2> QED
      BY <1>1, <2>1, FirstIs
  <1>6. \A b \in (j + 2)..(n + 1) :
           /\ Min({b + 2, n + 1}) \in (j + 1)..(n + 1)
           /\ b < n => Min({b + 2, n + 1}) = b + 2
    <2> SUFFICES ASSUME NEW b \in (j + 2)..(n + 1)
                 PROVE  /\ Min({b + 2, n + 1}) \in (j + 1)..(n + 1)
                        /\ b < n => Min({b + 2, n + 1}) = b + 2
      OBVIOUS
    <2>1. {b + 2, n + 1} \in SUBSET Nat /\ {b + 2, n + 1} # {}
      BY <1>1
    <2>2. /\ Min({b + 2, n + 1}) \in {b + 2, n + 1}
          /\ \A y \in {b + 2, n + 1} : Min({b + 2, n + 1}) <= y
      BY <2>1, MinIsLeast
    <2> HIDE DEF n
    <2> QED
      BY <1>1, <2>2
  <1>7. CommentEnd(s, j) \in (j + 1)..(n + 1)
    <2>1. CASE s[j + 1] = "/"
      <3> HIDE DEF n, lines
      <3> QED
        BY <1>1, <1>2, <1>4, <2>1
    <2>2. CASE s[j + 1] # "/"
      <3> DEFINE b == Min(blocks \cup {n + 1})
      <3>1. b \in (j + 2)..(n + 1)
        BY <1>5
      <3>2. CommentEnd(s, j) = Min({b + 2, n + 1})
        BY <1>3, <2>2
      <3> HIDE DEF n, b
      <3> QED
        BY <1>6, <3>1, <3>2
    <2> QED
      BY <2>1, <2>2
  <1>8. ASSUME NEW e \in (j + 2)..n, s[j + 1] = "/", s[e] = Newline,
               \A k \in (j + 2)..(e - 1) : s[k] # Newline
        PROVE  CommentEnd(s, j) = e
    <2>1. e \in (j + 2)..(n + 1) /\ e \in lines /\ \A k \in (j + 2)..(e - 1) : k \notin lines
      BY <1>1, <1>8
    <2> HIDE DEF n, lines
    <2> QED
      BY <1>2, <1>4, <1>8, <2>1
  <1>9. ASSUME NEW e \in (j + 2)..(n - 1), s[j + 1] = "*", s[e] = "*", s[e + 1] = "/",
               \A k \in (j + 2)..(e - 1) : ~(s[k] = "*" /\ s[k + 1] = "/")
        PROVE  CommentEnd(s, j) = e + 2
    <2>1. /\ e \in (j + 2)..(n + 1) /\ e < n /\ e \in blocks
          /\ \A k \in (j + 2)..(e - 1) : k \notin blocks
      BY <1>1, <1>9
    <2>2. Min(blocks \cup {n + 1}) = e
      <3> HIDE DEF n, blocks
      <3> QED
        BY <1>5, <2>1
    <2> QED
      BY <1>3, <1>6, <1>9, <2>1, <2>2
  <1> QED
    BY <1>7, <1>8, <1>9

\* _skip_ws_and_comments(), one character or comment at a time.
LEMMA SkipGapStep ==
    ASSUME NEW s \in Texts
    PROVE  \A j \in 1..(Len(s) + 1) :
              /\ SkipGap(s, j) \in j..(Len(s) + 1)
              /\ SkipGap(s, j) =
                    IF j > Len(s) THEN j
                    ELSE CASE s[j] \in White -> SkipGap(s, j + 1)
                           [] StartsComment(s, j) -> SkipGap(s, CommentEnd(s, j))
                           [] OTHER -> j
  <1> DEFINE n == Len(s) + 1
             IsSkip(f) == f = [j \in 1..n |->
                 IF j > Len(s) THEN j
                 ELSE CASE s[j] \in White -> f[j + 1]
                        [] StartsComment(s, j) -> f[CommentEnd(s, j)]
                        [] OTHER -> j]
             next == [j \in 1..n |->
                 IF j > Len(s) THEN 0
                 ELSE CASE s[j] \in White -> j + 1
                        [] StartsComment(s, j) -> CommentEnd(s, j)
                        [] OTHER -> 0]
             base == [j \in 1..n |-> j]
             g == [p \in (1..n) \X Nat |-> p[2]]
  <1>1. \A i : SkipGap(s, i) = (CHOOSE f : IsSkip(f))[i]
    BY DEF SkipGap
  <1>2. n \in Nat /\ Len(s) \in Nat /\ s[n] = s[n]
    BY DEF Texts
  <1>3. \A j \in 1..n : next[j] = 0 \/ next[j] \in (j + 1)..n
    BY <1>2, CommentEnds
  <1>4. \A j \in 1..n : base[j] \in Nat
    OBVIOUS
  <1>5. \A j \in 1..n, v \in Nat : g[<<j, v>>] = v
    OBVIOUS
  <1>6. PICK f \in [1..n -> Nat] : Descends(f, n, next, base, g)
    <2> HIDE DEF n, next, base, g
    <2> QED
      BY <1>2, <1>3, <1>4, <1>5, Descent
  <1>7. \A j \in 1..n : f[j] = IF next[j] = 0 THEN j ELSE f[next[j]]
    <2>1. \A j \in 1..n : base[j] = j
      OBVIOUS
    <2>2. \A j \in 1..n : next[j] # 0 => f[next[j]] \in Nat
      <3> HIDE DEF n, next
      <3> QED
        BY <1>2, <1>3
    <2> HIDE DEF n, next, base, g
    <2> QED
      BY <1>5, <1>6, <2>1, <2>2 DEF Descends
  <1>8. IsSkip(f)
    <2>1. ASSUME NEW j \in 1..n
          PROVE  f[j] = IF j > Len(s) THEN j
                 ELSE CASE s[j] \in White -> f[j + 1]
                        [] StartsComment(s, j) -> f[CommentEnd(s, j)]
                        [] OTHER -> j
      BY <1>2, <1>7, CommentEnds
    <2>2. f = [j \in 1..n |-> f[j]]
      BY <1>6
    <2> HIDE DEF n
    <2> QED
      BY <2>1, <2>2
  <1> DEFINE h == CHOOSE h : IsSkip(h)
  <1>9. IsSkip(h)
    BY <1>8
  <1> HIDE DEF h
  <1>10. \A j \in 1..n : h[j] =
            IF j > Len(s) THEN j
            ELSE CASE s[j] \in White -> h[j + 1]
                   [] StartsComment(s, j) -> h[CommentEnd(s, j)]
                   [] OTHER -> j
    BY <1>9
  <1> DEFINE T == {j \in 1..n : h[j] \in j..n}
  <1>11. ASSUME NEW j \in 1..n, \A k \in (j + 1)..n : k \in T
         PROVE  j \in T
    <2>1. \A k \in (j + 1)..n : h[k] \in j..n
      BY <1>11
    <2>2. j <= Len(s) /\ s[j] \in White => j + 1 \in (j + 1)..n
      BY <1>2
    <2>3. j <= Len(s) /\ StartsComment(s, j) => CommentEnd(s, j) \in (j + 1)..n
      BY <1>2, CommentEnds
    <2>4. j \in j..n
      BY <1>2
    <2>5. h[j] \in j..n
      <3> HIDE DEF n
      <3> QED
        BY <1>10, <2>1, <2>2, <2>3, <2>4
    <2> QED
      BY <2>5
  <1>12. 1..n \subseteq T
    <2> HIDE DEF n, T
    <2> QED
      BY <1>2, <1>11, Backwards
  <1>13. \A i : SkipGap(s, i) = h[i]
    BY <1>1 DEF h
  <1> QED
    BY <1>10, <1>12, <1>13

\* _scan_string(), one character at a time.
LEMMA StringEndStep ==
    ASSUME NEW s \in Texts
    PROVE  \A i \in 0..(Len(s) + 1) :
              /\ StringEnd(s, i) \in 1..(Len(s) + 1)
              /\ i <= Len(s) => i < StringEnd(s, i)
              /\ StringEnd(s, i) =
                    IF i + 1 > Len(s) THEN Len(s) + 1
                    ELSE CASE s[i + 1] = Quote -> i + 2
                           [] s[i + 1] = Escape -> StringEnd(s, i + 2)
                           [] OTHER -> StringEnd(s, i + 1)
  <1> DEFINE n == Len(s) + 2
             IsEnd(f) == f = [j \in 1..n |->
                 IF j > Len(s) THEN Len(s) + 1
                 ELSE CASE s[j] = Quote -> j + 1
                        [] s[j] = Escape -> f[j + 2]
                        [] OTHER -> f[j + 1]]
             next == [j \in 1..n |->
                 IF j > Len(s) THEN 0
                 ELSE CASE s[j] = Quote -> 0
                        [] s[j] = Escape -> j + 2
                        [] OTHER -> j + 1]
             base == [j \in 1..n |-> IF j > Len(s) THEN Len(s) + 1 ELSE j + 1]
             g == [p \in (1..n) \X Nat |-> p[2]]
  <1>1. \A i : StringEnd(s, i) = (CHOOSE f : IsEnd(f))[i + 1]
    BY DEF StringEnd
  <1>2. n \in Nat /\ Len(s) \in Nat /\ s[n] = s[n]
    BY DEF Texts
  <1>3. \A j \in 1..n : next[j] = 0 \/ next[j] \in (j + 1)..n
    BY <1>2
  <1>4. \A j \in 1..n : base[j] \in Nat
    BY <1>2
  <1>5. \A j \in 1..n, v \in Nat : g[<<j, v>>] = v
    OBVIOUS
  <1>6. PICK f \in [1..n -> Nat] : Descends(f, n, next, base, g)
    <2> HIDE DEF n, next, base, g
    <2> QED
      BY <1>2, <1>3, <1>4, <1>5, Descent
  <1>7. \A j \in 1..n : f[j] = IF next[j] = 0 THEN base[j] ELSE f[next[j]]
    <2>1. \A j \in 1..n : next[j] # 0 => f[next[j]] \in Nat
      <3> HIDE DEF n, next
      <3> QED
        BY <1>2, <1>3
    <2> HIDE DEF n, next, base, g
    <2> QED
      BY <1>5, <1>6, <2>1 DEF Descends
  <1>8. IsEnd(f)
    <2>1. ASSUME NEW j \in 1..n
          PROVE  f[j] = IF j > Len(s) THEN Len(s) + 1
                 ELSE CASE s[j] = Quote -> j + 1
                        [] s[j] = Escape -> f[j + 2]
                        [] OTHER -> f[j + 1]
      BY <1>2, <1>7
    <2>2. f = [j \in 1..n |-> f[j]]
      BY <1>6
    <2> HIDE DEF n
    <2> QED
      BY <2>1, <2>2
  <1> DEFINE h == CHOOSE h : IsEnd(h)
  <1>9. IsEnd(h)
    BY <1>8
  <1> HIDE DEF h
  <1>10. \A j \in 1..n : h[j] =
            IF j > Len(s) THEN Len(s) + 1
            ELSE CASE s[j] = Quote -> j + 1
                   [] s[j] = Escape -> h[j + 2]
                   [] OTHER -> h[j + 1]
    BY <1>9
  <1> DEFINE T == {j \in 1..n : h[j] \in 1..(Len(s) + 1) /\ (j < n => j <= h[j])}
  <1>11. ASSUME NEW j \in 1..n, \A k \in (j + 1)..n : k \in T
         PROVE  j \in T
    <2>1. \A k \in (j + 1)..n : h[k] \in 1..(Len(s) + 1) /\ (k < n => k <= h[k])
      BY <1>11
    <2>2. j <= Len(s) => j + 1 \in (j + 1)..n /\ j + 2 \in (j + 1)..n /\ j + 1 < n
      BY <1>2
    <2>3. CASE j > Len(s)
      BY <1>2, <1>10, <2>3
    <2>4. CASE j <= Len(s) /\ s[j] # Quote /\ s[j] = Escape /\ j + 2 = n
      <3>1. h[j] = h[n]
        BY <1>10, <2>4
      <3>2. h[n] = Len(s) + 1
        <4>1. n \in 1..n /\ n > Len(s)
          BY <1>2
        <4> HIDE DEF n
        <4> QED
          BY <1>10, <4>1
      <3> QED
        BY <1>2, <2>4, <3>1, <3>2
    <2>5. CASE j <= Len(s) /\ s[j] # Quote /\ s[j] = Escape /\ j + 2 # n
      <3>1. h[j] = h[j + 2]
        BY <1>10, <2>5
      <3>2. h[j + 2] \in 1..(Len(s) + 1) /\ j + 2 <= h[j + 2]
        BY <1>2, <2>1, <2>2, <2>5
      <3> QED
        BY <1>2, <3>1, <3>2
    <2>6. CASE j <= Len(s) /\ s[j] = Quote
      <3>1. s[j] # Escape /\ j \in 1..n /\ ~(j > Len(s))
        BY <1>2, <2>6, Kinds
      <3>2. h[j] = j + 1
        <4> HIDE DEF n
        <4> QED
          BY <1>10, <2>6, <3>1
      <3> QED
        BY <1>2, <2>6, <3>2
    <2>7. CASE j <= Len(s) /\ s[j] # Quote /\ s[j] # Escape
      <3>1. h[j] = h[j + 1]
        BY <1>10, <2>7
      <3>2. h[j + 1] \in 1..(Len(s) + 1) /\ j + 1 <= h[j + 1]
        BY <1>2, <2>1, <2>2, <2>7
      <3> QED
        BY <1>2, <3>1, <3>2
    <2> QED
      BY <1>2, <2>3, <2>4, <2>5, <2>6, <2>7
  <1>12. 1..n \subseteq T
    <2> HIDE DEF n, T
    <2> QED
      BY <1>2, <1>11, Backwards
  <1>13. \A i : StringEnd(s, i) = h[i + 1]
    BY <1>1 DEF h
  <1>14. ASSUME NEW i \in 0..(Len(s) + 1)
         PROVE  /\ h[i + 1] \in 1..(Len(s) + 1)
                /\ i <= Len(s) => i < h[i + 1]
                /\ h[i + 1] =
                      IF i + 1 > Len(s) THEN Len(s) + 1
                      ELSE CASE s[i + 1] = Quote -> i + 2
                             [] s[i + 1] = Escape -> h[i + 3]
                             [] OTHER -> h[i + 2]
    <2>1. i + 1 \in 1..n /\ i + 1 \in T
      BY <1>2, <1>12
    <2>2. h[i + 1] \in 1..(Len(s) + 1) /\ (i <= Len(s) => i < h[i + 1])
      BY <1>2, <2>1
    <2>3. (i + 1) + 1 = i + 2 /\ (i + 1) + 2 = i + 3
      OBVIOUS
    <2> QED
      BY <1>10, <2>1, <2>2, <2>3
  <1>15. \A i \in 0..(Len(s) + 1) : (i + 1) + 1 = i + 2 /\ (i + 2) + 1 = i + 3
    OBVIOUS
  <1> QED
    BY <1>13, <1>14, <1>15

\* _scan_container() at a depth, one character, string or comment at a time.
NestStep(s, f, j, depth) ==
    IF j > Len(s) THEN j
    ELSE CASE s[j] = Quote -> f[StringEnd(s, j)][depth]
           [] StartsComment(s, j) -> f[SkipGap(s, j)][depth]
           [] s[j] \in Opening -> f[j + 1][depth + 1]
           [] s[j] \in Closing /\ depth <= 1 -> j + 1
           [] s[j] \in Closing /\ depth > 1 -> f[j + 1][depth - 1]
           [] OTHER -> f[j + 1][depth]

IsNest(s, f) == f = [j \in 1..(Len(s) + 1) |-> [depth \in Nat |-> NestStep(s, f, j, depth)]]

Nest(s) == CHOOSE f : IsNest(s, f)

\* A comment at j is skipped, and so j moves on.
LEMMA SkipsComment ==
    ASSUME NEW s \in Texts, NEW j \in 1..Len(s), StartsComment(s, j)
    PROVE  /\ s[j] \notin White /\ s[j] # Quote
           /\ SkipGap(s, j) \in (j + 1)..(Len(s) + 1)
           /\ SkipGap(s, j) = SkipGap(s, CommentEnd(s, j))
  <1>1. s[j] = "/"
    BY DEF StartsComment
  <1>2. s[j] \notin White /\ s[j] # Quote
    BY <1>1, Distinct
  <1>3. CommentEnd(s, j) \in (j + 1)..(Len(s) + 1)
    BY CommentEnds
  <1>4. j \in 1..(Len(s) + 1) /\ ~(j > Len(s)) /\ Len(s) \in Nat
    BY DEF Texts
  <1>5. SkipGap(s, j) = SkipGap(s, CommentEnd(s, j))
    BY <1>2, <1>4, SkipGapStep
  <1>6. SkipGap(s, CommentEnd(s, j)) \in CommentEnd(s, j)..(Len(s) + 1)
    BY <1>3, <1>4, SkipGapStep
  <1> QED
    BY <1>2, <1>3, <1>4, <1>5, <1>6

LEMMA ContainerEndStep ==
    ASSUME NEW s \in Texts
    PROVE  /\ \A i : ContainerEnd(s, i) = Nest(s)[i][0]
           /\ \A j \in 1..(Len(s) + 1), depth \in Nat :
                 Nest(s)[j][depth] = NestStep(s, Nest(s), j, depth)
  <1> DEFINE n == Len(s) + 1
             Ends == [Nat -> Int]
             next == [j \in 1..n |->
                 IF j > Len(s) THEN 0
                 ELSE CASE s[j] = Quote -> StringEnd(s, j)
                        [] StartsComment(s, j) -> SkipGap(s, j)
                        [] OTHER -> j + 1]
             base == [j \in 1..n |-> [depth \in Nat |-> j]]
             down(j, v, depth) ==
                 IF s[j] = Quote \/ StartsComment(s, j) THEN v[depth]
                 ELSE CASE s[j] \in Opening -> v[depth + 1]
                        [] s[j] \in Closing /\ depth <= 1 -> j + 1
                        [] s[j] \in Closing /\ depth > 1 -> v[depth - 1]
                        [] OTHER -> v[depth]
             g == [p \in (1..n) \X Ends |-> [depth \in Nat |-> down(p[1], p[2], depth)]]
  <1>1. \A i : ContainerEnd(s, i) = Nest(s)[i][0]
    BY DEF ContainerEnd, Nest, IsNest, NestStep
  <1>2. n \in Nat /\ Len(s) \in Nat
    BY DEF Texts
  <1>0. \A j \in 1..n : /\ j <= Len(s) => next[j] \in (j + 1)..n
                        /\ j > Len(s) => next[j] = 0
    <2> SUFFICES ASSUME NEW j \in 1..n, j <= Len(s)
                 PROVE  next[j] \in (j + 1)..n
      BY <1>2
    <2>1. StringEnd(s, j) \in (j + 1)..n
      BY <1>2, StringEndStep
    <2>2. StartsComment(s, j) => SkipGap(s, j) \in (j + 1)..n
      BY <1>2, SkipsComment
    <2> QED
      BY <1>2, <2>1, <2>2
  <1>3. \A j \in 1..n : next[j] = 0 \/ next[j] \in (j + 1)..n
    <2> HIDE DEF next, n
    <2> QED
      BY <1>0, <1>2
  <1>4. \A j \in 1..n : base[j] \in Ends
    OBVIOUS
  <1>5. \A j \in 1..n, v \in Ends : g[<<j, v>>] = [depth \in Nat |-> down(j, v, depth)]
    <2> HIDE DEF Ends, down, n
    <2> QED
      OBVIOUS
  <1>6. \A j \in 1..n, v \in Ends : g[<<j, v>>] \in Ends
    <2> SUFFICES ASSUME NEW j \in 1..n, NEW v \in Ends
                 PROVE  \A depth \in Nat : down(j, v, depth) \in Int
      BY <1>5
    <2> SUFFICES ASSUME NEW depth \in Nat
                 PROVE  down(j, v, depth) \in Int
      OBVIOUS
    <2>1. v[depth] \in Int /\ v[depth + 1] \in Int /\ (depth > 1 => v[depth - 1] \in Int)
      OBVIOUS
    <2>2. j + 1 \in Int
      OBVIOUS
    <2> QED
      BY <2>1, <2>2
  <1>7. PICK f \in [1..n -> Ends] : Descends(f, n, next, base, g)
    <2> HIDE DEF n, next, base, g, Ends
    <2> QED
      BY <1>2, <1>3, <1>4, <1>6, Descent
  <1>8. \A j \in 1..n : f[j] = IF next[j] = 0 THEN base[j]
                               ELSE [depth \in Nat |-> down(j, f[next[j]], depth)]
    <2>1. \A j \in 1..n : next[j] # 0 => f[next[j]] \in Ends
      <3> HIDE DEF n, next, Ends
      <3>1. \A j \in 1..n : next[j] # 0 => next[j] \in 1..n
        BY <1>2, <1>3
      <3> QED
        BY <1>7, <3>1
    <2> HIDE DEF n, next, base, g, Ends, down
    <2> QED
      BY <1>5, <1>7, <2>1 DEF Descends
  <1>9. ASSUME NEW j \in 1..n, NEW depth \in Nat
        PROVE  f[j][depth] = NestStep(s, f, j, depth)
    <2>1. CASE j > Len(s)
      <3>1. next[j] = 0
        BY <2>1
      <3>2. f[j] = base[j] /\ base[j][depth] = j
        BY <1>8, <3>1
      <3> QED
        BY <2>1, <3>2 DEF NestStep
    <2>2. CASE j <= Len(s)
      <3>1. next[j] # 0
        <4> HIDE DEF next
        <4> QED
          BY <1>0, <1>2, <2>2
      <3>2. f[j][depth] = down(j, f[next[j]], depth)
        <4> HIDE DEF next, down, n
        <4> QED
          BY <1>8, <3>1
      <3>3. CASE s[j] = Quote
        <4>1. ~StartsComment(s, j)
          BY <2>2, <3>3, SkipsComment
        <4>2. next[j] = StringEnd(s, j)
          BY <2>2, <3>3, <4>1
        <4>3. NestStep(s, f, j, depth) = f[StringEnd(s, j)][depth]
          <5>1. s[j] \notin Opening /\ s[j] \notin Closing /\ ~(j > Len(s))
            BY <1>2, <2>2, <3>3, Kinds
          <5> QED
            BY <3>3, <4>1, <5>1 DEF NestStep
        <4> QED
          BY <3>2, <3>3, <4>2, <4>3
      <3>4. CASE StartsComment(s, j)
        <4>1. s[j] # Quote /\ s[j] \notin Opening /\ s[j] \notin Closing /\ ~(j > Len(s))
          BY <1>2, <2>2, <3>4, Kinds DEF StartsComment
        <4>2. next[j] = SkipGap(s, j)
          BY <2>2, <3>4, <4>1
        <4>3. NestStep(s, f, j, depth) = f[SkipGap(s, j)][depth]
          BY <1>2, <2>2, <3>4, <4>1 DEF NestStep
        <4> QED
          BY <3>2, <3>4, <4>2, <4>3
      <3>5. CASE s[j] # Quote /\ ~StartsComment(s, j)
        <4>1. next[j] = j + 1
          BY <2>2, <3>5
        <4>2. f[j][depth] = down(j, f[j + 1], depth) /\ ~(j > Len(s))
          <5> HIDE DEF next, down
          <5> QED
            BY <1>2, <2>2, <3>2, <4>1
        <4>3. down(j, f[j + 1], depth) = NestStep(s, f, j, depth)
          <5>1. CASE s[j] \in Opening
            BY <3>5, <4>2, <5>1 DEF NestStep
          <5>2. CASE s[j] \in Closing /\ depth <= 1
            BY <3>5, <4>2, <5>2 DEF NestStep
          <5>3. CASE s[j] \in Closing /\ depth > 1
            BY <3>5, <4>2, <5>3 DEF NestStep
          <5>4. CASE s[j] \notin Opening \cup Closing
            BY <3>5, <4>2, <5>4 DEF NestStep
          <5> QED
            BY <5>1, <5>2, <5>3, <5>4
        <4> QED
          BY <4>2, <4>3
      <3> QED
        BY <3>3, <3>4, <3>5
    <2> QED
      BY <1>2, <2>1, <2>2
  <1>10. IsNest(s, f)
    <2>1. \A j \in 1..n : f[j] = [depth \in Nat |-> f[j][depth]]
      BY <1>7
    <2>2. f = [j \in 1..n |-> f[j]]
      BY <1>7
    <2>3. \A j \in 1..n : f[j] = [depth \in Nat |-> NestStep(s, f, j, depth)]
      BY <1>9, <2>1
    <2> QED
      BY <2>2, <2>3 DEF IsNest
  <1>11. IsNest(s, Nest(s))
    BY <1>10 DEF Nest
  <1>12. \A j \in 1..n, depth \in Nat : Nest(s)[j][depth] = NestStep(s, Nest(s), j, depth)
    <2> DEFINE h == Nest(s)
    <2>1. h = [j \in 1..n |-> [depth \in Nat |-> NestStep(s, h, j, depth)]]
      BY <1>11 DEF IsNest
    <2> HIDE DEF h
    <2>2. ASSUME NEW j \in 1..n, NEW depth \in Nat
          PROVE  h[j][depth] = NestStep(s, h, j, depth)
      <3>1. h[j] = [d \in Nat |-> NestStep(s, h, j, d)]
        BY <2>1
      <3> QED
        BY <3>1
    <2> QED
      BY <2>2 DEF h
  <1> QED
    BY <1>1, <1>12

-----------------------------------------------------------------------------
(* Pieces of a text.                                                       *)

\* v is in the text s behind the first o characters.
Holds(s, o, v) ==
    /\ o + Len(v) <= Len(s)
    /\ \A k \in 1..Len(v) : s[o + k] = v[k]

LEMMA HoldsConcat ==
    ASSUME NEW s \in Texts, NEW o \in Nat, NEW a \in Texts, NEW b \in Texts
    PROVE  /\ a \o b \in Texts
           /\ Len(a \o b) = Len(a) + Len(b)
           /\ Holds(s, o, a \o b) <=> Holds(s, o, a) /\ Holds(s, o + Len(a), b)
  <1>1. /\ a \o b \in Texts /\ Len(a \o b) = Len(a) + Len(b)
        /\ Len(a) \in Nat /\ Len(b) \in Nat /\ Len(s) \in Nat
        /\ \A k \in 1..Len(a) : (a \o b)[k] = a[k]
        /\ \A k \in 1..Len(b) : (a \o b)[Len(a) + k] = b[k]
    BY DEF Texts
  <1>2. ASSUME Holds(s, o, a \o b)
        PROVE  Holds(s, o, a) /\ Holds(s, o + Len(a), b)
    <2>1. ASSUME NEW k \in 1..Len(a)
          PROVE  s[o + k] = a[k]
      BY <1>1, <1>2 DEF Holds
    <2>2. ASSUME NEW k \in 1..Len(b)
          PROVE  s[(o + Len(a)) + k] = b[k]
      <3>1. Len(a) + k \in 1..Len(a \o b) /\ o + (Len(a) + k) = (o + Len(a)) + k
        BY <1>1
      <3>2. s[o + (Len(a) + k)] = (a \o b)[Len(a) + k]
        BY <1>2, <3>1 DEF Holds
      <3> QED
        BY <1>1, <3>1, <3>2
    <2>3. o + Len(a) <= Len(s) /\ (o + Len(a)) + Len(b) <= Len(s)
      BY <1>1, <1>2 DEF Holds
    <2> QED
      BY <2>1, <2>2, <2>3 DEF Holds
  <1>3. ASSUME Holds(s, o, a), Holds(s, o + Len(a), b)
        PROVE  Holds(s, o, a \o b)
    <2>1. ASSUME NEW k \in 1..Len(a \o b)
          PROVE  s[o + k] = (a \o b)[k]
      <3>1. CASE k \in 1..Len(a)
        BY <1>1, <1>3, <3>1 DEF Holds
      <3>2. CASE k - Len(a) \in 1..Len(b)
        <4>1. (o + Len(a)) + (k - Len(a)) = o + k /\ Len(a) + (k - Len(a)) = k
          BY <1>1
        <4>2. s[(o + Len(a)) + (k - Len(a))] = b[k - Len(a)]
          BY <1>3, <3>2 DEF Holds
        <4>3. (a \o b)[Len(a) + (k - Len(a))] = b[k - Len(a)]
          BY <1>1, <3>2
        <4> QED
          BY <4>1, <4>2, <4>3
      <3>3. k \in 1..Len(a) \/ k - Len(a) \in 1..Len(b)
        BY <1>1
      <3> QED
        BY <3>1, <3>2, <3>3
    <2>2. o + Len(a \o b) <= Len(s)
      BY <1>1, <1>3 DEF Holds
    <2> QED
      BY <2>1, <2>2 DEF Holds
  <1> QED
    BY <1>1, <1>2, <1>3

\* A character in a text.
LEMMA HoldsOne ==
    ASSUME NEW s \in Texts, NEW o \in Nat, NEW c \in Characters
    PROVE  /\ <<c>> \in Texts /\ Len(<<c>>) = 1
           /\ Holds(s, o, <<c>>) <=> o + 1 <= Len(s) /\ s[o + 1] = c
  <1>1. <<c>> \in Texts /\ Len(<<c>>) = 1 /\ <<c>>[1] = c
    BY DEF Texts
  <1>2. \A k \in 1..1 : k = 1
    OBVIOUS
  <1> QED
    BY <1>1, <1>2 DEF Holds

LEMMA HoldsNothing ==
    ASSUME NEW s \in Texts, NEW o \in Nat
    PROVE  /\ <<>> \in Texts /\ Len(<<>>) = 0
           /\ Holds(s, o, <<>>) <=> o <= Len(s)
  BY DEF Texts, Holds

LEMMA HeldIsThere ==
    ASSUME NEW s \in Texts, NEW o \in Nat, NEW v \in Texts, Holds(s, o, v)
    PROVE  /\ SubSeq(s, o + 1, o + Len(v)) = v
           /\ s = SubSeq(s, 1, o) \o v \o SubSeq(s, o + Len(v) + 1, Len(s))
  <1>1. Len(s) \in Nat /\ Len(v) \in Nat /\ o + Len(v) <= Len(s)
    BY DEF Holds, Texts
  <1> DEFINE a == SubSeq(s, 1, o)
             w == SubSeq(s, o + 1, o + Len(v))
             b == SubSeq(s, o + Len(v) + 1, Len(s))
  <1>2. w \in Texts /\ Len(w) = Len(v) /\ \A k \in 1..Len(v) : w[k] = s[o + k]
    BY <1>1 DEF Texts
  <1>3. w = v
    <2>1. \A k \in 1..Len(v) : w[k] = v[k]
      BY <1>2 DEF Holds
    <2> HIDE DEF w
    <2> QED
      BY <1>2, <2>1, SeqEqual DEF Texts
  <1>4. a \o w = SubSeq(s, 1, o + Len(v))
    <2>1. 1 \in 1..(Len(s) + 1) /\ o \in (1 - 1)..Len(s) /\ o + Len(v) \in o..Len(s)
      BY <1>1
    <2> QED
      BY <2>1, ConcatAdjacentSubSeq DEF Texts
  <1>5. SubSeq(s, 1, o + Len(v)) \o b = SubSeq(s, 1, Len(s))
    <2>1. /\ 1 \in 1..(Len(s) + 1) /\ o + Len(v) \in (1 - 1)..Len(s)
          /\ Len(s) \in (o + Len(v))..Len(s)
      BY <1>1
    <2> QED
      BY <2>1, ConcatAdjacentSubSeq DEF Texts
  <1>6. SubSeq(s, 1, Len(s)) = s
    BY DEF Texts
  <1> QED
    BY <1>3, <1>4, <1>5, <1>6

\* What _scan_container() does at each kind of character.
LEMMA NestKinds ==
    ASSUME NEW s \in Texts, NEW j \in 1..Len(s), NEW d \in Nat
    PROVE  /\ s[j] = Quote => Nest(s)[j][d] = Nest(s)[StringEnd(s, j)][d]
           /\ StartsComment(s, j) => Nest(s)[j][d] = Nest(s)[SkipGap(s, j)][d]
           /\ s[j] \in Opening => Nest(s)[j][d] = Nest(s)[j + 1][d + 1]
           /\ s[j] \in Closing /\ d <= 1 => Nest(s)[j][d] = j + 1
           /\ s[j] \in Closing /\ d > 1 => Nest(s)[j][d] = Nest(s)[j + 1][d - 1]
           /\ s[j] \notin Opening \cup Closing \cup {Quote} /\ ~StartsComment(s, j)
                 => Nest(s)[j][d] = Nest(s)[j + 1][d]
  <1>1. Nest(s)[j][d] = NestStep(s, Nest(s), j, d)
    BY ContainerEndStep DEF Texts
  <1>2. ~(j > Len(s))
    BY DEF Texts
  <1>3. StartsComment(s, j) => s[j] = "/"
    BY DEF StartsComment
  <1>4. CASE s[j] = Quote
    <2>1. s[j] \notin Opening /\ s[j] \notin Closing /\ ~StartsComment(s, j)
      BY <1>3, <1>4, Kinds
    <2> QED
      BY <1>1, <1>2, <1>4, <2>1 DEF NestStep
  <1>5. CASE StartsComment(s, j)
    <2>1. s[j] \notin Opening /\ s[j] \notin Closing /\ s[j] # Quote
      BY <1>3, <1>5, Kinds
    <2> QED
      BY <1>1, <1>2, <1>5, <2>1 DEF NestStep
  <1>6. CASE s[j] \in Opening
    <2>1. s[j] \notin Closing /\ s[j] # Quote /\ ~StartsComment(s, j)
      BY <1>3, <1>6, Kinds
    <2> QED
      BY <1>1, <1>2, <1>6, <2>1 DEF NestStep
  <1>7. CASE s[j] \in Closing
    <2>1. s[j] \notin Opening /\ s[j] # Quote /\ ~StartsComment(s, j)
      BY <1>3, <1>7, Kinds
    <2>2. CASE d <= 1
      <3>1. ~(d > 1)
        BY <2>2
      <3> QED
        BY <1>1, <1>2, <1>7, <2>1, <2>2, <3>1 DEF NestStep
    <2>3. CASE d > 1
      <3>1. ~(d <= 1)
        BY <2>3
      <3> QED
        BY <1>1, <1>2, <1>7, <2>1, <2>3, <3>1 DEF NestStep
    <2> QED
      BY <2>1, <2>2, <2>3
  <1>8. CASE s[j] \notin Opening \cup Closing \cup {Quote} /\ ~StartsComment(s, j)
    <2>1. s[j] \notin Opening /\ s[j] \notin Closing /\ s[j] # Quote
      BY <1>8
    <2> QED
      BY <1>1, <1>2, <1>8, <2>1 DEF NestStep
  <1> QED
    BY <1>4, <1>5, <1>6, <1>7, <1>8

\* What _skip_ws_and_comments() does at each.
LEMMA GapKinds ==
    ASSUME NEW s \in Texts, NEW j \in 1..(Len(s) + 1)
    PROVE  /\ SkipGap(s, j) \in j..(Len(s) + 1)
           /\ j > Len(s) => SkipGap(s, j) = j
           /\ j <= Len(s) /\ s[j] \in White => SkipGap(s, j) = SkipGap(s, j + 1)
           /\ j <= Len(s) /\ StartsComment(s, j) =>
                 SkipGap(s, j) = SkipGap(s, CommentEnd(s, j))
           /\ j <= Len(s) /\ s[j] \notin White /\ ~StartsComment(s, j) => SkipGap(s, j) = j
  <1>1. /\ SkipGap(s, j) \in j..(Len(s) + 1)
        /\ SkipGap(s, j) =
              IF j > Len(s) THEN j
              ELSE CASE s[j] \in White -> SkipGap(s, j + 1)
                     [] StartsComment(s, j) -> SkipGap(s, CommentEnd(s, j))
                     [] OTHER -> j
    BY SkipGapStep
  <1>2. j <= Len(s) <=> ~(j > Len(s))
    BY DEF Texts
  <1>3. s[j] \in White => ~StartsComment(s, j)
    BY Kinds DEF StartsComment
  <1> QED
    BY <1>1, <1>2, <1>3

\* A gap within a container makes no difference to where that ends.
LEMMA NestSkips ==
    ASSUME NEW s \in Texts
    PROVE  \A j \in 1..(Len(s) + 1), d \in Nat : Nest(s)[j][d] = Nest(s)[SkipGap(s, j)][d]
  <1> DEFINE n == Len(s) + 1
             T == {j \in 1..n : \A d \in Nat : Nest(s)[j][d] = Nest(s)[SkipGap(s, j)][d]}
  <1>1. n \in Nat /\ Len(s) \in Nat
    BY DEF Texts
  <1>2. ASSUME NEW j \in 1..n, \A k \in (j + 1)..n : k \in T
        PROVE  j \in T
    <2> SUFFICES ASSUME NEW d \in Nat
                 PROVE  Nest(s)[j][d] = Nest(s)[SkipGap(s, j)][d]
      OBVIOUS
    <2>1. CASE j > Len(s)
      BY <1>1, <2>1, GapKinds
    <2>2. CASE j <= Len(s) /\ s[j] \in White
      <3>1. j + 1 \in (j + 1)..n
        BY <1>1, <2>2
      <3>2. Nest(s)[j + 1][d] = Nest(s)[SkipGap(s, j + 1)][d]
        BY <1>2, <3>1
      <3>3. SkipGap(s, j) = SkipGap(s, j + 1)
        BY <2>2, GapKinds
      <3>4. s[j] \notin Opening \cup Closing \cup {Quote} /\ ~StartsComment(s, j)
        BY <2>2, Kinds DEF StartsComment
      <3>5. Nest(s)[j][d] = Nest(s)[j + 1][d]
        BY <1>1, <2>2, <3>4, NestKinds
      <3> QED
        BY <3>2, <3>3, <3>5
    <2>3. CASE j <= Len(s) /\ StartsComment(s, j)
      BY <1>1, <2>3, NestKinds
    <2>4. CASE j <= Len(s) /\ s[j] \notin White /\ ~StartsComment(s, j)
      <3>1. SkipGap(s, j) = j
        BY <2>4, GapKinds
      <3> QED
        BY <3>1
    <2> QED
      BY <1>1, <2>1, <2>2, <2>3, <2>4
  <1>3. 1..n \subseteq T
    <2> HIDE DEF n, T
    <2> QED
      BY <1>1, <1>2, Backwards
  <1> QED
    BY <1>3

\* What _scan_string() does at each: j is behind the part that was scanned.
LEMMA StringKinds ==
    ASSUME NEW s \in Texts, NEW o \in Nat, o < Len(s)
    PROVE  /\ s[o + 1] = Quote => StringEnd(s, o) = o + 2
           /\ s[o + 1] = Escape => StringEnd(s, o) = StringEnd(s, o + 2)
           /\ s[o + 1] \notin {Quote, Escape} => StringEnd(s, o) = StringEnd(s, o + 1)
  <1>1. o \in 0..(Len(s) + 1) /\ ~(o + 1 > Len(s))
    BY DEF Texts
  <1>2. StringEnd(s, o) = CASE s[o + 1] = Quote -> o + 2
                            [] s[o + 1] = Escape -> StringEnd(s, o + 2)
                            [] OTHER -> StringEnd(s, o + 1)
    BY <1>1, StringEndStep
  <1>3. Quote # Escape
    BY Kinds
  <1> QED
    BY <1>2, <1>3

-----------------------------------------------------------------------------
(* Pieces that are made of a character and a piece.                        *)

LEMMA SyntaxIsText ==
    /\ White \subseteq Characters /\ Opening \subseteq Characters
    /\ Closing \subseteq Characters
    /\ Quote \in Characters /\ Escape \in Characters /\ Newline \in Characters
    /\ Space \in Characters /\ LeftBrace \in Characters /\ RightBrace \in Characters
    /\ "/" \in Characters /\ "*" \in Characters /\ "," \in Characters /\ ":" \in Characters
    /\ "F" \in Characters /\ "P" \in Characters
    /\ "[" \in Characters /\ "]" \in Characters
  BY CharacterAssumption, Distinct DEF Syntax

\* A character in front of a text.
LEMMA ConsIsText ==
    ASSUME NEW c \in Characters, NEW v \in Texts
    PROVE  /\ Cons(c, v) \in Texts /\ Len(Cons(c, v)) = Len(v) + 1
           /\ Cons(c, v) # <<>> /\ Cons(c, v)[1] = c
           /\ \A k \in 1..Len(v) : Cons(c, v)[k + 1] = v[k]
  <1>1. <<c>> \in Texts /\ Len(<<c>>) = 1 /\ <<c>>[1] = c /\ Len(v) \in Nat
    BY DEF Texts
  <1>2. <<c>> \o v \in Texts /\ Len(<<c>> \o v) = Len(v) + 1
    BY <1>1 DEF Texts
  <1>3. (<<c>> \o v)[1] = c /\ \A k \in 1..Len(v) : (<<c>> \o v)[k + 1] = v[k]
    BY <1>1 DEF Texts
  <1>4. Len(<<>>) = 0
    OBVIOUS
  <1>5. <<c>> \o v # <<>>
    BY <1>1, <1>2, <1>4
  <1> QED
    BY <1>2, <1>3, <1>5 DEF Cons

LEMMA HoldsFirst ==
    ASSUME NEW s \in Texts, NEW o \in Nat, NEW c \in Characters, NEW v \in Texts
    PROVE  Holds(s, o, Cons(c, v)) <=> o < Len(s) /\ s[o + 1] = c /\ Holds(s, o + 1, v)
  <1>1. <<c>> \in Texts /\ Len(<<c>>) = 1
    BY DEF Texts
  <1>2. Holds(s, o, <<c>> \o v) <=> Holds(s, o, <<c>>) /\ Holds(s, o + Len(<<c>>), v)
    BY <1>1, HoldsConcat
  <1>3. Holds(s, o, <<c>>) <=> o + 1 <= Len(s) /\ s[o + 1] = c
    BY HoldsOne
  <1>4. o + 1 <= Len(s) <=> o < Len(s)
    BY DEF Texts
  <1> QED
    BY <1>1, <1>2, <1>3, <1>4 DEF Cons

\* A character behind a text.
Ended(v, c) == v \o <<c>>

LEMMA EndedIsText ==
    ASSUME NEW v \in Texts, NEW c \in Characters
    PROVE  /\ Ended(v, c) \in Texts /\ Len(Ended(v, c)) = Len(v) + 1
           /\ Ended(v, c) # <<>> /\ Ended(v, c)[Len(v) + 1] = c
           /\ \A k \in 1..Len(v) : Ended(v, c)[k] = v[k]
  <1>1. <<c>> \in Texts /\ Len(<<c>>) = 1 /\ <<c>>[1] = c /\ Len(v) \in Nat
    BY DEF Texts
  <1>2. v \o <<c>> \in Texts /\ Len(v \o <<c>>) = Len(v) + 1
    BY <1>1 DEF Texts
  <1>3. (v \o <<c>>)[Len(v) + 1] = c /\ \A k \in 1..Len(v) : (v \o <<c>>)[k] = v[k]
    BY <1>1 DEF Texts
  <1>4. Len(<<>>) = 0
    OBVIOUS
  <1>5. v \o <<c>> # <<>>
    BY <1>1, <1>2, <1>4
  <1> QED
    BY <1>2, <1>3, <1>5 DEF Ended

LEMMA HoldsLast ==
    ASSUME NEW s \in Texts, NEW o \in Nat, NEW v \in Texts, NEW c \in Characters
    PROVE  Holds(s, o, Ended(v, c))
              <=> Holds(s, o, v) /\ o + Len(v) < Len(s) /\ s[o + Len(v) + 1] = c
  <1>1. <<c>> \in Texts /\ Len(<<c>>) = 1 /\ Len(v) \in Nat /\ Len(s) \in Nat
    BY DEF Texts
  <1>2. Holds(s, o, v \o <<c>>) <=> Holds(s, o, v) /\ Holds(s, o + Len(v), <<c>>)
    BY <1>1, HoldsConcat
  <1>3. o + Len(v) \in Nat
    BY <1>1
  <1>4. Holds(s, o + Len(v), <<c>>) <=> o + Len(v) + 1 <= Len(s) /\ s[o + Len(v) + 1] = c
    BY <1>3, HoldsOne
  <1>5. o + Len(v) + 1 <= Len(s) <=> o + Len(v) < Len(s)
    BY <1>1
  <1> QED
    BY <1>2, <1>4, <1>5 DEF Ended

-----------------------------------------------------------------------------
(* The grammar of JSONC: each language is the least with its productions.  *)

InLine(t) == Cons("/", Cons("/", Ended(t, Newline)))
InBlock(t) == Cons("/", Cons("*", Ended(Ended(t, "*"), "/")))

LineComments ==
    {InLine(t) : t \in {t \in Texts : \A k \in 1..Len(t) : t[k] # Newline}}

\* The text ends at the first `*/`, the one behind it.
BlockComments ==
    {InBlock(t) : t \in {t \in Texts :
        \A k \in 1..Len(t) : ~(t[k] = "*" /\ Ended(t, "*")[k + 1] = "/")}}

Comments == LineComments \cup BlockComments

MakesGaps(G) ==
    /\ <<>> \in G
    /\ \A c \in White, g \in G : Cons(c, g) \in G
    /\ \A c \in Comments, g \in G : c \o g \in G

Gaps == {g \in Texts : \A G \in SUBSET Texts : MakesGaps(G) => g \in G}

MakesBodies(B) ==
    /\ <<>> \in B
    /\ \A c \in Characters \ {Quote, Escape}, b \in B : Cons(c, b) \in B
    /\ \A c \in Characters, b \in B : Cons(Escape, Cons(c, b)) \in B

Bodies == {b \in Texts : \A B \in SUBSET Texts : MakesBodies(B) => b \in B}

InQuotes(b) == Cons(Quote, Ended(b, Quote))

Strings == {InQuotes(b) : b \in Bodies}

InBrackets(a, t, z) == Cons(a, Ended(t, z))

\* What is between two brackets: of what is not in a string or a comment, only the
\* brackets are looked at.
MakesContents(C) ==
    /\ <<>> \in C
    /\ \A c \in Characters \ (Opening \cup Closing \cup {Quote, "/"}), t \in C :
          Cons(c, t) \in C
    /\ \A v \in Strings \cup Comments, t \in C : v \o t \in C
    /\ \A a \in Opening, z \in Closing, u, t \in C : InBrackets(a, u, z) \o t \in C

Contents == {t \in Texts : \A C \in SUBSET Texts : MakesContents(C) => t \in C}

Containers == {InBrackets(a, t, z) : a \in Opening, t \in Contents, z \in Closing}

Literals ==
    {v \in Texts : /\ v # <<>>
                   /\ \A k \in 1..Len(v) : v[k] \notin White \cup Opening \cup Closing
                                                \cup {Quote, ",", ":", "/"}}

-----------------------------------------------------------------------------
(* What the scanner makes of the grammar.                                  *)

LEMMA LineCommentIsSkipped ==
    ASSUME NEW s \in Texts, NEW o \in Nat, NEW c \in LineComments, Holds(s, o, c)
    PROVE  /\ c \in Texts /\ Len(c) > 1 /\ StartsComment(c, 1)
           /\ o < Len(s) /\ StartsComment(s, o + 1)
           /\ SkipGap(s, o + 1) = SkipGap(s, o + Len(c) + 1)
  <1>1. PICK t \in Texts : /\ \A k \in 1..Len(t) : t[k] # Newline
                           /\ c = InLine(t)
    BY DEF LineComments
  <1> DEFINE u == Ended(t, Newline)
             w == Cons("/", u)
             e == o + Len(t) + 3
  <1>2. Len(t) \in Nat /\ Len(s) \in Nat
    BY DEF Texts
  <1>3. u \in Texts /\ Len(u) = Len(t) + 1
    BY EndedIsText, SyntaxIsText
  <1>4. w \in Texts /\ Len(w) = Len(t) + 2 /\ w[1] = "/"
    <2> HIDE DEF u
    <2>1. "/" \in Characters
      BY SyntaxIsText
    <2>2. w \in Texts /\ Len(w) = Len(u) + 1 /\ w[1] = "/"
      BY <1>3, <2>1, ConsIsText
    <2> QED
      BY <1>2, <1>3, <2>2
  <1>5. c = Cons("/", w)
    BY <1>1 DEF InLine
  <1>6. c \in Texts /\ Len(c) = Len(t) + 3 /\ c[1] = "/" /\ c[2] = "/"
    <2>1. /\ c \in Texts /\ Len(c) = Len(w) + 1 /\ c[1] = "/"
          /\ \A k \in 1..Len(w) : c[k + 1] = w[k]
      <3> HIDE DEF w
      <3>1. "/" \in Characters
        BY SyntaxIsText
      <3> QED
        BY <1>4, <1>5, <3>1, ConsIsText
    <2>2. 1 \in 1..Len(w) /\ 1 + 1 = 2
      BY <1>2, <1>4
    <2> QED
      BY <1>2, <1>4, <2>1, <2>2
  <1>7. o < Len(s) /\ s[o + 1] = "/" /\ Holds(s, o + 1, w)
    <2> HIDE DEF w
    <2> QED
      BY <1>4, <1>5, HoldsFirst, SyntaxIsText
  <1>8. o + 1 < Len(s) /\ s[(o + 1) + 1] = "/" /\ Holds(s, (o + 1) + 1, u)
    <2> HIDE DEF u
    <2>1. o + 1 \in Nat
      OBVIOUS
    <2> QED
      BY <1>3, <1>7, <2>1, HoldsFirst, SyntaxIsText
  <1>9. /\ Holds(s, (o + 1) + 1, t) /\ (o + 1) + 1 + Len(t) < Len(s)
        /\ s[(o + 1) + 1 + Len(t) + 1] = Newline
    <2>1. (o + 1) + 1 \in Nat
      OBVIOUS
    <2>0. Newline \in Characters
      BY SyntaxIsText
    <2>2. \A p \in Nat : Holds(s, p, u) =>
             Holds(s, p, t) /\ p + Len(t) < Len(s) /\ s[p + Len(t) + 1] = Newline
      BY <2>0, HoldsLast
    <2> HIDE DEF u
    <2> QED
      BY <1>8, <2>1, <2>2
  <1>10. StartsComment(s, o + 1) /\ StartsComment(c, 1)
    <2>1. 1 + 1 = 2 /\ 1 < Len(c)
      BY <1>2, <1>6
    <2> QED
      BY <1>6, <1>7, <1>8, <2>1 DEF StartsComment
  <1>11. CommentEnd(s, o + 1) = e
    <2>1. e \in ((o + 1) + 2)..Len(s) /\ s[e] = Newline
      <3>1. (o + 1) + 1 + Len(t) + 1 = e
        BY <1>2
      <3> QED
        BY <1>2, <1>9, <3>1
    <2>2. ASSUME NEW k \in ((o + 1) + 2)..(e - 1)
          PROVE  s[k] # Newline
      <3>1. k - (o + 2) \in 1..Len(t) /\ ((o + 1) + 1) + (k - (o + 2)) = k
        BY <1>2
      <3>2. s[((o + 1) + 1) + (k - (o + 2))] = t[k - (o + 2)]
        BY <1>9, <3>1 DEF Holds
      <3> QED
        BY <1>1, <3>1, <3>2
    <2>3. o + 1 \in 1..Len(s)
      BY <1>2, <1>8
    <2> HIDE DEF e
    <2> QED
      BY <1>8, <1>10, <2>1, <2>2, <2>3, CommentEnds
  <1>12. SkipGap(s, o + 1) = SkipGap(s, e)
    <2>1. o + 1 \in 1..(Len(s) + 1) /\ o + 1 <= Len(s)
      BY <1>2, <1>8
    <2> QED
      BY <1>10, <1>11, <2>1, GapKinds
  <1>13. SkipGap(s, e) = SkipGap(s, e + 1)
    <2>1. (o + 1) + 1 + Len(t) + 1 = e
      BY <1>2
    <2>2. e \in 1..(Len(s) + 1) /\ e <= Len(s) /\ s[e] = Newline
      BY <1>2, <1>9, <2>1
    <2> QED
      BY <2>2, Distinct, GapKinds
  <1>14. e + 1 = o + Len(c) + 1
    BY <1>2, <1>6
  <1>15. Len(c) > 1
    BY <1>2, <1>6
  <1> QED
    BY <1>6, <1>7, <1>10, <1>12, <1>13, <1>14, <1>15

LEMMA BlockCommentIsSkipped ==
    ASSUME NEW s \in Texts, NEW o \in Nat, NEW c \in BlockComments, Holds(s, o, c)
    PROVE  /\ c \in Texts /\ Len(c) > 1 /\ StartsComment(c, 1)
           /\ o < Len(s) /\ StartsComment(s, o + 1)
           /\ SkipGap(s, o + 1) = SkipGap(s, o + Len(c) + 1)
  <1> DEFINE open(t) == Ended(t, "*")
  <1>1. PICK t \in Texts :
           /\ \A k \in 1..Len(t) : ~(t[k] = "*" /\ open(t)[k + 1] = "/")
           /\ c = InBlock(t)
    BY DEF BlockComments
  <1>2. Len(t) \in Nat /\ Len(s) \in Nat
    BY DEF Texts
  <1>90. "/" \in Characters
    BY SyntaxIsText
  <1>91. "*" \in Characters
    BY SyntaxIsText
  <1> DEFINE v == open(t)
             u == Ended(v, "/")
             w == Cons("*", u)
             e == o + Len(t) + 3
  <1>3. v \in Texts /\ Len(v) = Len(t) + 1 /\ v[Len(t) + 1] = "*"
        /\ \A k \in 1..Len(t) : v[k] = t[k]
    BY <1>91, EndedIsText
  <1>4. /\ Len(w) \in Nat /\ Len(w) = Len(t) + 3 /\ w \in Texts /\ w[1] = "*"
        /\ u \in Texts /\ Len(u) = Len(t) + 2
    <2> HIDE DEF v
    <2>1. u \in Texts /\ Len(u) = Len(v) + 1
      BY <1>3, <1>90, EndedIsText
    <2> HIDE DEF u
    <2>2. w \in Texts /\ Len(w) = Len(u) + 1 /\ w[1] = "*"
      BY <2>1, <1>91, ConsIsText
    <2> HIDE DEF w
    <2> QED
      BY <1>2, <1>3, <2>1, <2>2
  <1>5. c = Cons("/", w)
    BY <1>1 DEF InBlock
  <1>6. c \in Texts /\ Len(c) = Len(t) + 4 /\ c[1] = "/" /\ c[2] = "*"
    <2> HIDE DEF w, u
    <2>1. /\ c \in Texts /\ Len(c) = Len(w) + 1 /\ c[1] = "/"
          /\ \A k \in 1..Len(w) : c[k + 1] = w[k]
      <3>1. w \in Texts
        BY <1>4
      <3> QED
        BY <3>1, <1>5, <1>90, ConsIsText
    <2>2. 1 \in 1..Len(w) /\ 1 + 1 = 2
      BY <1>2, <1>4
    <2> QED
      BY <1>2, <1>4, <2>1, <2>2
  <1>7. o < Len(s) /\ s[o + 1] = "/" /\ Holds(s, o + 1, w)
    <2> HIDE DEF w, u
    <2> QED
      BY <1>4, <1>5, <1>90, HoldsFirst
  <1>8. o + 1 < Len(s) /\ s[(o + 1) + 1] = "*" /\ Holds(s, (o + 1) + 1, u)
    <2>0. o + 1 \in Nat
      OBVIOUS
    <2>1. \A p \in Nat : Holds(s, p, w) =>
             p < Len(s) /\ s[p + 1] = "*" /\ Holds(s, p + 1, u)
      <3> HIDE DEF u
      <3> QED
        BY <1>4, <1>91, HoldsFirst
    <2> HIDE DEF w, u
    <2> QED
      BY <1>7, <2>0, <2>1
  <1>9. PICK p \in Nat : p = (o + 1) + 1
    OBVIOUS
  <1>10. Holds(s, p, v) /\ p + Len(v) < Len(s) /\ s[p + Len(v) + 1] = "/"
    <2>1. Holds(s, p, u) => Holds(s, p, v) /\ p + Len(v) < Len(s) /\ s[p + Len(v) + 1] = "/"
      <3> HIDE DEF v
      <3> QED
        BY <1>3, <1>90, HoldsLast
    <2> HIDE DEF v, u
    <2> QED
      BY <1>8, <1>9, <2>1
  <1> HIDE DEF w, u, v
  <1>11. StartsComment(s, o + 1) /\ StartsComment(c, 1)
    <2>1. 1 + 1 = 2 /\ 1 < Len(c)
      BY <1>2, <1>6
    <2> QED
      BY <1>6, <1>7, <1>8, <2>1 DEF StartsComment
  <1>12. \A k \in 1..Len(v) : s[p + k] = v[k]
    BY <1>10 DEF Holds
  <1>13. CommentEnd(s, o + 1) = e + 2
    <2>1. e \in ((o + 1) + 2)..(Len(s) - 1) /\ s[e] = "*" /\ s[e + 1] = "/"
      <3>1. p + Len(v) + 1 = e + 1 /\ p + (Len(t) + 1) = e /\ Len(t) + 1 \in 1..Len(v)
        BY <1>2, <1>3, <1>9
      <3>2. s[p + (Len(t) + 1)] = v[Len(t) + 1]
        BY <1>12, <3>1
      <3>3. s[e] = "*"
        BY <1>3, <3>1, <3>2
      <3> QED
        BY <1>2, <1>10, <3>1, <3>3
    <2>2. ASSUME NEW k \in ((o + 1) + 2)..(e - 1)
          PROVE  ~(s[k] = "*" /\ s[k + 1] = "/")
      <3>1. PICK m \in 1..Len(t) : p + m = k /\ p + (m + 1) = k + 1 /\ m + 1 \in 1..Len(v)
                                   /\ m \in 1..Len(v)
        <4>1. k - p \in 1..Len(t) /\ p + (k - p) = k /\ p + ((k - p) + 1) = k + 1
              /\ (k - p) + 1 \in 1..Len(v) /\ k - p \in 1..Len(v)
          BY <1>2, <1>3, <1>9
        <4> QED
          BY <4>1
      <3>2. s[p + m] = v[m] /\ s[p + (m + 1)] = v[m + 1]
        BY <1>12, <3>1
      <3>3. v[m] = t[m]
        BY <1>3
      <3>4. ~(t[m] = "*" /\ v[m + 1] = "/")
        BY <1>1 DEF v
      <3> QED
        BY <3>1, <3>2, <3>3, <3>4
    <2>3. o + 1 \in 1..Len(s)
      BY <1>2, <1>8
    <2> HIDE DEF e
    <2> QED
      BY <1>8, <1>11, <2>1, <2>2, <2>3, CommentEnds
  <1>14. SkipGap(s, o + 1) = SkipGap(s, e + 2)
    <2>1. o + 1 \in 1..(Len(s) + 1) /\ o + 1 <= Len(s)
      BY <1>2, <1>8
    <2> QED
      BY <1>11, <1>13, <2>1, GapKinds
  <1>15. e + 2 = o + Len(c) + 1 /\ Len(c) > 1
    BY <1>2, <1>6
  <1> QED
    BY <1>6, <1>7, <1>11, <1>14, <1>15

LEMMA CommentIsSkipped ==
    ASSUME NEW s \in Texts, NEW o \in Nat, NEW c \in Comments, Holds(s, o, c)
    PROVE  /\ c \in Texts /\ Len(c) > 1 /\ StartsComment(c, 1)
           /\ o < Len(s) /\ StartsComment(s, o + 1)
           /\ SkipGap(s, o + 1) = SkipGap(s, o + Len(c) + 1)
  BY LineCommentIsSkipped, BlockCommentIsSkipped DEF Comments

\* A comment is a text that begins with what one begins with.
LEMMA CommentIsText ==
    ASSUME NEW c \in Comments
    PROVE  c \in Texts /\ Len(c) > 1 /\ StartsComment(c, 1)
  <1>1. c \in Texts
    <2>1. CASE c \in LineComments
      <3>1. PICK t \in Texts : c = InLine(t)
        BY <2>1 DEF LineComments
      <3>2. "/" \in Characters
        BY SyntaxIsText
      <3>3. Newline \in Characters
        BY SyntaxIsText
      <3>4. Ended(t, Newline) \in Texts
        BY <3>3, EndedIsText
      <3>5. Cons("/", Ended(t, Newline)) \in Texts
        BY <3>2, <3>4, ConsIsText
      <3> QED
        BY <3>1, <3>2, <3>5, ConsIsText DEF InLine
    <2>2. CASE c \in BlockComments
      <3>1. PICK t \in Texts : c = InBlock(t)
        BY <2>2 DEF BlockComments
      <3>2. "/" \in Characters
        BY SyntaxIsText
      <3>3. "*" \in Characters
        BY SyntaxIsText
      <3>4. Ended(t, "*") \in Texts
        BY <3>3, EndedIsText
      <3>5. Ended(Ended(t, "*"), "/") \in Texts
        BY <3>2, <3>4, EndedIsText
      <3>6. Cons("*", Ended(Ended(t, "*"), "/")) \in Texts
        BY <3>3, <3>5, ConsIsText
      <3> QED
        BY <3>1, <3>2, <3>6, ConsIsText DEF InBlock
    <2> QED
      BY <2>1, <2>2 DEF Comments
  <1>2. Holds(c, 0, c)
    BY <1>1 DEF Holds, Texts
  <1> QED
    BY <1>1, <1>2, CommentIsSkipped

\* The texts that _skip_ws_and_comments() goes over.
SkippedTexts ==
    {g \in Texts : \A s \in Texts, o \in Nat :
        Holds(s, o, g) => SkipGap(s, o + 1) = SkipGap(s, o + Len(g) + 1)}

LEMMA GapIsSkipped == Gaps \subseteq SkippedTexts
  <1> DEFINE G == SkippedTexts
  <1>1. <<>> \in G
    BY DEF SkippedTexts, Texts
  <1>2. ASSUME NEW c \in White, NEW g \in G
        PROVE  Cons(c, g) \in G
    <2>1. g \in Texts /\ c \in Characters
      BY SyntaxIsText DEF SkippedTexts
    <2>2. Cons(c, g) \in Texts /\ Len(Cons(c, g)) = Len(g) + 1
      BY <2>1, ConsIsText
    <2>3. ASSUME NEW s \in Texts, NEW o \in Nat, Holds(s, o, Cons(c, g))
          PROVE  SkipGap(s, o + 1) = SkipGap(s, o + Len(Cons(c, g)) + 1)
      <3>1. o < Len(s) /\ s[o + 1] = c /\ Holds(s, o + 1, g)
        BY <2>1, <2>3, HoldsFirst
      <3>2. SkipGap(s, o + 1) = SkipGap(s, (o + 1) + 1)
        <4>1. o + 1 \in 1..(Len(s) + 1) /\ o + 1 <= Len(s)
          BY <3>1 DEF Texts
        <4> QED
          BY <3>1, <4>1, GapKinds
      <3>3. SkipGap(s, (o + 1) + 1) = SkipGap(s, (o + 1) + Len(g) + 1)
        <4>1. o + 1 \in Nat
          OBVIOUS
        <4> QED
          BY <3>1, <4>1 DEF SkippedTexts
      <3>4. (o + 1) + Len(g) + 1 = o + Len(Cons(c, g)) + 1
        BY <2>1, <2>2 DEF Texts
      <3> QED
        BY <3>2, <3>3, <3>4
    <2> QED
      BY <2>2, <2>3 DEF SkippedTexts
  <1>3. ASSUME NEW c \in Comments, NEW g \in G
        PROVE  c \o g \in G
    <2>1. g \in Texts /\ c \in Texts
      BY CommentIsText DEF SkippedTexts
    <2>2. c \o g \in Texts /\ Len(c \o g) = Len(c) + Len(g)
      BY <2>1 DEF Texts
    <2>3. ASSUME NEW s \in Texts, NEW o \in Nat, Holds(s, o, c \o g)
          PROVE  SkipGap(s, o + 1) = SkipGap(s, o + Len(c \o g) + 1)
      <3>1. Holds(s, o, c) /\ Holds(s, o + Len(c), g)
        BY <2>1, <2>3, HoldsConcat
      <3>2. SkipGap(s, o + 1) = SkipGap(s, o + Len(c) + 1)
        BY <3>1, CommentIsSkipped
      <3>3. SkipGap(s, o + Len(c) + 1) = SkipGap(s, o + Len(c) + Len(g) + 1)
        <4>1. o + Len(c) \in Nat
          BY <2>1 DEF Texts
        <4> QED
          BY <3>1, <4>1 DEF SkippedTexts
      <3>4. o + Len(c) + Len(g) + 1 = o + Len(c \o g) + 1
        BY <2>1, <2>2 DEF Texts
      <3> QED
        BY <3>2, <3>3, <3>4
    <2> QED
      BY <2>2, <2>3 DEF SkippedTexts
  <1>4. MakesGaps(G) /\ G \in SUBSET Texts
    BY <1>1, <1>2, <1>3 DEF MakesGaps, SkippedTexts
  <1> QED
    BY <1>4 DEF Gaps

\* How a gap begins: with white space or a comment, and with a comment behind spaces.
GapFronts ==
    {g \in Texts : /\ g = <<>> \/ g[1] \in White \/ StartsComment(g, 1)
                   /\ \A j \in 1..Len(g) :
                         (\A k \in 1..(j - 1) : g[k] \in White) => g[j] \in White \cup {"/"}}

LEMMA GapBegins == Gaps \subseteq GapFronts
  <1> DEFINE G == GapFronts
  <1>1. <<>> \in G
    BY DEF GapFronts, Texts
  <1>2. ASSUME NEW c \in White, NEW g \in G
        PROVE  Cons(c, g) \in G
    <2> DEFINE w == Cons(c, g)
    <2>1. g \in Texts /\ c \in Characters /\ Len(g) \in Nat
      <3>1. c \in Characters
        BY SyntaxIsText
      <3>2. g \in Texts
        BY DEF GapFronts
      <3> QED
        BY <3>1, <3>2 DEF Texts
    <2>2. /\ w \in Texts /\ Len(w) = Len(g) + 1 /\ w[1] = c
          /\ \A k \in 1..Len(g) : w[k + 1] = g[k]
      BY <2>1, ConsIsText
    <2> HIDE DEF w
    <2>3. ASSUME NEW j \in 1..Len(w), \A k \in 1..(j - 1) : w[k] \in White
          PROVE  w[j] \in White \cup {"/"}
      <3>1. CASE j = 1
        BY <2>2, <3>1
      <3>2. CASE j # 1
        <4>1. j - 1 \in 1..Len(g) /\ (j - 1) + 1 = j
          BY <2>1, <2>2, <3>2
        <4>2. ASSUME NEW k \in 1..((j - 1) - 1)
              PROVE  g[k] \in White
          <5>1. k + 1 \in 1..(j - 1) /\ k \in 1..Len(g)
            BY <2>1, <2>2
          <5> QED
            BY <2>2, <2>3, <5>1
        <4>3. g[j - 1] \in White \cup {"/"}
          BY <4>1, <4>2 DEF GapFronts
        <4> QED
          BY <2>2, <4>1, <4>3
      <3> QED
        BY <3>1, <3>2
    <2> QED
      BY <2>2, <2>3 DEF GapFronts, w
  <1>3. ASSUME NEW c \in Comments, NEW g \in G
        PROVE  c \o g \in G
    <2> DEFINE w == c \o g
    <2>1. g \in Texts /\ c \in Texts /\ Len(c) > 1 /\ StartsComment(c, 1) /\ c[1] = "/"
      BY CommentIsText DEF GapFronts, StartsComment
    <2>2. /\ w \in Texts /\ Len(w) = Len(c) + Len(g) /\ Len(c) \in Nat /\ Len(g) \in Nat
          /\ w[1] = c[1] /\ w[2] = c[2]
      BY <2>1 DEF Texts
    <2> HIDE DEF w
    <2>3. StartsComment(w, 1)
      <3>1. 1 + 1 = 2 /\ 1 < Len(w)
        BY <2>1, <2>2
      <3> QED
        BY <2>1, <2>2, <3>1 DEF StartsComment
    <2>4. ASSUME NEW j \in 1..Len(w), \A k \in 1..(j - 1) : w[k] \in White
          PROVE  w[j] \in White \cup {"/"}
      <3>1. w[1] \notin White
        BY <2>1, <2>2, Kinds
      <3>2. j = 1
        BY <2>4, <3>1
      <3> QED
        BY <2>1, <2>2, <3>2
    <2> QED
      BY <2>2, <2>3, <2>4 DEF GapFronts, w
  <1>4. MakesGaps(G) /\ G \in SUBSET Texts
    BY <1>1, <1>2, <1>3 DEF MakesGaps, GapFronts
  <1> QED
    BY <1>4 DEF Gaps

\* The texts that _scan_string() goes over.
UnquotedTexts ==
    {b \in Texts : \A s \in Texts, o \in Nat :
        Holds(s, o, b) => StringEnd(s, o) = StringEnd(s, o + Len(b))}

LEMMA BodyIsScanned == Bodies \subseteq UnquotedTexts
  <1> DEFINE B == UnquotedTexts
  <1>1. <<>> \in B
    BY DEF UnquotedTexts, Texts
  <1>2. ASSUME NEW c \in Characters \ {Quote, Escape}, NEW b \in B
        PROVE  Cons(c, b) \in B
    <2>1. b \in Texts
      BY DEF UnquotedTexts
    <2>2. Cons(c, b) \in Texts /\ Len(Cons(c, b)) = Len(b) + 1
      BY <2>1, ConsIsText
    <2>3. ASSUME NEW s \in Texts, NEW o \in Nat, Holds(s, o, Cons(c, b))
          PROVE  StringEnd(s, o) = StringEnd(s, o + Len(Cons(c, b)))
      <3>1. o < Len(s) /\ s[o + 1] = c /\ Holds(s, o + 1, b)
        BY <2>1, <2>3, HoldsFirst
      <3>2. StringEnd(s, o) = StringEnd(s, o + 1)
        BY <3>1, StringKinds
      <3>3. StringEnd(s, o + 1) = StringEnd(s, (o + 1) + Len(b))
        BY <3>1 DEF UnquotedTexts
      <3>4. (o + 1) + Len(b) = o + Len(Cons(c, b))
        BY <2>1, <2>2 DEF Texts
      <3> QED
        BY <3>2, <3>3, <3>4
    <2> QED
      BY <2>2, <2>3 DEF UnquotedTexts
  <1>3. ASSUME NEW c \in Characters, NEW b \in B
        PROVE  Cons(Escape, Cons(c, b)) \in B
    <2> DEFINE v == Cons(c, b)
               w == Cons(Escape, v)
    <2>1. b \in Texts /\ Len(b) \in Nat
      BY DEF UnquotedTexts, Texts
    <2>2. v \in Texts /\ Len(v) = Len(b) + 1
      BY <2>1, ConsIsText
    <2>0. Escape \in Characters
      BY SyntaxIsText
    <2>3. w \in Texts /\ Len(w) = Len(b) + 2
      <3> HIDE DEF v
      <3>1. w \in Texts /\ Len(w) = Len(v) + 1
        BY <2>0, <2>2, ConsIsText
      <3> HIDE DEF w
      <3> QED
        BY <2>1, <2>2, <3>1
    <2>4. ASSUME NEW s \in Texts, NEW o \in Nat, Holds(s, o, w)
          PROVE  StringEnd(s, o) = StringEnd(s, o + Len(w))
      <3>1. o < Len(s) /\ s[o + 1] = Escape /\ Holds(s, o + 1, v)
        <4> HIDE DEF v
        <4> QED
          BY <2>0, <2>2, <2>4, HoldsFirst
      <3>2. Holds(s, (o + 1) + 1, b)
        <4>1. \A p \in Nat : Holds(s, p, v) => Holds(s, p + 1, b)
          BY <2>1, HoldsFirst
        <4> HIDE DEF v
        <4> QED
          BY <3>1, <4>1
      <3>3. StringEnd(s, o) = StringEnd(s, o + 2)
        BY <3>1, StringKinds
      <3>4. (o + 1) + 1 = o + 2 /\ o + 2 \in Nat /\ (o + 2) + Len(b) = o + Len(w)
        BY <2>1, <2>3
      <3>5. Holds(s, o + 2, b)
        BY <3>2, <3>4
      <3>6. StringEnd(s, o + 2) = StringEnd(s, (o + 2) + Len(b))
        <4>1. \A p \in Nat : Holds(s, p, b) => StringEnd(s, p) = StringEnd(s, p + Len(b))
          BY DEF UnquotedTexts
        <4> QED
          BY <3>4, <3>5, <4>1
      <3> QED
        BY <3>3, <3>4, <3>6
    <2> QED
      BY <2>3, <2>4 DEF UnquotedTexts
  <1>4. MakesBodies(B) /\ B \in SUBSET Texts
    BY <1>1, <1>2, <1>3 DEF MakesBodies, UnquotedTexts
  <1> QED
    BY <1>4 DEF Bodies

\* The strings, as _scan_string() sees them.
Quoted == {InQuotes(b) : b \in UnquotedTexts}

LEMMA StringsAreQuoted == Strings \subseteq Quoted
  BY BodyIsScanned DEF Strings, Quoted

\* A string ends behind its closing quote.
LEMMA StringIsScanned ==
    ASSUME NEW v \in Quoted
    PROVE  /\ v \in Texts /\ Len(v) > 1 /\ v[1] = Quote
           /\ \A s \in Texts, o \in Nat :
                 Holds(s, o, v) => /\ o < Len(s) /\ s[o + 1] = Quote
                                   /\ StringEnd(s, o + 1) = o + Len(v) + 1
  <1>1. PICK b \in UnquotedTexts : v = InQuotes(b)
    BY DEF Quoted
  <1> DEFINE u == Ended(b, Quote)
  <1>2. b \in Texts /\ Len(b) \in Nat
    BY DEF UnquotedTexts, Texts
  <1>3. Quote \in Characters
    BY SyntaxIsText
  <1>4. u \in Texts /\ Len(u) = Len(b) + 1
    BY <1>2, <1>3, EndedIsText
  <1>5. v \in Texts /\ Len(v) = Len(b) + 2 /\ v[1] = Quote
    <2>1. v = Cons(Quote, u)
      BY <1>1 DEF InQuotes
    <2> HIDE DEF u
    <2>2. v \in Texts /\ Len(v) = Len(u) + 1 /\ v[1] = Quote
      BY <1>3, <1>4, <2>1, ConsIsText
    <2> QED
      BY <1>2, <1>4, <2>2
  <1>6. ASSUME NEW s \in Texts, NEW o \in Nat, Holds(s, o, v)
        PROVE  /\ o < Len(s) /\ s[o + 1] = Quote
               /\ StringEnd(s, o + 1) = o + Len(v) + 1
    <2>1. PICK p \in Nat : p = o + 1
      OBVIOUS
    <2>2. o < Len(s) /\ s[o + 1] = Quote /\ Holds(s, p, u)
      <3>1. v = Cons(Quote, u)
        BY <1>1 DEF InQuotes
      <3> HIDE DEF u
      <3> QED
        BY <1>3, <1>4, <1>6, <2>1, <3>1, HoldsFirst
    <2>3. Holds(s, p, b) /\ p + Len(b) < Len(s) /\ s[p + Len(b) + 1] = Quote
      BY <1>2, <1>3, <2>2, HoldsLast
    <2>4. StringEnd(s, p) = StringEnd(s, p + Len(b))
      BY <1>2, <2>3 DEF UnquotedTexts
    <2>5. StringEnd(s, p + Len(b)) = p + Len(b) + 2
      <3>1. p + Len(b) \in Nat
        BY <1>2
      <3> QED
        BY <2>3, <3>1, StringKinds
    <2>6. p + Len(b) + 2 = o + Len(v) + 1
      BY <1>2, <1>5, <2>1
    <2> QED
      BY <2>1, <2>2, <2>4, <2>5, <2>6
  <1>7. Len(v) > 1
    BY <1>2, <1>5
  <1> QED
    BY <1>5, <1>6, <1>7

\* The texts that _scan_container() goes over, within a container.
InnerTexts ==
    {t \in Texts : \A s \in Texts, o \in Nat, d \in Nat \ {0} :
        Holds(s, o, t) => Nest(s)[o + 1][d] = Nest(s)[o + Len(t) + 1][d]}

LEMMA InnerOneMore ==
    ASSUME NEW c \in Characters \ (Opening \cup Closing \cup {Quote, "/"}),
           NEW t \in InnerTexts
    PROVE  Cons(c, t) \in InnerTexts
  <1>1. t \in Texts
    BY DEF InnerTexts
  <1>2. Cons(c, t) \in Texts /\ Len(Cons(c, t)) = Len(t) + 1
    BY <1>1, ConsIsText
  <1>3. ASSUME NEW s \in Texts, NEW o \in Nat, NEW d \in Nat \ {0}, Holds(s, o, Cons(c, t))
        PROVE  Nest(s)[o + 1][d] = Nest(s)[o + Len(Cons(c, t)) + 1][d]
    <2>1. o < Len(s) /\ s[o + 1] = c /\ Holds(s, o + 1, t)
      BY <1>1, <1>3, HoldsFirst
    <2>2. Nest(s)[o + 1][d] = Nest(s)[(o + 1) + 1][d]
      <3>1. o + 1 \in 1..Len(s)
        BY <2>1 DEF Texts
      <3>2. ~StartsComment(s, o + 1) /\ s[o + 1] \notin Opening \cup Closing \cup {Quote}
        BY <2>1 DEF StartsComment
      <3> QED
        BY <3>1, <3>2, NestKinds
    <2>3. Nest(s)[(o + 1) + 1][d] = Nest(s)[(o + 1) + Len(t) + 1][d]
      <3>1. o + 1 \in Nat
        OBVIOUS
      <3> QED
        BY <2>1, <3>1 DEF InnerTexts
    <2>4. (o + 1) + Len(t) + 1 = o + Len(Cons(c, t)) + 1
      BY <1>1, <1>2 DEF Texts
    <2> QED
      BY <2>2, <2>3, <2>4
  <1> QED
    BY <1>2, <1>3 DEF InnerTexts

LEMMA InnerConcat ==
    ASSUME NEW v \in InnerTexts, NEW t \in InnerTexts
    PROVE  v \o t \in InnerTexts
  <1>1. v \in Texts /\ t \in Texts
    BY DEF InnerTexts
  <1>2. v \o t \in Texts /\ Len(v \o t) = Len(v) + Len(t) /\ Len(v) \in Nat /\ Len(t) \in Nat
    BY <1>1 DEF Texts
  <1>3. ASSUME NEW s \in Texts, NEW o \in Nat, NEW d \in Nat \ {0}, Holds(s, o, v \o t)
        PROVE  Nest(s)[o + 1][d] = Nest(s)[o + Len(v \o t) + 1][d]
    <2>1. Holds(s, o, v) /\ Holds(s, o + Len(v), t)
      BY <1>1, <1>3, HoldsConcat
    <2>2. Nest(s)[o + 1][d] = Nest(s)[o + Len(v) + 1][d]
      BY <2>1 DEF InnerTexts
    <2>3. PICK p \in Nat : p = o + Len(v)
      BY <1>2
    <2>4. Nest(s)[p + 1][d] = Nest(s)[p + Len(t) + 1][d]
      BY <2>1, <2>3 DEF InnerTexts
    <2>5. p + Len(t) + 1 = o + Len(v \o t) + 1
      BY <1>2, <2>3
    <2> QED
      BY <2>2, <2>3, <2>4, <2>5
  <1> QED
    BY <1>2, <1>3 DEF InnerTexts

LEMMA InnerString ==
    ASSUME NEW v \in Quoted
    PROVE  v \in InnerTexts
  <1>1. v \in Texts /\ Len(v) > 1
    BY StringIsScanned
  <1>2. ASSUME NEW s \in Texts, NEW o \in Nat, NEW d \in Nat \ {0}, Holds(s, o, v)
        PROVE  Nest(s)[o + 1][d] = Nest(s)[o + Len(v) + 1][d]
    <2>1. o < Len(s) /\ s[o + 1] = Quote /\ StringEnd(s, o + 1) = o + Len(v) + 1
      BY <1>2, StringIsScanned
    <2>2. o + 1 \in 1..Len(s)
      BY <2>1 DEF Texts
    <2> QED
      BY <2>1, <2>2, NestKinds
  <1> QED
    BY <1>1, <1>2 DEF InnerTexts

LEMMA InnerComment ==
    ASSUME NEW v \in Comments
    PROVE  v \in InnerTexts
  <1>1. v \in Texts /\ Len(v) > 1
    BY CommentIsText
  <1>2. ASSUME NEW s \in Texts, NEW o \in Nat, NEW d \in Nat \ {0}, Holds(s, o, v)
        PROVE  Nest(s)[o + 1][d] = Nest(s)[o + Len(v) + 1][d]
    <2>1. /\ o < Len(s) /\ SkipGap(s, o + 1) = SkipGap(s, o + Len(v) + 1)
          /\ o + Len(v) <= Len(s)
      BY <1>2, CommentIsSkipped DEF Holds
    <2>2. o + 1 \in 1..(Len(s) + 1) /\ o + Len(v) + 1 \in 1..(Len(s) + 1)
      BY <1>1, <2>1 DEF Texts
    <2>3. Nest(s)[o + 1][d] = Nest(s)[SkipGap(s, o + 1)][d]
      BY <2>2, NestSkips
    <2>4. Nest(s)[o + Len(v) + 1][d] = Nest(s)[SkipGap(s, o + Len(v) + 1)][d]
      BY <2>2, NestSkips
    <2> QED
      BY <2>1, <2>3, <2>4
  <1> QED
    BY <1>1, <1>2 DEF InnerTexts

\* What is between the brackets is gone over one level down, and the closing one ends it.
LEMMA BracketsMatch ==
    ASSUME NEW a \in Opening, NEW z \in Closing, NEW u \in InnerTexts
    PROVE  /\ InBrackets(a, u, z) \in Texts /\ Len(InBrackets(a, u, z)) = Len(u) + 2
           /\ InBrackets(a, u, z)[1] = a
           /\ \A s \in Texts, o, p \in Nat :
                 Holds(s, o, InBrackets(a, u, z)) /\ p = o + Len(u) + 2 =>
                    /\ o < Len(s) /\ s[o + 1] = a
                    /\ p <= Len(s) /\ s[p] = z
                    /\ \A d \in Nat : Nest(s)[o + 1][d] = Nest(s)[p][d + 1]
  <1>1. u \in Texts /\ Len(u) \in Nat
    BY DEF InnerTexts, Texts
  <1>2. a \in Characters
    BY SyntaxIsText
  <1>3. z \in Characters
    BY SyntaxIsText
  <1> DEFINE w == Ended(u, z)
             v == InBrackets(a, u, z)
  <1>4. w \in Texts /\ Len(w) = Len(u) + 1
    BY <1>1, <1>3, EndedIsText
  <1>5. v = Cons(a, w)
    BY DEF InBrackets
  <1> HIDE DEF v
  <1>6. v \in Texts /\ Len(v) = Len(u) + 2 /\ v[1] = a
    <2> HIDE DEF w
    <2>1. v \in Texts /\ Len(v) = Len(w) + 1 /\ v[1] = a
      BY <1>2, <1>4, <1>5, ConsIsText
    <2> QED
      BY <1>1, <1>4, <2>1
  <1>7. ASSUME NEW s \in Texts, NEW o \in Nat, NEW p \in Nat,
               Holds(s, o, v), p = o + Len(u) + 2
        PROVE  /\ o < Len(s) /\ s[o + 1] = a
               /\ p <= Len(s) /\ s[p] = z
               /\ \A d \in Nat : Nest(s)[o + 1][d] = Nest(s)[p][d + 1]
    <2>1. PICK q \in Nat : q = o + 1
      OBVIOUS
    <2>2. o < Len(s) /\ s[o + 1] = a /\ Holds(s, q, w)
      <3> HIDE DEF w
      <3> QED
        BY <1>2, <1>4, <1>5, <1>7, <2>1, HoldsFirst
    <2>3. Holds(s, q, u) /\ q + Len(u) < Len(s) /\ s[q + Len(u) + 1] = z
      BY <1>1, <1>3, <2>2, HoldsLast
    <2>4. q + Len(u) + 1 = p /\ q + Len(u) + 1 <= Len(s)
      BY <1>1, <1>7, <2>1, <2>3 DEF Texts
    <2>5. ASSUME NEW d \in Nat
          PROVE  Nest(s)[o + 1][d] = Nest(s)[q + Len(u) + 1][d + 1]
      <3>1. o + 1 \in 1..Len(s)
        BY <2>2 DEF Texts
      <3>2. Nest(s)[o + 1][d] = Nest(s)[q + 1][d + 1]
        BY <2>1, <2>2, <3>1, NestKinds
      <3>3. d + 1 \in Nat \ {0}
        OBVIOUS
      <3>4. Nest(s)[q + 1][d + 1] = Nest(s)[q + Len(u) + 1][d + 1]
        BY <2>3, <3>3 DEF InnerTexts
      <3> QED
        BY <3>2, <3>4
    <2> QED
      BY <2>2, <2>3, <2>4, <2>5
  <1> QED
    BY <1>6, <1>7 DEF v

LEMMA InnerBrackets ==
    ASSUME NEW a \in Opening, NEW z \in Closing, NEW u \in InnerTexts
    PROVE  InBrackets(a, u, z) \in InnerTexts
  <1> DEFINE v == InBrackets(a, u, z)
  <1>1. v \in Texts /\ Len(v) = Len(u) + 2 /\ Len(u) \in Nat
    BY BracketsMatch DEF InnerTexts, Texts
  <1>2. ASSUME NEW s \in Texts, NEW o \in Nat, NEW d \in Nat \ {0}, Holds(s, o, v)
        PROVE  Nest(s)[o + 1][d] = Nest(s)[o + Len(v) + 1][d]
    <2>1. PICK p \in Nat : p = o + Len(u) + 2
      BY <1>1
    <2>2. p <= Len(s) /\ s[p] = z /\ Nest(s)[o + 1][d] = Nest(s)[p][d + 1]
      <3>1. d \in Nat /\ Holds(s, o, InBrackets(a, u, z))
        BY <1>2
      <3> HIDE DEF v
      <3> QED
        BY <2>1, <3>1, BracketsMatch
    <2>3. p \in 1..Len(s) /\ d + 1 \in Nat /\ d + 1 > 1 /\ (d + 1) - 1 = d
      BY <1>1, <2>1, <2>2 DEF Texts
    <2>4. Nest(s)[p][d + 1] = Nest(s)[p + 1][d]
      <3>1. Nest(s)[p][d + 1] = Nest(s)[p + 1][(d + 1) - 1]
        BY <2>2, <2>3, NestKinds
      <3> QED
        BY <2>3, <3>1
    <2>5. p + 1 = o + Len(v) + 1
      BY <1>1, <2>1
    <2> QED
      BY <2>2, <2>4, <2>5
  <1> HIDE DEF v
  <1>3. v \in InnerTexts
    BY <1>1, <1>2 DEF InnerTexts
  <1> QED
    BY <1>3 DEF v

LEMMA ContentsAreGoneOver == Contents \subseteq InnerTexts
  <1>1. <<>> \in InnerTexts
    BY DEF InnerTexts, Texts
  <1>2. ASSUME NEW v \in Strings \cup Comments, NEW t \in InnerTexts
        PROVE  v \o t \in InnerTexts
    BY StringsAreQuoted, InnerString, InnerComment, InnerConcat
  <1>3. ASSUME NEW a \in Opening, NEW z \in Closing, NEW u \in InnerTexts, NEW t \in InnerTexts
        PROVE  InBrackets(a, u, z) \o t \in InnerTexts
    <2>1. InBrackets(a, u, z) \in InnerTexts
      BY InnerBrackets
    <2> QED
      BY <2>1, InnerConcat
  <1>4. MakesContents(InnerTexts)
    BY <1>1, <1>2, <1>3, InnerOneMore DEF MakesContents
  <1>5. InnerTexts \in SUBSET Texts
    BY DEF InnerTexts
  <1> QED
    BY <1>4, <1>5 DEF Contents

\* The containers, as _scan_container() sees them.
Bracketed == {InBrackets(a, t, z) : a \in Opening, t \in InnerTexts, z \in Closing}

LEMMA ContainersAreBracketed == Containers \subseteq Bracketed
  BY ContentsAreGoneOver DEF Containers, Bracketed

\* A container ends behind its closing bracket.
LEMMA ContainerIsScanned ==
    ASSUME NEW v \in Bracketed
    PROVE  /\ v \in Texts /\ Len(v) > 1 /\ v[1] \in Opening
           /\ \A s \in Texts, o \in Nat :
                 Holds(s, o, v) => ContainerEnd(s, o + 1) = o + Len(v) + 1
  <1>1. PICK a \in Opening, t \in InnerTexts, z \in Closing : v = InBrackets(a, t, z)
    BY DEF Bracketed
  <1>2. t \in Texts /\ Len(t) \in Nat
    BY DEF InnerTexts, Texts
  <1>3. v \in Texts /\ Len(v) = Len(t) + 2 /\ v[1] = a
    BY <1>1, <1>2, BracketsMatch
  <1>4. ASSUME NEW s \in Texts, NEW o \in Nat, Holds(s, o, v)
        PROVE  ContainerEnd(s, o + 1) = o + Len(v) + 1
    <2>1. PICK p \in Nat : p = o + Len(t) + 2
      BY <1>2
    <2>2. p <= Len(s) /\ s[p] = z /\ Nest(s)[o + 1][0] = Nest(s)[p][0 + 1]
      <3>1. Holds(s, o, InBrackets(a, t, z)) /\ 0 \in Nat
        BY <1>1, <1>4
      <3> QED
        BY <2>1, <3>1, BracketsMatch
    <2>3. p \in 1..Len(s) /\ 0 + 1 \in Nat /\ 0 + 1 <= 1
      BY <1>2, <2>1, <2>2 DEF Texts
    <2>4. Nest(s)[p][0 + 1] = p + 1
      BY <2>2, <2>3, NestKinds
    <2>5. ContainerEnd(s, o + 1) = Nest(s)[o + 1][0]
      BY ContainerEndStep
    <2>6. p + 1 = o + Len(v) + 1
      BY <1>2, <1>3, <2>1
    <2> QED
      BY <2>2, <2>4, <2>5, <2>6
  <1>5. Len(v) > 1
    BY <1>2, <1>3
  <1> QED
    BY <1>3, <1>4, <1>5

\* What may be behind a literal.
Stops(s, j) ==
    \/ j > Len(s)
    \/ s[j] \in {",", RightBrace, "]"} \cup White
    \/ StartsComment(s, j)

JsoncValues == Strings \cup Containers \cup Literals

ScannedValues == Quoted \cup Bracketed \cup Literals

LEMMA LiteralIsScanned ==
    ASSUME NEW s \in Texts, NEW o \in Nat, NEW v \in Literals, Holds(s, o, v),
           Stops(s, o + Len(v) + 1)
    PROVE  LiteralEnd(s, o + 1) = o + Len(v) + 1
  <1> DEFINE n == Len(s)
             i == o + 1
             e == o + Len(v) + 1
             stops == {j \in i..n : \/ s[j] \in {",", RightBrace, "]"} \cup White
                                    \/ StartsComment(s, j)}
  <1>1. n \in Nat /\ Len(v) \in Nat /\ i \in Nat \ {0} /\ e \in i..(n + 1) /\ i <= n + 1
    <2>1. v \in Texts
      BY DEF Literals
    <2>2. o + Len(v) <= Len(s)
      BY DEF Holds
    <2>3. Len(v) \in Nat /\ Len(s) \in Nat
      BY <2>1 DEF Texts
    <2> QED
      BY <2>2, <2>3
  <1>2. LiteralEnd(s, i) = Min(stops \cup {n + 1})
    BY DEF LiteralEnd, FirstAt
  <1>3. e \in stops \/ e = n + 1
    <2>1. e > n => e = n + 1
      BY <1>1
    <2>2. e <= n => e \in i..n
      BY <1>1
    <2>3. \/ e > n
          \/ s[e] \in {",", RightBrace, "]"} \cup White
          \/ StartsComment(s, e)
      BY DEF Stops
    <2>4. e > n \/ e <= n
      BY <1>1
    <2> HIDE DEF e, n, i
    <2> QED
      BY <2>1, <2>2, <2>3, <2>4
  <1>4. ASSUME NEW k \in i..(e - 1)
        PROVE  k \notin stops
    <2>1. k - o \in 1..Len(v) /\ o + (k - o) = k
      BY <1>1
    <2>2. s[o + (k - o)] = v[k - o]
      BY <2>1 DEF Holds
    <2>3. s[k] \notin White \cup Opening \cup Closing \cup {Quote, ",", ":", "/"}
      BY <2>1, <2>2 DEF Literals
    <2>4. RightBrace \in Closing /\ "]" \in Closing
      BY Distinct
    <2> QED
      BY <2>3, <2>4 DEF StartsComment
  <1>5. stops \in SUBSET (i..n)
    OBVIOUS
  <1>6. Min(stops \cup {n + 1}) = e
    <2> HIDE DEF stops, n, i, e
    <2> QED
      BY <1>1, <1>3, <1>4, <1>5, FirstIs
  <1> QED
    BY <1>2, <1>6

\* A value ends behind its last character, and it begins with one that is in no gap.
LEMMA ValueIsScanned ==
    ASSUME NEW v \in ScannedValues
    PROVE  /\ v \in Texts /\ Len(v) > 0
           /\ v[1] \notin White \cup Closing \cup {"/", ",", ":"}
           /\ \A s \in Texts, o \in Nat :
                 Holds(s, o, v) /\ Stops(s, o + Len(v) + 1)
                    => ValueEnd(s, o + 1) = o + Len(v) + 1
  <1>1. CASE v \in Quoted
    <2>1. v \in Texts /\ Len(v) > 1 /\ v[1] = Quote
      BY <1>1, StringIsScanned
    <2>2. ASSUME NEW s \in Texts, NEW o \in Nat, Holds(s, o, v)
          PROVE  ValueEnd(s, o + 1) = o + Len(v) + 1
      <3>1. s[o + 1] = Quote /\ StringEnd(s, o + 1) = o + Len(v) + 1
        BY <1>1, <2>2, StringIsScanned
      <3>2. s[o + 1] \notin Opening
        BY <3>1, Kinds
      <3> QED
        BY <3>1, <3>2 DEF ValueEnd
    <2>3. v[1] \notin White \cup Closing \cup {"/", ",", ":"}
      BY <2>1, Distinct
    <2>4. Len(v) > 0
      BY <2>1 DEF Texts
    <2> QED
      BY <2>1, <2>2, <2>3, <2>4
  <1>2. CASE v \in Bracketed
    <2>1. v \in Texts /\ Len(v) > 1 /\ v[1] \in Opening /\ Len(v) \in Nat
      BY <1>2, ContainerIsScanned DEF Texts
    <2>2. ASSUME NEW s \in Texts, NEW o \in Nat, Holds(s, o, v)
          PROVE  ValueEnd(s, o + 1) = o + Len(v) + 1
      <3>1. ContainerEnd(s, o + 1) = o + Len(v) + 1
        BY <1>2, <2>2, ContainerIsScanned
      <3>2. 1 \in 1..Len(v)
        BY <2>1
      <3>3. s[o + 1] = v[1]
        BY <2>2, <3>2 DEF Holds
      <3>4. s[o + 1] \in Opening /\ s[o + 1] # Quote
        BY <2>1, <3>3, Kinds
      <3> QED
        BY <3>1, <3>4 DEF ValueEnd
    <2>3. v[1] \notin White \cup Closing \cup {"/", ",", ":"}
      BY <2>1, Distinct
    <2>4. Len(v) > 0
      BY <2>1
    <2> QED
      BY <2>1, <2>2, <2>3, <2>4
  <1>3. CASE v \in Literals
    <2>1. v \in Texts /\ Len(v) > 0 /\ Len(v) \in Nat /\ 1 \in 1..Len(v)
      <3>1. v \in Seq(Characters) /\ v # <<>>
        BY <1>3 DEF Literals, Texts
      <3>2. Len(v) \in Nat /\ Len(v) # 0
        BY <3>1, EmptySeq
      <3> QED
        BY <3>1, <3>2 DEF Texts
    <2>2. v[1] \notin White \cup Opening \cup Closing \cup {Quote, ",", ":", "/"}
      BY <1>3, <2>1 DEF Literals
    <2>3. ASSUME NEW s \in Texts, NEW o \in Nat, Holds(s, o, v), Stops(s, o + Len(v) + 1)
          PROVE  ValueEnd(s, o + 1) = o + Len(v) + 1
      <3>1. LiteralEnd(s, o + 1) = o + Len(v) + 1
        BY <1>3, <2>3, LiteralIsScanned
      <3>2. s[o + 1] = v[1]
        BY <2>1, <2>3 DEF Holds
      <3>3. ValueEnd(s, o + 1) = Max({o + Len(v) + 1, (o + 1) + 1})
        BY <2>2, <3>1, <3>2 DEF ValueEnd
      <3>4. \A a, b \in Nat : a >= b => Max({a, b}) = a
        BY DEF Max
      <3>5. o + Len(v) + 1 \in Nat /\ (o + 1) + 1 \in Nat /\ o + Len(v) + 1 >= (o + 1) + 1
        BY <2>1
      <3> QED
        BY <3>3, <3>4, <3>5
    <2> QED
      BY <2>1, <2>2, <2>3
  <1> QED
    BY <1>1, <1>2, <1>3 DEF ScannedValues

\* Behind a gap, the scanner is at what is there.
LEMMA GapEnds ==
    ASSUME NEW s \in Texts, NEW o \in Nat, NEW g \in Gaps, Holds(s, o, g),
           NEW p \in Nat, p = o + Len(g) + 1, p <= Len(s), s[p] \notin White \cup {"/"}
    PROVE  SkipGap(s, o + 1) = p
  <1>1. g \in Texts /\ Len(g) \in Nat
    BY DEF Gaps, Texts
  <1>2. SkipGap(s, o + 1) = SkipGap(s, p)
    BY GapIsSkipped DEF SkippedTexts
  <1>3. p \in 1..(Len(s) + 1) /\ ~StartsComment(s, p)
    BY <1>1 DEF StartsComment, Texts
  <1> QED
    BY <1>2, <1>3, GapKinds

\* A gap, or what is behind it when there is none, stops a literal.
LEMMA GapStops ==
    ASSUME NEW s \in Texts, NEW o \in Nat, NEW g \in Gaps, Holds(s, o, g)
    PROVE  g # <<>> => Stops(s, o + 1)
  <1>1. g \in Texts /\ Len(g) \in Nat /\ g \in GapFronts
    BY GapBegins DEF Gaps, Texts
  <1>2. SUFFICES ASSUME g # <<>>
                 PROVE  Stops(s, o + 1)
    OBVIOUS
  <1>3. 1 \in 1..Len(g) /\ o + Len(g) <= Len(s)
    BY <1>1, <1>2 DEF Holds, Texts
  <1>4. s[o + 1] = g[1]
    BY <1>3 DEF Holds
  <1>5. CASE g[1] \in White
    BY <1>4, <1>5 DEF Stops
  <1>6. CASE StartsComment(g, 1)
    <2>1. 2 \in 1..Len(g) /\ 1 + 1 = 2 /\ (o + 1) + 1 = o + 2 /\ o + 1 < Len(s)
      BY <1>1, <1>3, <1>6 DEF StartsComment, Texts
    <2>2. s[o + 2] = g[2]
      BY <2>1 DEF Holds
    <2>3. StartsComment(s, o + 1)
      BY <1>4, <1>6, <2>1, <2>2 DEF StartsComment
    <2> QED
      BY <2>3 DEF Stops
  <1> QED
    BY <1>1, <1>2, <1>5, <1>6 DEF GapFronts

-----------------------------------------------------------------------------
(* Texts that are put together from a list of them.                        *)

Then(a, b) == a \o b

LEMMA ThenIsText ==
    /\ \A a, b \in Texts : Then(a, b) \in Texts
    /\ \A a \in Texts : Then(a, <<>>) = a /\ Then(<<>>, a) = a
    /\ \A a, b, c \in Texts : Then(Then(a, b), c) = Then(a, Then(b, c))
    /\ <<>> \in Texts
  BY ConcatEmptySeq, ConcatAssociative DEF Texts, Then

\* f[i]: the first i of them.
ArePartsTo(q, f, k) ==
    /\ f \in [0..k -> Texts]
    /\ f[0] = <<>>
    /\ \A i \in 1..k : f[i] = Then(f[i - 1], q[i])

IsParts(q, f) == ArePartsTo(q, f, Len(q))

Parts(q) == CHOOSE f : IsParts(q, f)

LEMMA PartsExist ==
    ASSUME NEW q \in Seq(Texts)
    PROVE  IsParts(q, Parts(q))
  <1> DEFINE n == Len(q)
             T == {k \in Nat : k <= n => \E f : ArePartsTo(q, f, k)}
  <1>0. n \in Nat
    OBVIOUS
  <1>1. 0 \in T
    <2> DEFINE f == [i \in 0..0 |-> <<>>]
    <2>1. f \in [0..0 -> Texts] /\ f[0] = <<>>
      BY ThenIsText
    <2>2. ArePartsTo(q, f, 0)
      <3> HIDE DEF f
      <3> QED
        BY <2>1 DEF ArePartsTo
    <2> HIDE DEF f
    <2> QED
      BY <2>2
  <1>2. ASSUME NEW k \in Nat, k \in T
        PROVE  k + 1 \in T
    <2> SUFFICES ASSUME k + 1 <= n
                 PROVE  \E f : ArePartsTo(q, f, k + 1)
      OBVIOUS
    <2>1. PICK f : ArePartsTo(q, f, k)
      BY <1>0, <1>2
    <2>90. f \in [0..k -> Texts] /\ f[0] = <<>> /\ \A i \in 1..k : f[i] = Then(f[i - 1], q[i])
      BY <2>1 DEF ArePartsTo
    <2> DEFINE w == Then(f[k], q[k + 1])
               h == [i \in 0..(k + 1) |-> IF i = k + 1 THEN w ELSE f[i]]
    <2>2. w \in Texts
      <3>1. f[k] \in Texts /\ q[k + 1] \in Texts
        BY <1>0, <2>90
      <3> QED
        BY <3>1, ThenIsText
    <2>3. h \in [0..(k + 1) -> Texts]
      <3> HIDE DEF w
      <3>1. \A i \in 0..(k + 1) : i # k + 1 => i \in 0..k
        OBVIOUS
      <3> QED
        BY <2>2, <2>90, <3>1
    <2>4. h[0] = <<>> /\ h[k + 1] = w /\ \A i \in 0..k : h[i] = f[i]
      <3> HIDE DEF w
      <3> QED
        BY <2>90
    <2> HIDE DEF h
    <2>5. ASSUME NEW i \in 1..(k + 1)
          PROVE  h[i] = Then(h[i - 1], q[i])
      <3>1. CASE i = k + 1
        <4>1. i - 1 = k /\ k \in 0..k
          BY <3>1
        <4> QED
          BY <2>4, <3>1, <4>1
      <3>2. CASE i \in 1..k
        <4>1. i \in 0..k /\ i - 1 \in 0..k
          BY <3>2
        <4> QED
          BY <2>4, <2>90, <3>2, <4>1
      <3> QED
        BY <3>1, <3>2
    <2>6. ArePartsTo(q, h, k + 1)
      BY <2>3, <2>4, <2>5 DEF ArePartsTo
    <2> QED
      BY <2>6
  <1>3. n \in T
    <2> HIDE DEF T
    <2> QED
      BY <1>0, <1>1, <1>2, NatSetInduction
  <1>4. \E f : ArePartsTo(q, f, n)
    BY <1>0, <1>3
  <1> QED
    BY <1>4 DEF Parts, IsParts

LEMMA PartsAre ==
    ASSUME NEW q \in Seq(Texts)
    PROVE  /\ Len(q) \in Nat
           /\ \A i \in 0..Len(q) : Parts(q)[i] \in Texts
           /\ Parts(q)[0] = <<>>
           /\ \A i \in 1..Len(q) : Parts(q)[i] = Then(Parts(q)[i - 1], q[i])
           /\ \A i \in 1..Len(q) : q[i] \in Texts
  <1>1. ArePartsTo(q, Parts(q), Len(q))
    BY PartsExist DEF IsParts
  <1>2. Len(q) \in Nat /\ \A i \in 1..Len(q) : q[i] \in Texts
    OBVIOUS
  <1> QED
    BY <1>1, <1>2 DEF ArePartsTo

\* Induction along a list.
LEMMA Along ==
    ASSUME NEW n \in Nat, NEW T, 0 \in T, \A i \in 1..n : i - 1 \in T => i \in T
    PROVE  0..n \subseteq T
  <1> DEFINE U == {k \in Nat : k <= n => k \in T}
  <1>1. 0 \in U
    OBVIOUS
  <1>2. ASSUME NEW k \in Nat, k \in U
        PROVE  k + 1 \in U
    <2>1. k + 1 <= n => k + 1 \in 1..n /\ (k + 1) - 1 = k /\ k <= n
      OBVIOUS
    <2> QED
      BY <1>2, <2>1
  <1>3. Nat \subseteq U
    <2> HIDE DEF U
    <2> QED
      BY <1>1, <1>2, NatSetInduction
  <1> QED
    BY <1>3

LEMMA FlattenIsParts ==
    ASSUME NEW q \in Seq(Texts)
    PROVE  FlattenSeq(q) = Parts(q)[Len(q)] /\ FlattenSeq(q) \in Texts
  <1> DEFINE n == Len(q)
             f == Parts(q)
             Is(g) == g = [i \in 1..n |-> IF i = 1 THEN q[i] ELSE Then(g[i - 1], q[i])]
             g == [i \in 1..n |-> f[i]]
             h == CHOOSE h : Is(h)
  <1>1. /\ n \in Nat
        /\ \A i \in 0..n : f[i] \in Texts
        /\ f[0] = <<>>
        /\ \A i \in 1..n : f[i] = Then(f[i - 1], q[i])
        /\ \A i \in 1..n : q[i] \in Texts
    BY PartsAre
  <1> HIDE DEF f, n
  <1>2. ASSUME NEW i \in 1..n
        PROVE  /\ i = 1 => f[i] = q[i]
               /\ i # 1 => i - 1 \in 1..n /\ f[i] = Then(f[i - 1], q[i])
    <2>2. Then(<<>>, q[i]) = q[i]
      BY <1>1, ThenIsText
    <2>3. i = 1 => i - 1 = 0
      OBVIOUS
    <2>4. i # 1 => i - 1 \in 1..n
      BY <1>1
    <2> QED
      BY <1>1, <2>2, <2>3, <2>4
  <1>3. \A i \in 1..n : g[i] = f[i]
    OBVIOUS
  <1>4. Is(g)
    <2>1. \A i \in 1..n : f[i] = IF i = 1 THEN q[i] ELSE Then(g[i - 1], q[i])
      <3> HIDE DEF g
      <3> QED
        BY <1>2, <1>3
    <2> QED
      BY <2>1
  <1>5. Is(h)
    BY <1>4
  <1> HIDE DEF h
  <1>6. \A i \in 1..n : h[i] = IF i = 1 THEN q[i] ELSE Then(h[i - 1], q[i])
    BY <1>5
  <1> DEFINE T == {i \in 0..n : i # 0 => h[i] = f[i]}
  <1>7. 0 \in T
    BY <1>1
  <1>8. ASSUME NEW i \in 1..n, i - 1 \in T
        PROVE  i \in T
    <2>1. i # 1 => h[i - 1] = f[i - 1]
      BY <1>8
    <2>2. h[i] = f[i]
      BY <1>2, <1>6, <2>1
    <2> QED
      BY <1>1, <2>2
  <1>9. 0..n \subseteq T
    <2> HIDE DEF T
    <2> QED
      BY <1>1, <1>7, <1>8, Along
  <1>10. n # 0 => h[n] = f[n]
    BY <1>1, <1>9
  <1>11. n # 0 => FlattenSeq(q) = h[n]
    BY DEF FlattenSeq, h, n, Then
  <1>12. n = 0 => FlattenSeq(q) = <<>>
    <2>1. n = 0 => q = <<>>
      BY EmptySeq DEF n
    <2> QED
      BY <2>1 DEF FlattenSeq, n
  <1>13. FlattenSeq(q) = f[n]
    BY <1>1, <1>10, <1>11, <1>12
  <1>14. f[n] \in Texts
    BY <1>1
  <1> QED
    BY <1>13, <1>14 DEF f, n

\* A class of texts that is closed under concatenation holds what is put together.
LEMMA FlattenStaysIn ==
    ASSUME NEW C \in SUBSET Texts, <<>> \in C, \A u, v \in C : u \o v \in C,
           NEW q \in Seq(C)
    PROVE  FlattenSeq(q) \in C
  <1> DEFINE n == Len(q)
             f == Parts(q)
             T == {i \in 0..n : f[i] \in C}
  <1>1. q \in Seq(Texts) /\ n \in Nat /\ \A i \in 1..n : q[i] \in C
    OBVIOUS
  <1>2. f[0] = <<>> /\ \A i \in 1..n : f[i] = Then(f[i - 1], q[i])
    BY <1>1, PartsAre
  <1>90. \A u, v \in C : Then(u, v) \in C
    BY DEF Then
  <1> HIDE DEF f, n
  <1>3. 0 \in T
    BY <1>1, <1>2
  <1>4. ASSUME NEW i \in 1..n, i - 1 \in T
        PROVE  i \in T
    <2>1. q[i] \in C /\ f[i - 1] \in C /\ f[i] = Then(f[i - 1], q[i])
      BY <1>1, <1>2, <1>4
    <2>2. f[i] \in C
      BY <1>90, <2>1
    <2> QED
      BY <1>1, <2>2
  <1>5. 0..n \subseteq T
    <2> HIDE DEF T
    <2> QED
      BY <1>1, <1>3, <1>4, Along
  <1>6. f[n] \in C
    BY <1>1, <1>5
  <1> QED
    BY <1>1, <1>6, FlattenIsParts DEF f, n

\* Of the lists that differ in their k-th text only, the texts do so too.
LEMMA FlattenReplaces ==
    ASSUME NEW q \in Seq(Texts), NEW k \in 1..Len(q)
    PROVE  \E b \in Texts : \A v \in Texts :
              FlattenSeq([q EXCEPT ![k] = v]) = Then(Then(Parts(q)[k - 1], v), b)
  <1> DEFINE n == Len(q)
             with(v) == [q EXCEPT ![k] = v]
             f == Parts(q)
             fs(v) == Parts(with(v))
             a == f[k - 1]
             T == {i \in 0..n : i < k => \A v \in Texts : fs(v)[i] = f[i]}
             Ends(b, i) == \A v \in Texts : fs(v)[i] = Then(Then(a, v), b)
             U == {i \in 0..n : i >= k => \E b \in Texts : Ends(b, i)}
  <1>1. n \in Nat /\ k \in Nat /\ k - 1 \in 0..n /\ k \in 1..n
    OBVIOUS
  <1>2. ASSUME NEW v \in Texts
        PROVE  /\ with(v) \in Seq(Texts) /\ Len(with(v)) = n /\ with(v)[k] = v
               /\ \A i \in 1..n : i # k => with(v)[i] = q[i]
    OBVIOUS
  <1>5. /\ \A i \in 0..n : f[i] \in Texts
        /\ f[0] = <<>> /\ \A i \in 1..n : f[i] = Then(f[i - 1], q[i])
        /\ \A i \in 1..n : q[i] \in Texts
    BY PartsAre
  <1>6. ASSUME NEW v \in Texts
        PROVE  /\ fs(v)[0] = <<>>
               /\ \A i \in 1..n : i # k => fs(v)[i] = Then(fs(v)[i - 1], q[i])
               /\ fs(v)[k] = Then(fs(v)[k - 1], v)
    <2> HIDE DEF with, n
    <2>1. /\ fs(v)[0] = <<>>
          /\ \A i \in 1..n : fs(v)[i] = Then(fs(v)[i - 1], with(v)[i])
      BY <1>2, PartsAre
    <2> HIDE DEF fs
    <2> QED
      BY <1>1, <1>2, <2>1
  <1> HIDE DEF f, with, fs, n
  <1>7. 0 \in T
    BY <1>1, <1>5, <1>6
  <1>8. ASSUME NEW i \in 1..n, i - 1 \in T
        PROVE  i \in T
    <2>1. ASSUME i < k, NEW v \in Texts
          PROVE  fs(v)[i] = f[i]
      <3>1. i # k /\ i - 1 < k
        BY <1>1, <2>1
      <3>2. fs(v)[i - 1] = f[i - 1]
        BY <1>8, <3>1
      <3> QED
        BY <1>5, <1>6, <3>1, <3>2
    <2> QED
      BY <1>1, <2>1
  <1>9. 0..n \subseteq T
    <2> HIDE DEF T
    <2> QED
      BY <1>1, <1>7, <1>8, Along
  <1>3. a \in Texts
    BY <1>1, <1>5
  <1>10. \A v \in Texts : fs(v)[k] = Then(a, v)
    <2>1. k - 1 < k
      BY <1>1
    <2>2. \A v \in Texts : fs(v)[k - 1] = f[k - 1]
      BY <1>1, <1>9, <2>1
    <2> QED
      BY <1>6, <2>2
  <1> HIDE DEF a
  <1>11. 0 \in U
    BY <1>1
  <1>12. ASSUME NEW i \in 1..n, i - 1 \in U
         PROVE  i \in U
    <2>1. CASE i < k
      BY <1>1, <2>1
    <2>2. CASE i = k
      <3>1. \A v \in Texts : Then(a, v) \in Texts
        BY <1>3, ThenIsText
      <3>2. Ends(<<>>, i)
        BY <1>10, <2>2, <3>1, ThenIsText
      <3>3. <<>> \in Texts
        BY ThenIsText
      <3> HIDE DEF Ends
      <3> QED
        BY <1>1, <3>2, <3>3
    <2>3. CASE i > k
      <3>1. i - 1 >= k /\ i # k
        BY <1>1, <2>3
      <3>2. PICK b \in Texts : Ends(b, i - 1)
        <4> HIDE DEF Ends
        <4> QED
          BY <1>12, <3>1
      <3>3. q[i] \in Texts
        BY <1>5
      <3>4. Then(b, q[i]) \in Texts
        BY <3>3, ThenIsText
      <3>5. ASSUME NEW v \in Texts
            PROVE  fs(v)[i] = Then(Then(a, v), Then(b, q[i]))
        <4>1. fs(v)[i] = Then(Then(Then(a, v), b), q[i])
          BY <1>6, <3>1, <3>2
        <4>2. Then(a, v) \in Texts
          BY <1>3, ThenIsText
        <4> QED
          BY <3>3, <4>1, <4>2, ThenIsText, ZenonT(60)
      <3>6. Ends(Then(b, q[i]), i)
        BY <3>5
      <3> HIDE DEF Ends
      <3> QED
        BY <1>1, <3>4, <3>6
    <2> QED
      BY <1>1, <2>1, <2>2, <2>3
  <1>13. 0..n \subseteq U
    <2> HIDE DEF U
    <2> QED
      BY <1>1, <1>11, <1>12, Along
  <1>14. PICK b \in Texts : Ends(b, n)
    <2> HIDE DEF Ends
    <2>1. n \in U /\ n >= k
      BY <1>1, <1>13
    <2> QED
      BY <2>1
  <1>15. \A v \in Texts : FlattenSeq(with(v)) = fs(v)[n]
    BY <1>2, FlattenIsParts DEF fs
  <1>16. \A v \in Texts : FlattenSeq(with(v)) = Then(Then(a, v), b)
    BY <1>14, <1>15
  <1> QED
    BY <1>16 DEF a, f, with

\* A list with one text in front, and x in front of what was the first.
LEMMA FlattenInserts ==
    ASSUME NEW q \in Seq(Texts), NEW r \in Seq(Texts), NEW x \in Texts,
           Len(q) # 0, Len(r) = Len(q) + 1, r[2] = Then(x, q[1]),
           \A k \in 2..Len(q) : r[k + 1] = q[k]
    PROVE  FlattenSeq(r) = Then(Then(r[1], x), FlattenSeq(q))
  <1> DEFINE n == Len(q)
             f == Parts(q)
             g == Parts(r)
             y == Then(r[1], x)
             T == {i \in 0..n : i # 0 => g[i + 1] = Then(y, f[i])}
  <1>1. /\ n \in Nat /\ n # 0 /\ Len(r) = n + 1
        /\ \A i \in 0..n : f[i] \in Texts
        /\ f[0] = <<>> /\ \A i \in 1..n : f[i] = Then(f[i - 1], q[i])
        /\ \A i \in 1..n : q[i] \in Texts
    BY PartsAre
  <1>2. /\ g[0] = <<>> /\ \A i \in 1..(n + 1) : g[i] = Then(g[i - 1], r[i])
        /\ \A i \in 1..(n + 1) : r[i] \in Texts
    BY PartsAre
  <1>3. y \in Texts /\ r[1] \in Texts
    <2>1. r[1] \in Texts
      BY <1>1, <1>2
    <2> QED
      BY <2>1, ThenIsText
  <1>4. \A k \in 2..n : r[k + 1] = q[k]
    OBVIOUS
  <1> HIDE DEF f, g, n
  <1>5. 0 \in T
    BY <1>1
  <1>6. ASSUME NEW i \in 1..n, i - 1 \in T
        PROVE  i \in T
    <2>1. CASE i = 1
      <3>1. 1 \in 1..(n + 1) /\ 2 \in 1..(n + 1) /\ 1 - 1 = 0 /\ 2 - 1 = 1 /\ 1 \in 1..n
        BY <1>1
      <3>2. g[1] = Then(g[0], r[1]) /\ g[2] = Then(g[1], r[2]) /\ f[1] = Then(f[0], q[1])
        BY <1>1, <1>2, <3>1
      <3>3. g[1] = r[1] /\ f[1] = q[1] /\ q[1] \in Texts
        BY <1>1, <1>2, <1>3, <3>1, <3>2, ThenIsText
      <3>4. g[2] = Then(r[1], Then(x, q[1]))
        BY <3>2, <3>3
      <3>8. r[1] \in Texts /\ x \in Texts /\ q[1] \in Texts
        BY <1>3, <3>3
      <3>7. Then(Then(r[1], x), q[1]) = Then(r[1], Then(x, q[1]))
        BY <3>8, ThenIsText, ZenonT(60)
      <3>5. g[2] = Then(y, f[1])
        BY <3>3, <3>4, <3>7
      <3>6. i + 1 = 2
        BY <2>1
      <3> HIDE DEF y
      <3> QED
        BY <2>1, <3>5, <3>6, <1>1
    <2>2. CASE i # 1
      <3>1. i + 1 \in 1..(n + 1) /\ (i + 1) - 1 = i /\ (i - 1) + 1 = i /\ i \in 2..n
            /\ i - 1 \in 0..n /\ i - 1 # 0
        BY <1>1, <2>2
      <3>2. g[i + 1] = Then(g[i], q[i])
        BY <1>2, <1>4, <3>1
      <3> HIDE DEF y
      <3>3. g[i] = Then(y, f[i - 1])
        BY <1>6, <3>1
      <3>4. f[i] = Then(f[i - 1], q[i]) /\ f[i - 1] \in Texts /\ q[i] \in Texts
        BY <1>1, <3>1
      <3>6. Then(Then(y, f[i - 1]), q[i]) = Then(y, Then(f[i - 1], q[i]))
        BY <1>3, <3>4, ThenIsText, ZenonT(60)
      <3>5. g[i + 1] = Then(y, f[i])
        BY <3>2, <3>3, <3>4, <3>6
      <3> QED
        BY <1>1, <3>5
    <2> QED
      BY <2>1, <2>2
  <1>7. 0..n \subseteq T
    <2> HIDE DEF T
    <2> QED
      BY <1>1, <1>5, <1>6, Along
  <1>8. g[n + 1] = Then(y, f[n])
    BY <1>1, <1>7
  <1>9. FlattenSeq(r) = g[n + 1] /\ FlattenSeq(q) = f[n]
    BY FlattenIsParts DEF f, g, n
  <1> QED
    BY <1>8, <1>9

LEMMA FlattenSingle ==
    ASSUME NEW q \in Seq(Texts), Len(q) = 1
    PROVE  FlattenSeq(q) = q[1]
  <1>1. 1 \in 1..Len(q) /\ 1 - 1 = 0
    OBVIOUS
  <1>2. Parts(q)[1] = Then(Parts(q)[0], q[1]) /\ Parts(q)[0] = <<>> /\ q[1] \in Texts
    BY <1>1, PartsAre
  <1>3. Parts(q)[1] = q[1]
    BY <1>2, ThenIsText
  <1> QED
    BY <1>3, FlattenIsParts

LEMMA Pairs ==
    /\ \A a, b : <<a, b>> = Then(<<a>>, <<b>>)
    /\ \A a, b, c : <<a, b, c>> = Then(<<a>>, Then(<<b>>, <<c>>))
  <1>1. ASSUME NEW a, NEW b
        PROVE  <<a, b>> = Then(<<a>>, <<b>>)
    <2> DEFINE v == <<a>> \o <<b>>
               w == <<a, b>>
    <2>1. v \in Seq({a, b}) /\ Len(v) = 2 /\ v[1] = a /\ v[2] = b
      OBVIOUS
    <2>2. w \in Seq({a, b}) /\ Len(w) = 2 /\ w[1] = a /\ w[2] = b
      OBVIOUS
    <2>3. v = w
      <3> HIDE DEF v, w
      <3>1. \A i \in 1..2 : v[i] = w[i]
        BY <2>1, <2>2
      <3> QED
        BY <2>1, <2>2, <3>1, SeqEqual
    <2> QED
      BY <2>3 DEF Then
  <1>2. ASSUME NEW a, NEW b, NEW c
        PROVE  <<a, b, c>> = Then(<<a>>, Then(<<b>>, <<c>>))
    <2>1. <<a, b, c>> = <<a>> \o <<b, c>>
      OBVIOUS
    <2>2. <<b, c>> = Then(<<b>>, <<c>>)
      BY <1>1
    <2>3. <<a, b, c>> = Then(<<a>>, <<b, c>>)
      BY <2>1 DEF Then
    <2> QED
      BY <2>2, <2>3
  <1> QED
    BY <1>1, <1>2

\* The ways to put a text together, as one.
LEMMA IsThen ==
    /\ \A a, b : a \o b = Then(a, b)
    /\ \A c, v : Cons(c, v) = Then(<<c>>, v)
    /\ \A c, v : Ended(v, c) = Then(v, <<c>>)
    /\ \A c \in Characters : <<c>> \in Texts
  BY DEF Then, Cons, Ended, Texts

-----------------------------------------------------------------------------
(* What rewrite.py writes is JSON.                                         *)

LEMMA UnquotedConcat ==
    ASSUME NEW v \in UnquotedTexts, NEW t \in UnquotedTexts
    PROVE  v \o t \in UnquotedTexts
  <1>1. v \in Texts /\ t \in Texts
    BY DEF UnquotedTexts
  <1>2. v \o t \in Texts /\ Len(v \o t) = Len(v) + Len(t) /\ Len(v) \in Nat /\ Len(t) \in Nat
    BY <1>1 DEF Texts
  <1>3. ASSUME NEW s \in Texts, NEW o \in Nat, Holds(s, o, v \o t)
        PROVE  StringEnd(s, o) = StringEnd(s, o + Len(v \o t))
    <2>1. Holds(s, o, v) /\ Holds(s, o + Len(v), t)
      BY <1>1, <1>3, HoldsConcat
    <2>2. StringEnd(s, o) = StringEnd(s, o + Len(v))
      BY <2>1 DEF UnquotedTexts
    <2>3. PICK p \in Nat : p = o + Len(v)
      BY <1>2
    <2>4. StringEnd(s, p) = StringEnd(s, p + Len(t))
      BY <2>1, <2>3 DEF UnquotedTexts
    <2>5. p + Len(t) = o + Len(v \o t)
      BY <1>2, <2>3
    <2> QED
      BY <2>2, <2>3, <2>4, <2>5
  <1> QED
    BY <1>2, <1>3 DEF UnquotedTexts

LEMMA UnquotedOnes ==
    /\ <<>> \in UnquotedTexts
    /\ \A c \in Characters \ {Quote, Escape} : <<c>> \in UnquotedTexts
    /\ \A c \in Characters : <<Escape, c>> \in UnquotedTexts
  <1>1. <<>> \in Bodies
    BY ThenIsText DEF Bodies, MakesBodies
  <1>2. ASSUME NEW c \in Characters \ {Quote, Escape}
        PROVE  Cons(c, <<>>) \in Bodies
    <2>1. Cons(c, <<>>) \in Texts
      BY ThenIsText, IsThen
    <2> QED
      BY <2>1 DEF Bodies, MakesBodies
  <1>3. ASSUME NEW c \in Characters
        PROVE  Cons(Escape, Cons(c, <<>>)) \in Bodies
    <2>1. Cons(c, <<>>) \in Texts
      BY ThenIsText, IsThen
    <2>2. Cons(Escape, Cons(c, <<>>)) \in Texts
      BY <2>1, SyntaxIsText, ConsIsText
    <2> QED
      BY <2>2 DEF Bodies, MakesBodies
  <1>4. \A c \in Characters : /\ Cons(c, <<>>) = <<c>>
                              /\ Cons(Escape, Cons(c, <<>>)) = <<Escape, c>>
    <2> SUFFICES ASSUME NEW c \in Characters
                 PROVE  /\ Cons(c, <<>>) = <<c>>
                        /\ Cons(Escape, Cons(c, <<>>)) = <<Escape, c>>
      OBVIOUS
    <2>1. Cons(c, <<>>) = <<c>>
      BY ThenIsText, IsThen
    <2>2. Cons(Escape, <<c>>) = Then(<<Escape>>, <<c>>)
      BY IsThen
    <2> QED
      BY <2>1, <2>2, Pairs
  <1>5. \A c \in Characters \ {Quote, Escape} : <<c>> \in UnquotedTexts
    BY <1>2, <1>4, BodyIsScanned
  <1>6. \A c \in Characters : <<Escape, c>> \in UnquotedTexts
    BY <1>3, <1>4, BodyIsScanned
  <1> QED
    BY <1>1, <1>5, <1>6, BodyIsScanned

LEMMA InQuotesIs ==
    ASSUME NEW b \in UnquotedTexts
    PROVE  /\ InQuotes(b) \in Quoted
           /\ InQuotes(b) = Then(<<Quote>>, Then(b, <<Quote>>))
           /\ InQuotes(b) = Then(Then(<<Quote>>, b), <<Quote>>)
  <1>1. InQuotes(b) \in Quoted
    BY DEF Quoted
  <1>2. InQuotes(b) = Then(<<Quote>>, Then(b, <<Quote>>))
    BY IsThen DEF InQuotes
  <1>3. b \in Texts
    BY DEF UnquotedTexts
  <1>4. <<Quote>> \in Texts
    BY IsThen, SyntaxIsText
  <1> QED
    BY <1>1, <1>2, <1>3, <1>4, ThenIsText

LEMMA DumpsIsQuoted ==
    ASSUME NEW path \in Texts
    PROVE  Dumps(path) \in Quoted
  <1> DEFINE q == [i \in DOMAIN path |->
                      IF path[i] \in {Quote, Escape} THEN <<Escape, path[i]>> ELSE <<path[i]>>]
  <1>1. Len(path) \in Nat /\ DOMAIN path = 1..Len(path)
        /\ \A i \in 1..Len(path) : path[i] \in Characters
    BY DEF Texts
  <1>2. \A i \in 1..Len(path) : q[i] \in UnquotedTexts
    BY <1>1, UnquotedOnes
  <1>3. q \in Seq(UnquotedTexts)
    <2>1. q = [i \in 1..Len(path) |-> q[i]]
      BY <1>1
    <2> HIDE DEF q
    <2> QED
      BY <1>1, <1>2, <2>1
  <1>4. FlattenSeq(q) \in UnquotedTexts
    <2>1. UnquotedTexts \in SUBSET Texts
      BY DEF UnquotedTexts
    <2> HIDE DEF q
    <2> QED
      BY <1>3, <2>1, UnquotedConcat, UnquotedOnes, FlattenStaysIn
  <1>5. Dumps(path) = Then(Then(<<Quote>>, FlattenSeq(q)), <<Quote>>)
    BY IsThen DEF Dumps
  <1> QED
    BY <1>4, <1>5, InQuotesIs

LEMMA KeysAreQuoted ==
    FoldersKey \in Quoted /\ PathKey \in Quoted
  <1>1. ASSUME NEW c \in Characters \ {Quote, Escape}
        PROVE  <<Quote, c, Quote>> \in Quoted
    <2>1. <<Quote, c, Quote>> = Then(<<Quote>>, Then(<<c>>, <<Quote>>))
      BY Pairs
    <2>2. <<c>> \in UnquotedTexts
      BY UnquotedOnes
    <2> QED
      BY <2>1, <2>2, InQuotesIs
  <1>2. "F" \in Characters \ {Quote, Escape}
    BY SyntaxIsText, Distinct
  <1>3. "P" \in Characters \ {Quote, Escape}
    BY SyntaxIsText, Distinct
  <1> QED
    BY <1>1, <1>2, <1>3 DEF FoldersKey, PathKey

LEMMA InnerOnes ==
    /\ <<>> \in InnerTexts
    /\ \A c \in Characters \ (Opening \cup Closing \cup {Quote, "/"}) : <<c>> \in InnerTexts
    /\ \A u, v \in InnerTexts : Then(u, v) \in InnerTexts
    /\ InnerTexts \subseteq Texts
  <1>1. <<>> \in InnerTexts
    BY DEF InnerTexts, Texts
  <1>2. ASSUME NEW c \in Characters \ (Opening \cup Closing \cup {Quote, "/"})
        PROVE  <<c>> \in InnerTexts
    <2>1. Cons(c, <<>>) \in InnerTexts
      BY <1>1, InnerOneMore
    <2>2. Cons(c, <<>>) = <<c>>
      BY ThenIsText, IsThen
    <2> QED
      BY <2>1, <2>2
  <1>3. \A u, v \in InnerTexts : Then(u, v) \in InnerTexts
    BY InnerConcat, IsThen
  <1> QED
    BY <1>1, <1>2, <1>3 DEF InnerTexts

LEMMA InBracketsIs ==
    ASSUME NEW a \in Opening, NEW z \in Closing, NEW t \in InnerTexts
    PROVE  /\ InBrackets(a, t, z) \in Bracketed /\ InBrackets(a, t, z) \in InnerTexts
           /\ InBrackets(a, t, z) = Then(<<a>>, Then(t, <<z>>))
  BY InnerBrackets, IsThen DEF Bracketed, InBrackets

LEMMA RenderEntryIsInner ==
    ASSUME NEW path \in Texts
    PROVE  RenderEntry(path) \in InnerTexts
  <1> DEFINE A == <<LeftBrace>>
             B == <<Space>>
             C == <<":", Space>>
             D == Dumps(path)
             E == <<RightBrace>>
             K == PathKey
             u1 == Then(B, K)
             u2 == Then(u1, C)
             u3 == Then(u2, D)
             u == Then(u3, B)
  <1>1. RenderEntry(path) = Then(Then(Then(Then(Then(A, B), K), C), D), Then(B, E))
    <2>1. <<LeftBrace, Space>> = Then(A, B) /\ <<Space, RightBrace>> = Then(B, E)
      BY Pairs
    <2> HIDE DEF A, B, C, E
    <2> QED
      BY <2>1, IsThen DEF RenderEntry, C
  <1>2. A \in Texts /\ B \in InnerTexts /\ C \in InnerTexts /\ D \in InnerTexts /\ E \in Texts
        /\ K \in InnerTexts
    <2>1. A \in Texts
      BY IsThen, SyntaxIsText
    <2>2. E \in Texts
      BY IsThen, SyntaxIsText
    <2>3. B \in InnerTexts
      <3>1. Space \in Characters
        BY SyntaxIsText
      <3>2. Space \notin Opening \cup Closing \cup {Quote, "/"}
        BY Distinct
      <3> QED
        BY <3>1, <3>2, InnerOnes
    <2>4. <<":">> \in InnerTexts
      <3>1. ":" \in Characters
        BY SyntaxIsText
      <3>2. ":" \notin Opening \cup Closing \cup {Quote, "/"}
        BY Distinct
      <3> QED
        BY <3>1, <3>2, InnerOnes
    <2>5. C \in InnerTexts
      <3>1. C = Then(<<":">>, B)
        BY Pairs
      <3> HIDE DEF B, C
      <3> QED
        BY <2>3, <2>4, <3>1, InnerOnes
    <2>6. D \in InnerTexts /\ K \in InnerTexts
      BY DumpsIsQuoted, KeysAreQuoted, InnerString
    <2> QED
      BY <2>1, <2>2, <2>3, <2>5, <2>6
  <1> HIDE DEF A, B, C, D, E, K
  <1>3. u1 \in InnerTexts /\ u2 \in InnerTexts /\ u3 \in InnerTexts /\ u \in InnerTexts
    <2>1. u1 \in InnerTexts
      BY <1>2, InnerOnes
    <2> HIDE DEF u1
    <2>2. u2 \in InnerTexts
      BY <1>2, <2>1, InnerOnes
    <2> HIDE DEF u2
    <2>3. u3 \in InnerTexts
      BY <1>2, <2>2, InnerOnes
    <2> HIDE DEF u3
    <2>4. u \in InnerTexts
      BY <1>2, <2>3, InnerOnes
    <2> QED
      BY <2>1, <2>2, <2>3, <2>4
  <1>4. /\ A \in Texts /\ B \in Texts /\ C \in Texts /\ D \in Texts /\ E \in Texts
        /\ K \in Texts /\ u1 \in Texts /\ u2 \in Texts /\ u3 \in Texts
    BY <1>2, <1>3, InnerOnes
  <1>5. RenderEntry(path) = Then(A, Then(u, E))
    <2>1. Then(Then(A, B), K) = Then(A, u1)
      BY <1>4, ThenIsText
    <2>2. Then(Then(A, u1), C) = Then(A, u2)
      <3> HIDE DEF u1
      <3> QED
        BY <1>4, ThenIsText
    <2>3. Then(Then(A, u2), D) = Then(A, u3)
      <3> HIDE DEF u2
      <3> QED
        BY <1>4, ThenIsText
    <2>4. Then(Then(A, u3), Then(B, E)) = Then(A, Then(u, E))
      <3> HIDE DEF u3
      <3>1. Then(B, E) \in Texts
        BY <1>4, ThenIsText
      <3>2. Then(u3, Then(B, E)) = Then(u, E)
        BY <1>4, ThenIsText
      <3> QED
        BY <1>4, <3>1, <3>2, ThenIsText
    <2> HIDE DEF u1, u2, u3, u
    <2> QED
      BY <1>1, <2>1, <2>2, <2>3, <2>4
  <1>6. LeftBrace \in Opening /\ RightBrace \in Closing
    BY Distinct
  <1>7. InBrackets(LeftBrace, u, RightBrace) = Then(A, Then(u, E))
        /\ InBrackets(LeftBrace, u, RightBrace) \in InnerTexts
    <2> HIDE DEF u
    <2> QED
      BY <1>3, <1>6, InBracketsIs DEF A, E
  <1> QED
    BY <1>5, <1>7

LEMMA RenderFoldersIsBracketed ==
    ASSUME NEW list \in Seq(Texts)
    PROVE  RenderFolders(list) \in Bracketed
  <1> DEFINE A == <<"[">>
             N == <<Newline>>
             Z == <<"]">>
             q == [i \in DOMAIN list |->
                      <<Newline>> \o RenderEntry(list[i])
                      \o (IF i < Len(list) THEN <<",">> ELSE <<>>)]
             F == FlattenSeq(q)
  <1>1. "[" \in Opening /\ "]" \in Closing
    BY Distinct
  <1>2. "[" \in Characters
    BY SyntaxIsText
  <1>3. "]" \in Characters
    BY SyntaxIsText
  <1>4. A \in Texts /\ Z \in Texts
    BY <1>2, <1>3, IsThen
  <1>5. N \in InnerTexts
    <2>1. Newline \in Characters
      BY SyntaxIsText
    <2>2. Newline \notin Opening \cup Closing \cup {Quote, "/"}
      BY Distinct
    <2> QED
      BY <2>1, <2>2, InnerOnes
  <1>6. <<",">> \in InnerTexts
    <2>1. "," \in Characters
      BY SyntaxIsText
    <2>2. "," \notin Opening \cup Closing \cup {Quote, "/"}
      BY Distinct
    <2> QED
      BY <2>1, <2>2, InnerOnes
  <1>7. CASE list = <<>>
    <2>1. RenderFolders(list) = Then(A, Z)
      BY <1>7, Pairs DEF RenderFolders
    <2>2. Then(<<>>, Z) = Z
      BY <1>4, ThenIsText
    <2>3. RenderFolders(list) = InBrackets("[", <<>>, "]")
      <3>1. InBrackets("[", <<>>, "]") = Then(A, Then(<<>>, Z))
        BY <1>1, InnerOnes, InBracketsIs
      <3> QED
        BY <2>1, <2>2, <3>1
    <2> QED
      BY <1>1, <2>3, InnerOnes, InBracketsIs
  <1>8. CASE list # <<>>
    <2>1. Len(list) \in Nat /\ DOMAIN list = 1..Len(list)
          /\ \A i \in 1..Len(list) : list[i] \in Texts
      OBVIOUS
    <2>2. ASSUME NEW i \in 1..Len(list)
          PROVE  q[i] \in InnerTexts
      <3>1. RenderEntry(list[i]) \in InnerTexts
        BY <2>1, RenderEntryIsInner
      <3>2. q[i] = Then(Then(N, RenderEntry(list[i])),
                        IF i < Len(list) THEN <<",">> ELSE <<>>)
        BY <2>1, IsThen
      <3>3. (IF i < Len(list) THEN <<",">> ELSE <<>>) \in InnerTexts
        BY <1>6, InnerOnes
      <3>4. Then(N, RenderEntry(list[i])) \in InnerTexts
        BY <1>5, <3>1, InnerOnes
      <3> HIDE DEF q
      <3> QED
        BY <3>2, <3>3, <3>4, InnerOnes
    <2>3. q \in Seq(InnerTexts)
      <3>1. q = [i \in 1..Len(list) |-> q[i]]
        BY <2>1
      <3> HIDE DEF q
      <3> QED
        BY <2>1, <2>2, <3>1
    <2>4. F \in InnerTexts
      <3>1. InnerTexts \in SUBSET Texts /\ <<>> \in InnerTexts
        BY InnerOnes
      <3> HIDE DEF q
      <3> QED
        BY <2>3, <3>1, InnerConcat, FlattenStaysIn
    <2>5. RenderFolders(list) = Then(Then(A, F), Then(N, Z))
      <3>1. <<Newline, "]">> = Then(N, Z)
        BY Pairs
      <3>2. RenderFolders(list) = Then(Then(A, F), <<Newline, "]">>)
        BY <1>8, IsThen DEF RenderFolders
      <3> QED
        BY <3>1, <3>2
    <2> HIDE DEF F, q, A, N, Z
    <2>6. F \in Texts /\ N \in Texts
      BY <1>5, <2>4, InnerOnes
    <2>7. RenderFolders(list) = Then(A, Then(Then(F, N), Z))
      <3>1. Then(N, Z) \in Texts /\ Then(F, Then(N, Z)) = Then(Then(F, N), Z)
        BY <1>4, <2>6, ThenIsText
      <3> QED
        BY <1>4, <2>5, <2>6, <3>1, ThenIsText
    <2>8. Then(F, N) \in InnerTexts
      BY <1>5, <2>4, InnerOnes
    <2>9. InBrackets("[", Then(F, N), "]") \in Bracketed
          /\ InBrackets("[", Then(F, N), "]") = Then(A, Then(Then(F, N), Z))
      BY <1>1, <2>8, InBracketsIs DEF A, Z
    <2> QED
      BY <2>7, <2>9
  <1> QED
    BY <1>7, <1>8

-----------------------------------------------------------------------------
(* The documents, and where their parts are in the text.                   *)

MembersOf(keys, values) ==
    [lead : Gaps, key : keys, mid : Gaps, post : Gaps,
     value : [raw : values, strict : Texts], tail : Gaps]

\* The root is an object in which folders occurs once at most, or it is no object.
DocumentsOf(keys, values) ==
    {d \in [before : Gaps, open : {LeftBrace, "["}, members : Seq(MembersOf(keys, values)),
            trailing : BOOLEAN, last : Gaps, close : Closing, after : Texts] :
        /\ d.open = LeftBrace => d.close = RightBrace
        /\ d.trailing => d.members # <<>>
        /\ \A j, k \in FoldersOf(d) : j = k}

JsoncDocuments == DocumentsOf(Strings, JsoncValues)

Members == MembersOf(Quoted, ScannedValues)

ScannedDocuments == DocumentsOf(Quoted, ScannedValues)

LEMMA JsoncIsScanned == JsoncDocuments \subseteq ScannedDocuments
  <1>1. JsoncValues \subseteq ScannedValues
    BY StringsAreQuoted, ContainersAreBracketed DEF JsoncValues, ScannedValues
  <1>2. MembersOf(Strings, JsoncValues) \subseteq MembersOf(Quoted, ScannedValues)
    <2> SUFFICES ASSUME NEW m \in MembersOf(Strings, JsoncValues)
                 PROVE  m \in MembersOf(Quoted, ScannedValues)
      OBVIOUS
    <2>1. m.key \in Quoted /\ m.value.raw \in ScannedValues /\ m.value.strict \in Texts
          /\ m.value = [raw |-> m.value.raw, strict |-> m.value.strict]
      BY <1>1, StringsAreQuoted DEF MembersOf
    <2>2. m.value \in [raw : ScannedValues, strict : Texts]
      BY <2>1
    <2> QED
      BY <2>1, <2>2 DEF MembersOf
  <1>3. \A S, T : S \subseteq T => Seq(S) \subseteq Seq(T)
    OBVIOUS
  <1> QED
    BY <1>2, <1>3 DEF JsoncDocuments, ScannedDocuments, DocumentsOf

LEMMA MemberFields ==
    ASSUME NEW m \in Members
    PROVE  /\ m.lead \in Gaps /\ m.mid \in Gaps /\ m.post \in Gaps /\ m.tail \in Gaps
           /\ m.lead \in Texts /\ m.mid \in Texts /\ m.post \in Texts /\ m.tail \in Texts
           /\ m.key \in Quoted /\ m.key \in Texts
           /\ m.value.raw \in ScannedValues /\ m.value.raw \in Texts
           /\ <<":">> \in Texts /\ Len(<<":">>) = 1
  <1>1. /\ m.lead \in Gaps /\ m.mid \in Gaps /\ m.post \in Gaps /\ m.tail \in Gaps
        /\ m.key \in Quoted /\ m.value.raw \in ScannedValues
    BY DEF Members, MembersOf
  <1>2. Gaps \subseteq Texts
    BY DEF Gaps
  <1>3. m.key \in Texts
    BY <1>1, StringIsScanned
  <1>4. m.value.raw \in Texts
    BY <1>1, ValueIsScanned
  <1>5. <<":">> \in Texts
    BY IsThen, SyntaxIsText
  <1>6. Len(<<":">>) = 1
    OBVIOUS
  <1> QED
    BY <1>1, <1>2, <1>3, <1>4, <1>5, <1>6

\* The offset behind v, when v is behind o characters.
Past(o, v) == o + Len(v)

LEMMA HoldsThen ==
    ASSUME NEW s \in Texts, NEW o \in Nat, NEW a \in Texts, NEW b \in Texts
    PROVE  /\ Then(a, b) \in Texts /\ Past(o, a) \in Nat
           /\ Past(o, Then(a, b)) = Past(Past(o, a), b)
           /\ Holds(s, o, Then(a, b)) <=> Holds(s, o, a) /\ Holds(s, Past(o, a), b)
  <1>1. /\ a \o b \in Texts /\ Len(a \o b) = Len(a) + Len(b)
        /\ Holds(s, o, a \o b) <=> Holds(s, o, a) /\ Holds(s, o + Len(a), b)
    BY HoldsConcat
  <1>2. Len(a) \in Nat /\ Len(b) \in Nat
    BY DEF Texts
  <1> QED
    BY <1>1, <1>2 DEF Then, Past

MemberText(m) ==
    Then(Then(Then(Then(Then(Then(m.lead, m.key), m.mid), <<":">>), m.post), m.value.raw), m.tail)

\* The offsets of the parts of a member that begins behind o characters.
KeyOf(m, o) == Past(o, m.lead)
MidOf(m, o) == Past(KeyOf(m, o), m.key)
ColonOf(m, o) == Past(MidOf(m, o), m.mid)
PostOf(m, o) == Past(ColonOf(m, o), <<":">>)
ValueOf(m, o) == Past(PostOf(m, o), m.post)
TailOf(m, o) == Past(ValueOf(m, o), m.value.raw)
EndOf(m, o) == Past(TailOf(m, o), m.tail)

HoldsMember(s, o, m) ==
    /\ Holds(s, o, m.lead)
    /\ Holds(s, KeyOf(m, o), m.key)
    /\ Holds(s, MidOf(m, o), m.mid)
    /\ Holds(s, ColonOf(m, o), <<":">>)
    /\ Holds(s, PostOf(m, o), m.post)
    /\ Holds(s, ValueOf(m, o), m.value.raw)
    /\ Holds(s, TailOf(m, o), m.tail)

LEMMA PastIsNat == \A o \in Nat, v \in Texts : Past(o, v) \in Nat
  BY DEF Past, Texts

LEMMA MemberOffsets ==
    ASSUME NEW m \in Members, NEW o \in Nat
    PROVE  /\ KeyOf(m, o) \in Nat /\ MidOf(m, o) \in Nat /\ ColonOf(m, o) \in Nat
           /\ PostOf(m, o) \in Nat /\ ValueOf(m, o) \in Nat /\ TailOf(m, o) \in Nat
           /\ EndOf(m, o) \in Nat
  BY PastIsNat, MemberFields DEF KeyOf, MidOf, ColonOf, PostOf, ValueOf, TailOf, EndOf

LEMMA MemberIsThere ==
    ASSUME NEW s \in Texts, NEW o \in Nat, NEW m \in Members
    PROVE  /\ MemberText(m) \in Texts /\ Past(o, MemberText(m)) = EndOf(m, o)
           /\ Holds(s, o, MemberText(m)) => HoldsMember(s, o, m)
  <1> DEFINE t1 == Then(m.lead, m.key)
             t2 == Then(t1, m.mid)
             t3 == Then(t2, <<":">>)
             t4 == Then(t3, m.post)
             t5 == Then(t4, m.value.raw)
             t6 == Then(t5, m.tail)
  <1>1. /\ t1 \in Texts /\ Past(o, t1) = MidOf(m, o)
        /\ Holds(s, o, t1) => Holds(s, o, m.lead) /\ Holds(s, KeyOf(m, o), m.key)
    BY HoldsThen, MemberFields DEF MidOf, KeyOf
  <1> HIDE DEF t1
  <1>2. /\ t2 \in Texts /\ Past(o, t2) = ColonOf(m, o)
        /\ Holds(s, o, t2) => Holds(s, o, t1) /\ Holds(s, MidOf(m, o), m.mid)
    BY <1>1, HoldsThen, MemberFields DEF ColonOf
  <1> HIDE DEF t2
  <1>3. /\ t3 \in Texts /\ Past(o, t3) = PostOf(m, o)
        /\ Holds(s, o, t3) => Holds(s, o, t2) /\ Holds(s, ColonOf(m, o), <<":">>)
    BY <1>2, HoldsThen, MemberFields DEF PostOf
  <1> HIDE DEF t3
  <1>4. /\ t4 \in Texts /\ Past(o, t4) = ValueOf(m, o)
        /\ Holds(s, o, t4) => Holds(s, o, t3) /\ Holds(s, PostOf(m, o), m.post)
    BY <1>3, HoldsThen, MemberFields DEF ValueOf
  <1> HIDE DEF t4
  <1>5. /\ t5 \in Texts /\ Past(o, t5) = TailOf(m, o)
        /\ Holds(s, o, t5) => Holds(s, o, t4) /\ Holds(s, ValueOf(m, o), m.value.raw)
    BY <1>4, HoldsThen, MemberFields DEF TailOf
  <1> HIDE DEF t5
  <1>6. /\ t6 \in Texts /\ Past(o, t6) = EndOf(m, o)
        /\ Holds(s, o, t6) => Holds(s, o, t5) /\ Holds(s, TailOf(m, o), m.tail)
    BY <1>5, HoldsThen, MemberFields DEF EndOf
  <1>7. MemberText(m) = t6
    BY DEF MemberText, t1, t2, t3, t4, t5
  <1> HIDE DEF t6
  <1> QED
    BY <1>1, <1>2, <1>3, <1>4, <1>5, <1>6, <1>7 DEF HoldsMember

\* The members in the text, each behind the comma of the one before.
Items(d) ==
    [k \in DOMAIN d.members |->
        Then(IF k = 1 THEN <<>> ELSE <<",">>, MemberText(d.members[k]))]

TrailingComma(d) == IF d.trailing THEN <<",">> ELSE <<>>

LEMMA TextIs ==
    ASSUME NEW d
    PROVE  Text(d) = Then(Then(Then(Then(Then(Then(d.before, <<d.open>>), FlattenSeq(Items(d))),
                                             TrailingComma(d)), d.last), <<d.close>>), d.after)
  BY IsThen DEF Text, Lay, Items, MemberText, TrailingComma

LEMMA PartsHold ==
    ASSUME NEW s \in Texts, NEW o \in Nat, NEW q \in Seq(Texts), Holds(s, o, FlattenSeq(q))
    PROVE  \A k \in 1..Len(q) : Holds(s, Past(o, Parts(q)[k - 1]), q[k])
  <1> DEFINE n == Len(q)
             f == Parts(q)
             Shown(i) == \A k \in 1..i : Holds(s, Past(o, f[k - 1]), q[k])
             T == {i \in 0..n : Holds(s, o, f[i]) => Shown(i)}
  <1>1. /\ n \in Nat
        /\ \A i \in 0..n : f[i] \in Texts
        /\ \A i \in 1..n : f[i] = Then(f[i - 1], q[i])
        /\ \A i \in 1..n : q[i] \in Texts
    BY PartsAre
  <1>2. Holds(s, o, f[n])
    BY FlattenIsParts
  <1> HIDE DEF f, n
  <1>3. 0 \in T
    BY <1>1
  <1>4. ASSUME NEW i \in 1..n, i - 1 \in T
        PROVE  i \in T
    <2>1. i - 1 \in 0..n /\ f[i - 1] \in Texts /\ q[i] \in Texts /\ f[i] = Then(f[i - 1], q[i])
      BY <1>1
    <2>2. ASSUME Holds(s, o, f[i])
          PROVE  Shown(i)
      <3>1. Holds(s, o, f[i - 1]) /\ Holds(s, Past(o, f[i - 1]), q[i])
        BY <2>1, <2>2, HoldsThen
      <3>2. Shown(i - 1)
        <4> HIDE DEF Shown
        <4> QED
          BY <1>4, <3>1
      <3>3. \A k \in 1..i : k \in 1..(i - 1) \/ k = i
        BY <1>1
      <3> QED
        BY <3>1, <3>2, <3>3
    <2> HIDE DEF Shown
    <2> QED
      BY <1>1, <2>2
  <1>5. 0..n \subseteq T
    <2> HIDE DEF T
    <2> QED
      BY <1>1, <1>3, <1>4, Along
  <1>6. Shown(n)
    <2> HIDE DEF Shown
    <2> QED
      BY <1>1, <1>2, <1>5
  <1> QED
    BY <1>6 DEF f, n

\* The offsets of the parts of a document.
HeadOf(d) == Past(Past(0, d.before), <<d.open>>)
ItemAt(d, k) == Past(HeadOf(d), Parts(Items(d))[k - 1])
MemberAt(d, k) == Past(ItemAt(d, k), IF k = 1 THEN <<>> ELSE <<",">>)
TrailingAt(d) == Past(HeadOf(d), FlattenSeq(Items(d)))
LastAt(d) == Past(TrailingAt(d), TrailingComma(d))
CloseAt(d) == Past(LastAt(d), d.last)

Size(d) == Len(d.members)

LEMMA DocumentFields ==
    ASSUME NEW d \in ScannedDocuments
    PROVE  /\ d.before \in Gaps /\ d.last \in Gaps
           /\ d.before \in Texts /\ d.last \in Texts /\ d.after \in Texts
           /\ <<d.open>> \in Texts /\ <<d.close>> \in Texts /\ TrailingComma(d) \in Texts
           /\ <<",">> \in Texts /\ <<>> \in Texts
           /\ d.members \in Seq(Members) /\ Size(d) \in Nat /\ DOMAIN d.members = 1..Size(d)
           /\ \A k \in 1..Size(d) : d.members[k] \in Members
           /\ Items(d) \in Seq(Texts) /\ Len(Items(d)) = Size(d)
           /\ FlattenSeq(Items(d)) \in Texts
           /\ \A k \in 1..Size(d) :
                 Items(d)[k] = Then(IF k = 1 THEN <<>> ELSE <<",">>, MemberText(d.members[k]))
  <1>1. /\ d.before \in Gaps /\ d.last \in Gaps /\ d.after \in Texts
        /\ d.open \in {LeftBrace, "["} /\ d.close \in Closing /\ d.members \in Seq(Members)
    BY DEF ScannedDocuments, DocumentsOf, Members
  <1>2. Gaps \subseteq Texts
    BY DEF Gaps
  <1>3. <<d.open>> \in Texts
    <2>1. d.open \in Characters
      BY <1>1, SyntaxIsText
    <2> QED
      BY <2>1, IsThen
  <1>4. <<d.close>> \in Texts
    <2>1. d.close \in Characters
      BY <1>1, SyntaxIsText
    <2> QED
      BY <2>1, IsThen
  <1>5. <<",">> \in Texts /\ <<>> \in Texts
    BY SyntaxIsText, IsThen, ThenIsText
  <1>6. TrailingComma(d) \in Texts
    BY <1>5 DEF TrailingComma
  <1>7. /\ Size(d) \in Nat /\ DOMAIN d.members = 1..Size(d)
        /\ \A k \in 1..Size(d) : d.members[k] \in Members
    BY <1>1 DEF Size
  <1>8. \A k \in 1..Size(d) :
           Items(d)[k] = Then(IF k = 1 THEN <<>> ELSE <<",">>, MemberText(d.members[k]))
    BY <1>7 DEF Items
  <1>9. ASSUME NEW k \in 1..Size(d)
        PROVE  Items(d)[k] \in Texts
    <2>1. MemberText(d.members[k]) \in Texts
      <3>1. d.members[k] \in Members /\ 0 \in Nat
        BY <1>7
      <3> QED
        BY <1>5, <3>1, MemberIsThere
    <2> DEFINE comma == IF k = 1 THEN <<>> ELSE <<",">>
    <2>2. comma \in Texts
      BY <1>5
    <2>3. Items(d)[k] = Then(comma, MemberText(d.members[k]))
      BY <1>8
    <2> HIDE DEF comma
    <2> QED
      BY <2>1, <2>2, <2>3, ThenIsText
  <1>10. Items(d) \in Seq(Texts) /\ Len(Items(d)) = Size(d)
    <2> DEFINE q == Items(d)
    <2>1. q = [k \in 1..Size(d) |-> q[k]]
      BY <1>7 DEF Items
    <2> HIDE DEF q
    <2>2. q \in [1..Size(d) -> Texts]
      BY <1>9, <2>1 DEF q
    <2>3. q \in Seq(Texts) /\ Len(q) = Size(d)
      BY <1>7, <2>1, <2>2
    <2> QED
      BY <2>3 DEF q
  <1>11. FlattenSeq(Items(d)) \in Texts
    BY <1>10, FlattenIsParts
  <1> QED
    BY <1>1, <1>2, <1>3, <1>4, <1>5, <1>6, <1>7, <1>8, <1>10, <1>11

LEMMA DocumentOffsets ==
    ASSUME NEW d \in ScannedDocuments
    PROVE  /\ Past(0, d.before) \in Nat /\ HeadOf(d) \in Nat /\ TrailingAt(d) \in Nat
           /\ LastAt(d) \in Nat /\ CloseAt(d) \in Nat
           /\ \A k \in 1..Size(d) : ItemAt(d, k) \in Nat /\ MemberAt(d, k) \in Nat
           /\ Size(d) # 0 => MemberAt(d, 1) = HeadOf(d)
           /\ Size(d) = 0 => TrailingAt(d) = HeadOf(d)
           /\ \A k \in 1..Size(d) :
                 EndOf(d.members[k], MemberAt(d, k))
                    = IF k = Size(d) THEN TrailingAt(d) ELSE ItemAt(d, k + 1)
  <1>1. 0 \in Nat
    OBVIOUS
  <1>2. Past(0, d.before) \in Nat
    BY <1>1, PastIsNat, DocumentFields
  <1>3. HeadOf(d) \in Nat
    BY <1>2, PastIsNat, DocumentFields DEF HeadOf
  <1>4. TrailingAt(d) \in Nat
    BY <1>3, PastIsNat, DocumentFields DEF TrailingAt
  <1>5. LastAt(d) \in Nat
    BY <1>4, PastIsNat, DocumentFields DEF LastAt
  <1>6. CloseAt(d) \in Nat
    BY <1>5, PastIsNat, DocumentFields DEF CloseAt
  <1> DEFINE n == Size(d)
             q == Items(d)
             f == Parts(q)
             comma(k) == IF k = 1 THEN <<>> ELSE <<",">>
  <1>7. /\ n \in Nat /\ f[0] = <<>>
        /\ \A i \in 0..n : f[i] \in Texts
        /\ \A i \in 1..n : f[i] = Then(f[i - 1], q[i])
        /\ \A i \in 1..n : q[i] = Then(comma(i), MemberText(d.members[i]))
        /\ FlattenSeq(q) = f[n]
    BY DocumentFields, PartsAre, FlattenIsParts
  <1>8. \A o \in Nat : Past(o, <<>>) = o
    BY DEF Past
  <1>9. \A k : comma(k) \in Texts
    BY DocumentFields
  <1> HIDE DEF comma
  <1>10. ASSUME NEW k \in 1..n
         PROVE  ItemAt(d, k) \in Nat /\ MemberAt(d, k) \in Nat
    <2>1. k - 1 \in 0..n
      BY <1>7
    <2>2. ItemAt(d, k) \in Nat
      BY <1>3, <1>7, <2>1, PastIsNat DEF ItemAt
    <2>3. MemberAt(d, k) = Past(ItemAt(d, k), comma(k))
      BY DEF MemberAt, comma
    <2> QED
      BY <1>9, <2>2, <2>3, PastIsNat
  <1>11. n # 0 => MemberAt(d, 1) = HeadOf(d)
    BY <1>3, <1>7, <1>8 DEF MemberAt, ItemAt
  <1>12. n = 0 => TrailingAt(d) = HeadOf(d)
    BY <1>3, <1>7, <1>8 DEF TrailingAt
  <1>13. ASSUME NEW k \in 1..n
         PROVE  EndOf(d.members[k], MemberAt(d, k))
                   = IF k = n THEN TrailingAt(d) ELSE ItemAt(d, k + 1)
    <2>1. d.members[k] \in Members /\ k - 1 \in 0..n /\ f[k - 1] \in Texts
      <3>1. d.members[k] \in Members
        BY DocumentFields
      <3>2. k - 1 \in 0..n
        BY <1>7
      <3>3. f[k - 1] \in Texts
        BY <1>7, <3>2
      <3> QED
        BY <3>1, <3>2, <3>3
    <2>2. MemberText(d.members[k]) \in Texts
          /\ EndOf(d.members[k], MemberAt(d, k))
                = Past(MemberAt(d, k), MemberText(d.members[k]))
      <3>1. <<>> \in Texts /\ MemberAt(d, k) \in Nat
        BY <1>10, DocumentFields
      <3> QED
        BY <2>1, <3>1, MemberIsThere
    <2>3. MemberAt(d, k) = Past(ItemAt(d, k), comma(k))
      BY DEF MemberAt, comma
    <2>4. ItemAt(d, k) = Past(HeadOf(d), f[k - 1])
      BY DEF ItemAt
    <2>5. Past(ItemAt(d, k), q[k]) = Past(MemberAt(d, k), MemberText(d.members[k]))
      <3>1. ItemAt(d, k) \in Nat /\ comma(k) \in Texts
            /\ q[k] = Then(comma(k), MemberText(d.members[k]))
        BY <1>7, <1>9, <1>10
      <3> HIDE DEF q
      <3> QED
        BY <2>2, <2>3, <3>1, HoldsThen
    <2>6. q[k] \in Texts
      <3>1. q \in Seq(Texts) /\ Len(q) = n
        BY DocumentFields
      <3> HIDE DEF q, n
      <3> QED
        BY <3>1
    <2>7. Past(HeadOf(d), f[k]) = Past(ItemAt(d, k), q[k])
      <3>1. f[k] = Then(f[k - 1], q[k])
        BY <1>7
      <3> HIDE DEF q, f
      <3> QED
        BY <1>3, <2>1, <2>4, <2>6, <3>1, HoldsThen
    <2>8. EndOf(d.members[k], MemberAt(d, k)) = Past(HeadOf(d), f[k])
      BY <2>2, <2>5, <2>7
    <2>9. k = n => TrailingAt(d) = Past(HeadOf(d), f[k])
      BY <1>7 DEF TrailingAt
    <2>10. ItemAt(d, k + 1) = Past(HeadOf(d), f[k])
      <3>1. (k + 1) - 1 = k
        OBVIOUS
      <3> QED
        BY <3>1 DEF ItemAt
    <2> QED
      BY <2>8, <2>9, <2>10
  <1> QED
    BY <1>2, <1>3, <1>4, <1>5, <1>6, <1>10, <1>11, <1>12, <1>13

LEMMA DocumentIsThere ==
    ASSUME NEW d \in ScannedDocuments
    PROVE  /\ Text(d) \in Texts
           /\ Holds(Text(d), 0, d.before)
           /\ Holds(Text(d), Past(0, d.before), <<d.open>>)
           /\ \A k \in 1..Size(d) :
                 /\ k # 1 => Holds(Text(d), ItemAt(d, k), <<",">>)
                 /\ HoldsMember(Text(d), MemberAt(d, k), d.members[k])
           /\ Holds(Text(d), TrailingAt(d), TrailingComma(d))
           /\ Holds(Text(d), LastAt(d), d.last)
           /\ Holds(Text(d), CloseAt(d), <<d.close>>)
  <1> DEFINE F == FlattenSeq(Items(d))
             t1 == Then(d.before, <<d.open>>)
             t2 == Then(t1, F)
             t3 == Then(t2, TrailingComma(d))
             t4 == Then(t3, d.last)
             t5 == Then(t4, <<d.close>>)
             t6 == Then(t5, d.after)
             s == Text(d)
  <1>offsets. /\ 0 \in Nat /\ Past(0, d.before) \in Nat /\ HeadOf(d) \in Nat
              /\ TrailingAt(d) \in Nat /\ LastAt(d) \in Nat /\ CloseAt(d) \in Nat
    BY DocumentOffsets
  <1>parts. /\ d.before \in Texts /\ <<d.open>> \in Texts /\ F \in Texts
            /\ TrailingComma(d) \in Texts /\ d.last \in Texts /\ <<d.close>> \in Texts
            /\ d.after \in Texts
    BY DocumentFields
  <1> HIDE DEF F
  <1>1. /\ t1 \in Texts
        /\ Past(0, t1) = HeadOf(d)
        /\ \A u \in Texts : Holds(u, 0, t1)
              => Holds(u, 0, d.before) /\ Holds(u, Past(0, d.before), <<d.open>>)
    <2>1. t1 \in Texts
      BY <1>parts, ThenIsText
    <2>3. Past(0, t1) = Past(Past(0, d.before), <<d.open>>)
      BY <1>offsets, <1>parts, HoldsThen
    <2>4. Past(0, t1) = HeadOf(d)
      BY <2>3 DEF HeadOf
    <2>5. ASSUME NEW u \in Texts, Holds(u, 0, t1)
          PROVE  Holds(u, 0, d.before) /\ Holds(u, Past(0, d.before), <<d.open>>)
      BY <1>offsets, <1>parts, <2>5, HoldsThen
    <2> HIDE DEF t1
    <2> QED
      BY <2>1, <2>4, <2>5
  <1> HIDE DEF t1
  <1>2. /\ t2 \in Texts
        /\ Past(0, t2) = TrailingAt(d)
        /\ \A u \in Texts : Holds(u, 0, t2) => Holds(u, 0, t1) /\ Holds(u, HeadOf(d), F)
    <2>1. t2 \in Texts
      BY <1>parts, <1>1, ThenIsText
    <2>2. Past(0, t1) = HeadOf(d)
      BY <1>1
    <2>3. Past(0, t2) = Past(Past(0, t1), F)
      BY <1>offsets, <1>parts, <1>1, HoldsThen
    <2>4. Past(0, t2) = TrailingAt(d)
      BY <2>3, <2>2 DEF TrailingAt, F
    <2>5. ASSUME NEW u \in Texts, Holds(u, 0, t2)
          PROVE  Holds(u, 0, t1) /\ Holds(u, Past(0, t1), F)
      BY <1>offsets, <1>parts, <2>5, <1>1, HoldsThen
    <2> HIDE DEF t2
    <2> QED
      BY <2>1, <2>2, <2>4, <2>5
  <1> HIDE DEF t2
  <1>3. /\ t3 \in Texts
        /\ Past(0, t3) = LastAt(d)
        /\ \A u \in Texts : Holds(u, 0, t3)
              => Holds(u, 0, t2) /\ Holds(u, TrailingAt(d), TrailingComma(d))
    <2>1. t3 \in Texts
      BY <1>parts, <1>2, ThenIsText
    <2>2. Past(0, t2) = TrailingAt(d)
      BY <1>2
    <2>3. Past(0, t3) = Past(Past(0, t2), TrailingComma(d))
      BY <1>offsets, <1>parts, <1>2, HoldsThen
    <2>4. Past(0, t3) = LastAt(d)
      BY <2>3, <2>2 DEF LastAt
    <2>5. ASSUME NEW u \in Texts, Holds(u, 0, t3)
          PROVE  Holds(u, 0, t2) /\ Holds(u, Past(0, t2), TrailingComma(d))
      BY <1>offsets, <1>parts, <2>5, <1>2, HoldsThen
    <2> HIDE DEF t3
    <2> QED
      BY <2>1, <2>2, <2>4, <2>5
  <1> HIDE DEF t3
  <1>4. /\ t4 \in Texts
        /\ Past(0, t4) = CloseAt(d)
        /\ \A u \in Texts : Holds(u, 0, t4) => Holds(u, 0, t3) /\ Holds(u, LastAt(d), d.last)
    <2>1. t4 \in Texts
      BY <1>parts, <1>3, ThenIsText
    <2>2. Past(0, t3) = LastAt(d)
      BY <1>3
    <2>3. Past(0, t4) = Past(Past(0, t3), d.last)
      BY <1>offsets, <1>parts, <1>3, HoldsThen
    <2>4. Past(0, t4) = CloseAt(d)
      BY <2>3, <2>2 DEF CloseAt
    <2>5. ASSUME NEW u \in Texts, Holds(u, 0, t4)
          PROVE  Holds(u, 0, t3) /\ Holds(u, Past(0, t3), d.last)
      BY <1>offsets, <1>parts, <2>5, <1>3, HoldsThen
    <2> HIDE DEF t4
    <2> QED
      BY <2>1, <2>2, <2>4, <2>5
  <1> HIDE DEF t4
  <1>5. /\ t5 \in Texts
        /\ \A u \in Texts : Holds(u, 0, t5)
              => Holds(u, 0, t4) /\ Holds(u, CloseAt(d), <<d.close>>)
    <2>1. t5 \in Texts
      BY <1>parts, <1>4, ThenIsText
    <2>2. Past(0, t4) = CloseAt(d)
      BY <1>4
    <2>5. ASSUME NEW u \in Texts, Holds(u, 0, t5)
          PROVE  Holds(u, 0, t4) /\ Holds(u, Past(0, t4), <<d.close>>)
      BY <1>offsets, <1>parts, <2>5, <1>4, HoldsThen
    <2> HIDE DEF t5
    <2> QED
      BY <2>1, <2>2, <2>5
  <1> HIDE DEF t5
  <1>6. /\ t6 \in Texts
        /\ \A u \in Texts : Holds(u, 0, t6) => Holds(u, 0, t5)
    <2>1. t6 \in Texts
      BY <1>parts, <1>5, ThenIsText
    <2>5. ASSUME NEW u \in Texts, Holds(u, 0, t6)
          PROVE  Holds(u, 0, t5) /\ Holds(u, Past(0, t5), d.after)
      BY <1>offsets, <1>parts, <2>5, <1>5, HoldsThen
    <2> HIDE DEF t6
    <2> QED
      BY <2>1, <2>5
  <1>7. s = t6
    BY TextIs DEF t1, t2, t3, t4, t5, F
  <1> HIDE DEF t6, s
  <1>8. s \in Texts /\ Holds(s, 0, s)
    BY <1>6, <1>7 DEF Holds, Texts
  <1>9. Holds(s, 0, t5) /\ Holds(s, 0, t4) /\ Holds(s, 0, t3) /\ Holds(s, 0, t2)
        /\ Holds(s, 0, t1)
    BY <1>1, <1>2, <1>3, <1>4, <1>5, <1>6, <1>7, <1>8
  <1>10. ASSUME NEW k \in 1..Size(d)
         PROVE  /\ k # 1 => Holds(s, ItemAt(d, k), <<",">>)
                /\ HoldsMember(s, MemberAt(d, k), d.members[k])
    <2> DEFINE q == Items(d)
               comma == IF k = 1 THEN <<>> ELSE <<",">>
    <2>1. Holds(s, ItemAt(d, k), q[k])
      <3>1. Holds(s, HeadOf(d), FlattenSeq(q))
        BY <1>2, <1>8, <1>9 DEF F
      <3>2. HeadOf(d) \in Nat /\ q \in Seq(Texts) /\ k \in 1..Len(q)
        BY DocumentFields, DocumentOffsets
      <3> QED
        BY <1>8, <3>1, <3>2, PartsHold DEF ItemAt
    <2>2. d.members[k] \in Members /\ comma \in Texts /\ ItemAt(d, k) \in Nat
          /\ MemberAt(d, k) \in Nat
      BY DocumentFields, DocumentOffsets
    <2>3. q[k] = Then(comma, MemberText(d.members[k]))
      BY DocumentFields
    <2>4. MemberAt(d, k) = Past(ItemAt(d, k), comma)
      BY DEF MemberAt
    <2>5. k # 1 => comma = <<",">>
      OBVIOUS
    <2>6. MemberText(d.members[k]) \in Texts
      BY <1>8, <2>2, MemberIsThere
    <2> HIDE DEF q, comma
    <2>7. Holds(s, ItemAt(d, k), comma) /\ Holds(s, MemberAt(d, k), MemberText(d.members[k]))
      BY <1>8, <2>1, <2>2, <2>3, <2>4, <2>6, HoldsThen
    <2> QED
      BY <1>8, <2>2, <2>5, <2>7, MemberIsThere
  <1> QED
    BY <1>1, <1>2, <1>3, <1>4, <1>5, <1>8, <1>9, <1>10 DEF s

-----------------------------------------------------------------------------
(* What the scanner sees from each part of a document.                     *)

\* From behind o characters it goes to what is behind p of them, c.
Ahead(s, o, p, c) == SkipGap(s, o + 1) = p + 1 /\ p + 1 <= Len(s) /\ s[p + 1] = c

Ends == {",", RightBrace, "]"}

LEMMA AheadOfGap ==
    ASSUME NEW s \in Texts, NEW o \in Nat, NEW g \in Gaps, Holds(s, o, g),
           NEW c \in Characters \ (White \cup {"/"}), Holds(s, Past(o, g), <<c>>)
    PROVE  Ahead(s, o, Past(o, g), c) /\ (c \in Ends => Stops(s, o + 1))
  <1>1. g \in Texts /\ Len(g) \in Nat
    BY DEF Gaps, Texts
  <1>2. Past(o, g) \in Nat /\ Past(o, g) + 1 \in Nat /\ Past(o, g) + 1 = o + Len(g) + 1
    BY <1>1 DEF Past
  <1>3. Past(o, g) + 1 <= Len(s) /\ s[Past(o, g) + 1] = c
    BY <1>2, HoldsOne
  <1>4. SkipGap(s, o + 1) = Past(o, g) + 1
    BY <1>2, <1>3, GapEnds
  <1>5. CASE g = <<>>
    <2>1. Past(o, g) = o
      BY <1>5 DEF Past
    <2> QED
      BY <1>3, <1>4, <2>1 DEF Ahead, Stops, Ends
  <1>6. CASE g # <<>>
    BY <1>3, <1>4, <1>6, GapStops DEF Ahead
  <1> QED
    BY <1>5, <1>6

LEMMA AheadOfGaps ==
    ASSUME NEW s \in Texts, NEW o \in Nat, NEW g \in Gaps, Holds(s, o, g),
           NEW h \in Gaps, Holds(s, Past(o, g), h),
           NEW c \in Characters \ (White \cup {"/"}), Holds(s, Past(Past(o, g), h), <<c>>)
    PROVE  Ahead(s, o, Past(Past(o, g), h), c) /\ (c \in Ends => Stops(s, o + 1))
  <1>1. g \in Texts /\ g \in SkippedTexts
    BY GapIsSkipped DEF Gaps
  <1>2. Past(o, g) \in Nat /\ Past(o, g) + 1 = o + Len(g) + 1
    BY <1>1 DEF Past, Texts
  <1>3. /\ Ahead(s, Past(o, g), Past(Past(o, g), h), c)
        /\ c \in Ends => Stops(s, Past(o, g) + 1)
    BY <1>2, AheadOfGap
  <1>4. SkipGap(s, o + 1) = SkipGap(s, Past(o, g) + 1)
    BY <1>1, <1>2 DEF SkippedTexts
  <1>5. CASE g = <<>>
    <2>1. Past(o, g) = o
      BY <1>5 DEF Past
    <2> QED
      BY <1>3, <2>1
  <1>6. CASE g # <<>>
    BY <1>3, <1>4, <1>6, GapStops DEF Ahead
  <1> QED
    BY <1>5, <1>6

\* The first character of a piece.
LEMMA HoldsHead ==
    ASSUME NEW s \in Texts, NEW o \in Nat, NEW v \in Texts, Len(v) > 0, Holds(s, o, v)
    PROVE  v[1] \in Characters /\ Holds(s, o, <<v[1]>>)
  <1>1. 1 \in 1..Len(v) /\ Len(v) \in Nat /\ Len(s) \in Nat
    BY DEF Texts
  <1>2. v[1] \in Characters
    BY <1>1 DEF Texts
  <1>3. o + 1 <= Len(s) /\ s[o + 1] = v[1]
    BY <1>1 DEF Holds
  <1> QED
    BY <1>2, <1>3, HoldsOne

LEMMA PastOne == \A o \in Nat : \A c : Past(o, <<c>>) = o + 1 /\ Past(o, <<>>) = o
  BY DEF Past

LEMMA NothingIsGap == <<>> \in Gaps
  BY DEF Gaps, MakesGaps, Texts

LEMMA RootIsThere ==
    ASSUME NEW d \in ScannedDocuments
    PROVE  /\ HeadOf(d) = Past(0, d.before) + 1
           /\ RootOpen(Text(d)) = IF d.open = LeftBrace THEN HeadOf(d) ELSE 0
           /\ HeadOf(d) # 0
  <1> DEFINE s == Text(d)
             o == Past(0, d.before)
             i == SkipGap(s, 1)
  <1>1. 0 \in Nat /\ s \in Texts /\ Holds(s, 0, d.before) /\ Holds(s, o, <<d.open>>)
        /\ o \in Nat
    BY DocumentIsThere, DocumentOffsets
  <1>2. d.before \in Gaps
    BY DocumentFields
  <1>3. d.open \in {LeftBrace, "["}
    BY DEF ScannedDocuments, DocumentsOf
  <1>4. d.open \in Characters
    BY <1>3, SyntaxIsText
  <1>5. d.open \notin White \cup {"/"}
    BY <1>3, Distinct
  <1> HIDE DEF s
  <1>6. Ahead(s, 0, o, d.open)
    BY <1>1, <1>2, <1>4, <1>5, AheadOfGap
  <1> HIDE DEF o
  <1>7. SkipGap(s, 1) = o + 1 /\ o + 1 <= Len(s) /\ s[o + 1] = d.open
    <2>1. 0 + 1 = 1
      OBVIOUS
    <2> QED
      BY <1>6, <2>1 DEF Ahead
  <1>8. HeadOf(d) = o + 1 /\ o + 1 # 0
    BY <1>1, PastOne DEF HeadOf, o
  <1>9. RootOpen(s) = IF d.open = LeftBrace THEN o + 1 ELSE 0
    <2> HIDE DEF o
    <2> QED
      BY <1>7 DEF RootOpen
  <1> QED
    BY <1>8, <1>9 DEF o, s

\* In a member: its key, its colon and its value.
LEMMA KeyIsAhead ==
    ASSUME NEW d \in ScannedDocuments, NEW k \in 1..Size(d), NEW m, m = d.members[k],
           NEW o, o = MemberAt(d, k)
    PROVE  /\ Ahead(Text(d), o, KeyOf(m, o), Quote)
           /\ StringEnd(Text(d), KeyOf(m, o) + 1) = MidOf(m, o) + 1
           /\ SubSeq(Text(d), KeyOf(m, o) + 1, MidOf(m, o)) = m.key
  <1>1. Text(d) \in Texts /\ HoldsMember(Text(d), o, m)
    BY DocumentIsThere
  <1>2. m \in Members /\ o \in Nat
    BY DocumentFields, DocumentOffsets
  <1>3. KeyOf(m, o) \in Nat
    BY <1>2, MemberOffsets
  <1>4. m.lead \in Gaps /\ m.key \in Quoted /\ m.key \in Texts
    BY <1>2, MemberFields
  <1> DEFINE s == Text(d)
             p == KeyOf(m, o)
  <1>5. Holds(s, o, m.lead) /\ Holds(s, p, m.key) /\ p = Past(o, m.lead)
        /\ MidOf(m, o) = Past(p, m.key)
    BY <1>1 DEF HoldsMember, KeyOf, MidOf
  <1> HIDE DEF s, p
  <1>6. s \in Texts /\ p \in Nat
    BY <1>1, <1>3 DEF s, p
  <1>7. Len(m.key) > 1 /\ m.key[1] = Quote /\ StringEnd(s, p + 1) = p + Len(m.key) + 1
    BY <1>4, <1>5, <1>6, StringIsScanned
  <1>8. Holds(s, p, <<Quote>>) /\ Quote \in Characters
    <2>1. Len(m.key) > 0
      BY <1>4, <1>7 DEF Texts
    <2> QED
      BY <1>4, <1>5, <1>6, <1>7, <2>1, HoldsHead
  <1>9. Quote \notin White \cup {"/"}
    BY Distinct
  <1>10. Ahead(s, o, p, Quote)
    BY <1>2, <1>4, <1>5, <1>6, <1>8, <1>9, AheadOfGap
  <1>11. MidOf(m, o) = p + Len(m.key)
    BY <1>5 DEF Past
  <1>12. SubSeq(s, p + 1, p + Len(m.key)) = m.key
    BY <1>4, <1>5, <1>6, HeldIsThere
  <1> QED
    BY <1>7, <1>10, <1>11, <1>12 DEF s, p

LEMMA ColonIsAhead ==
    ASSUME NEW d \in ScannedDocuments, NEW k \in 1..Size(d), NEW m, m = d.members[k],
           NEW o, o = MemberAt(d, k)
    PROVE  /\ Ahead(Text(d), MidOf(m, o), ColonOf(m, o), ":")
           /\ PostOf(m, o) = ColonOf(m, o) + 1
  <1>1. Text(d) \in Texts /\ HoldsMember(Text(d), o, m)
    BY DocumentIsThere
  <1>2. m \in Members /\ o \in Nat
    BY DocumentFields, DocumentOffsets
  <1>3. MidOf(m, o) \in Nat /\ ColonOf(m, o) \in Nat
    BY <1>2, MemberOffsets
  <1>4. m.mid \in Gaps
    BY <1>2, MemberFields
  <1>5. ":" \in Characters
    BY SyntaxIsText
  <1>6. ":" \notin White \cup {"/"}
    BY Distinct
  <1>7. /\ Holds(Text(d), MidOf(m, o), m.mid) /\ Holds(Text(d), ColonOf(m, o), <<":">>)
        /\ ColonOf(m, o) = Past(MidOf(m, o), m.mid)
    BY <1>1 DEF HoldsMember, ColonOf
  <1>8. Ahead(Text(d), MidOf(m, o), ColonOf(m, o), ":")
    BY <1>1, <1>3, <1>4, <1>5, <1>6, <1>7, AheadOfGap
  <1>9. PostOf(m, o) = ColonOf(m, o) + 1
    BY <1>3, PastOne DEF PostOf
  <1> QED
    BY <1>8, <1>9

LEMMA ClosesAhead ==
    ASSUME NEW d \in ScannedDocuments, d.open = LeftBrace
    PROVE  /\ d.close = RightBrace /\ Holds(Text(d), CloseAt(d), <<RightBrace>>)
           /\ RightBrace \in Characters \ (White \cup {"/"})
           /\ Ahead(Text(d), LastAt(d), CloseAt(d), RightBrace)
  <1>1. d.close = RightBrace
    BY DEF ScannedDocuments, DocumentsOf
  <1>2. RightBrace \in Characters
    BY SyntaxIsText
  <1>3. RightBrace \notin White \cup {"/"}
    BY Distinct
  <1>4. /\ Text(d) \in Texts /\ Holds(Text(d), LastAt(d), d.last)
        /\ Holds(Text(d), CloseAt(d), <<d.close>>)
    BY DocumentIsThere
  <1>5. LastAt(d) \in Nat /\ CloseAt(d) = Past(LastAt(d), d.last)
    BY DocumentOffsets DEF CloseAt
  <1>6. d.last \in Gaps
    BY DocumentFields
  <1>7. Ahead(Text(d), LastAt(d), CloseAt(d), RightBrace)
    BY <1>1, <1>2, <1>3, <1>4, <1>5, <1>6, AheadOfGap
  <1> QED
    BY <1>1, <1>2, <1>3, <1>4, <1>7

\* Behind a value: the comma in front of the next member, the trailing comma, or the
\* brace.
LEMMA CommaIsAhead ==
    ASSUME NEW d \in ScannedDocuments, d.open = LeftBrace, NEW k \in 1..Size(d),
           NEW m, m = d.members[k], NEW o, o = MemberAt(d, k)
    PROVE  /\ Stops(Text(d), TailOf(m, o) + 1)
           /\ k # Size(d) => /\ Ahead(Text(d), TailOf(m, o), ItemAt(d, k + 1), ",")
                             /\ MemberAt(d, k + 1) = ItemAt(d, k + 1) + 1
           /\ k = Size(d) /\ d.trailing => /\ Ahead(Text(d), TailOf(m, o), TrailingAt(d), ",")
                                           /\ LastAt(d) = TrailingAt(d) + 1
           /\ k = Size(d) /\ ~d.trailing => Ahead(Text(d), TailOf(m, o), CloseAt(d), RightBrace)
  <1> DEFINE s == Text(d)
             t == TailOf(m, o)
             e == EndOf(m, o)
  <1>1. s \in Texts /\ HoldsMember(s, o, m)
    BY DocumentIsThere
  <1>2. m \in Members /\ o \in Nat
    BY DocumentFields, DocumentOffsets
  <1>3. t \in Nat
    BY <1>2, MemberOffsets
  <1>4. m.tail \in Gaps /\ Holds(s, t, m.tail) /\ e = Past(t, m.tail)
    BY <1>1, <1>2, MemberFields DEF HoldsMember, EndOf
  <1>5. "," \in Characters
    BY SyntaxIsText
  <1>6. "," \notin White \cup {"/"}
    BY Distinct
  <1>7. k # Size(d) => e = ItemAt(d, k + 1)
    BY DocumentOffsets
  <1>8. k = Size(d) => e = TrailingAt(d)
    BY DocumentOffsets
  <1>9. TrailingAt(d) \in Nat
    BY DocumentOffsets
  <1>10. "," \in Ends /\ RightBrace \in Ends
    BY DEF Ends
  <1> HIDE DEF s, t, e
  <1>11. CASE k # Size(d)
    <2>1. k + 1 \in 1..Size(d) /\ k + 1 # 1
      <3>1. Size(d) \in Nat
        BY DocumentFields
      <3> QED
        BY <1>11, <3>1
    <2>2. Holds(s, e, <<",">>)
      BY <1>7, <1>11, <2>1, DocumentIsThere DEF s
    <2>3. Ahead(s, t, e, ",") /\ Stops(s, t + 1)
      BY <1>1, <1>3, <1>4, <1>5, <1>6, <1>10, <2>2, AheadOfGap
    <2>4. MemberAt(d, k + 1) = ItemAt(d, k + 1) + 1
      <3>1. ItemAt(d, k + 1) \in Nat
        BY <2>1, DocumentOffsets
      <3> QED
        BY <2>1, <3>1, PastOne DEF MemberAt
    <2> QED
      BY <1>7, <1>11, <2>3, <2>4 DEF s, t
  <1>12. CASE k = Size(d) /\ d.trailing
    <2>1. TrailingComma(d) = <<",">>
      BY <1>12 DEF TrailingComma
    <2>2. Holds(s, e, <<",">>)
      BY <1>8, <1>12, <2>1, DocumentIsThere DEF s
    <2>3. Ahead(s, t, e, ",") /\ Stops(s, t + 1)
      BY <1>1, <1>3, <1>4, <1>5, <1>6, <1>10, <2>2, AheadOfGap
    <2>4. LastAt(d) = TrailingAt(d) + 1
      BY <1>9, <2>1, PastOne DEF LastAt
    <2> QED
      BY <1>8, <1>12, <2>3, <2>4 DEF s, t
  <1>13. CASE k = Size(d) /\ ~d.trailing
    <2>1. TrailingComma(d) = <<>>
      BY <1>13 DEF TrailingComma
    <2>2. LastAt(d) = e
      BY <1>8, <1>9, <1>13, <2>1, PastOne DEF LastAt
    <2>3. Holds(s, e, d.last) /\ CloseAt(d) = Past(e, d.last)
      BY <2>2, DocumentIsThere DEF s, CloseAt
    <2>4. d.last \in Gaps
      BY DocumentFields
    <2>5. Holds(s, CloseAt(d), <<RightBrace>>) /\ RightBrace \in Characters \ (White \cup {"/"})
      BY ClosesAhead DEF s
    <2>6. Ahead(s, t, CloseAt(d), RightBrace) /\ Stops(s, t + 1)
      BY <1>1, <1>3, <1>4, <1>10, <2>3, <2>4, <2>5, AheadOfGaps
    <2> QED
      BY <1>13, <2>6 DEF s, t
  <1> QED
    BY <1>11, <1>12, <1>13

LEMMA ValueIsAhead ==
    ASSUME NEW d \in ScannedDocuments, d.open = LeftBrace, NEW k \in 1..Size(d),
           NEW m, m = d.members[k], NEW o, o = MemberAt(d, k)
    PROVE  /\ ValueOf(m, o) \in Nat
           /\ SkipGap(Text(d), PostOf(m, o) + 1) = ValueOf(m, o) + 1
           /\ Ahead(Text(d), ValueOf(m, o), ValueOf(m, o), m.value.raw[1])
           /\ m.value.raw[1] \notin Closing \cup {",", ":"}
           /\ ValueEnd(Text(d), ValueOf(m, o) + 1) = TailOf(m, o) + 1
  <1> DEFINE s == Text(d)
             p == PostOf(m, o)
             q == ValueOf(m, o)
             v == m.value.raw
  <1>1. s \in Texts /\ HoldsMember(s, o, m)
    BY DocumentIsThere
  <1>2. m \in Members /\ o \in Nat
    BY DocumentFields, DocumentOffsets
  <1>3. p \in Nat /\ q \in Nat
    BY <1>2, MemberOffsets
  <1>4. /\ m.post \in Gaps /\ Holds(s, p, m.post) /\ q = Past(p, m.post)
        /\ v \in ScannedValues /\ v \in Texts /\ Holds(s, q, v) /\ TailOf(m, o) = Past(q, v)
    BY <1>1, <1>2, MemberFields DEF HoldsMember, ValueOf, TailOf
  <1>5. Stops(s, TailOf(m, o) + 1)
    BY CommaIsAhead
  <1> HIDE DEF s, p, q, v
  <1>6. Len(v) > 0 /\ v[1] \notin White \cup Closing \cup {"/", ",", ":"}
    BY <1>4, ValueIsScanned
  <1>7. v[1] \in Characters /\ Holds(s, q, <<v[1]>>)
    BY <1>1, <1>3, <1>4, <1>6, HoldsHead
  <1>8. Ahead(s, p, q, v[1])
    BY <1>1, <1>3, <1>4, <1>6, <1>7, AheadOfGap
  <1>9. Ahead(s, q, q, v[1])
    <2>1. Past(q, <<>>) = q
      BY <1>3, PastOne
    <2>2. q <= Len(s)
      <3>1. Len(v) \in Nat /\ Len(s) \in Nat
        BY <1>1, <1>4 DEF Texts
      <3>2. q + Len(v) <= Len(s)
        BY <1>4 DEF Holds
      <3> QED
        BY <1>3, <3>1, <3>2
    <2>3. Holds(s, q, <<>>)
      BY <1>1, <1>3, <2>2, HoldsNothing
    <2> QED
      BY <1>1, <1>3, <1>6, <1>7, <2>1, <2>3, NothingIsGap, AheadOfGap
  <1>10. TailOf(m, o) = q + Len(v)
    BY <1>4 DEF Past
  <1>11. ValueEnd(s, q + 1) = TailOf(m, o) + 1
    BY <1>1, <1>3, <1>4, <1>5, <1>10, ValueIsScanned
  <1>12. SkipGap(s, p + 1) = q + 1
    BY <1>8 DEF Ahead
  <1> QED
    BY <1>3, <1>6, <1>9, <1>11, <1>12 DEF s, p, q, v

-----------------------------------------------------------------------------
(* The turns of the loop, each from what is ahead of it.                   *)

Skipped(d, k) == \A j \in 1..k : d.members[j].key # FoldersKey

\* Behind the brace or a comma: in front of a member, or of the end.
KeyNext(d, i) ==
    \/ \E k \in 1..Size(d) : i = MemberAt(d, k) + 1 /\ Skipped(d, k - 1)
    \/ i = LastAt(d) + 1 /\ Skipped(d, Size(d))

\* Behind the key of a member, which is the searched one or not.
ColonNext(d, i, isFolders) ==
    \E k \in 1..Size(d) : /\ i = MidOf(d.members[k], MemberAt(d, k)) + 1
                          /\ isFolders = (d.members[k].key = FoldersKey)
                          /\ Skipped(d, k - 1)

\* At the first character of its value.
ValueNext(d, i, isFolders) ==
    \E k \in 1..Size(d) : /\ i = ValueOf(d.members[k], MemberAt(d, k)) + 1
                          /\ isFolders = (d.members[k].key = FoldersKey)
                          /\ Skipped(d, k - 1)

\* Behind the value of another member.
CommaNext(d, i) ==
    \E k \in 1..Size(d) : i = TailOf(d.members[k], MemberAt(d, k)) + 1 /\ Skipped(d, k)

\* What find_top_level_member() is to return: the span of the value, or nothing.
Located(d, member) ==
    \/ member = NoMember /\ FoldersOf(d) = {}
    \/ \E k \in FoldersOf(d) :
          member = [first |-> ValueOf(d.members[k], MemberAt(d, k)) + 1,
                    next |-> TailOf(d.members[k], MemberAt(d, k)) + 1]

LEMMA NoFolders ==
    ASSUME NEW d \in ScannedDocuments
    PROVE  FoldersOf(d) = {} <=> Skipped(d, Size(d))
  <1>1. DOMAIN d.members = 1..Size(d)
    BY DocumentFields
  <1> QED
    BY <1>1 DEF FoldersOf, Skipped

LEMMA RootTurn ==
    ASSUME NEW d \in ScannedDocuments
    PROVE  KeyNext(d, HeadOf(d) + 1)
  <1>1. Size(d) \in Nat /\ d.members \in Seq(Members)
    BY DocumentFields
  <1>2. Skipped(d, 0)
    BY DEF Skipped
  <1>3. CASE Size(d) # 0
    <2>1. 1 \in 1..Size(d) /\ 1 - 1 = 0
      BY <1>1, <1>3
    <2>2. MemberAt(d, 1) = HeadOf(d)
      BY <1>3, DocumentOffsets
    <2> QED
      BY <1>2, <2>1, <2>2 DEF KeyNext
  <1>4. CASE Size(d) = 0
    <2>1. d.members = <<>>
      BY <1>1, <1>4, EmptySeq DEF Size
    <2>2. ~d.trailing
      BY <2>1 DEF ScannedDocuments, DocumentsOf
    <2>3. TrailingAt(d) = HeadOf(d) /\ HeadOf(d) \in Nat
      BY <1>4, DocumentOffsets
    <2>4. TrailingComma(d) = <<>>
      BY <2>2 DEF TrailingComma
    <2>5. LastAt(d) = HeadOf(d)
      BY <2>3, <2>4, PastOne DEF LastAt
    <2> QED
      BY <1>2, <1>4, <2>5 DEF KeyNext
  <1> QED
    BY <1>3, <1>4

LEMMA KeyTurn ==
    ASSUME NEW d \in ScannedDocuments, d.open = LeftBrace, NEW i, KeyNext(d, i),
           NEW h, h = SkipGap(Text(d), i)
    PROVE  /\ h <= Len(Text(d))
           /\ \/ /\ Text(d)[h] = Quote
                 /\ ColonNext(d, StringEnd(Text(d), h),
                        SubSeq(Text(d), h, StringEnd(Text(d), h) - 1) = FoldersKey)
              \/ Text(d)[h] = RightBrace /\ FoldersOf(d) = {}
  <1>1. ASSUME NEW k \in 1..Size(d), i = MemberAt(d, k) + 1, Skipped(d, k - 1)
        PROVE  /\ h <= Len(Text(d)) /\ Text(d)[h] = Quote
               /\ ColonNext(d, StringEnd(Text(d), h),
                      SubSeq(Text(d), h, StringEnd(Text(d), h) - 1) = FoldersKey)
    <2> DEFINE m == d.members[k]
               o == MemberAt(d, k)
               s == Text(d)
    <2>1. /\ Ahead(s, o, KeyOf(m, o), Quote)
          /\ StringEnd(s, KeyOf(m, o) + 1) = MidOf(m, o) + 1
          /\ SubSeq(s, KeyOf(m, o) + 1, MidOf(m, o)) = m.key
      BY KeyIsAhead
    <2>2. MidOf(m, o) \in Nat
      BY DocumentFields, DocumentOffsets, MemberOffsets
    <2> HIDE DEF m, o, s
    <2>3. h = KeyOf(m, o) + 1 /\ h <= Len(s) /\ s[h] = Quote
      BY <1>1, <2>1 DEF Ahead, s, o
    <2>4. StringEnd(s, h) = MidOf(m, o) + 1
      BY <2>1, <2>3
    <2>5. (MidOf(m, o) + 1) - 1 = MidOf(m, o)
      BY <2>2
    <2>6. SubSeq(s, h, StringEnd(s, h) - 1) = m.key
      BY <2>1, <2>3, <2>4, <2>5
    <2>7. ColonNext(d, StringEnd(s, h), SubSeq(s, h, StringEnd(s, h) - 1) = FoldersKey)
      BY <1>1, <2>4, <2>6 DEF ColonNext, m, o
    <2> QED
      BY <2>3, <2>7 DEF s
  <1>2. ASSUME i = LastAt(d) + 1, Skipped(d, Size(d))
        PROVE  h <= Len(Text(d)) /\ Text(d)[h] = RightBrace /\ FoldersOf(d) = {}
    BY <1>2, ClosesAhead, NoFolders DEF Ahead
  <1> QED
    BY <1>1, <1>2 DEF KeyNext

LEMMA ColonTurn ==
    ASSUME NEW d \in ScannedDocuments, d.open = LeftBrace, NEW i, NEW isFolders,
           ColonNext(d, i, isFolders), NEW h, h = SkipGap(Text(d), i)
    PROVE  /\ h <= Len(Text(d)) /\ Text(d)[h] = ":"
           /\ ValueNext(d, SkipGap(Text(d), h + 1), isFolders)
  <1>1. PICK k \in 1..Size(d) : /\ i = MidOf(d.members[k], MemberAt(d, k)) + 1
                                /\ isFolders = (d.members[k].key = FoldersKey)
                                /\ Skipped(d, k - 1)
    BY DEF ColonNext
  <1> DEFINE m == d.members[k]
             o == MemberAt(d, k)
             s == Text(d)
  <1>2. Ahead(s, MidOf(m, o), ColonOf(m, o), ":") /\ PostOf(m, o) = ColonOf(m, o) + 1
    BY ColonIsAhead
  <1>3. SkipGap(s, PostOf(m, o) + 1) = ValueOf(m, o) + 1
    <2>1. m = d.members[k] /\ o = MemberAt(d, k)
      OBVIOUS
    <2> HIDE DEF m, o
    <2> QED
      BY <2>1, ValueIsAhead, ZenonT(60)
  <1> HIDE DEF m, o, s
  <1>4. h = PostOf(m, o) /\ h <= Len(s) /\ s[h] = ":"
    BY <1>1, <1>2 DEF Ahead, s, o, m
  <1>5. SkipGap(s, h + 1) = ValueOf(m, o) + 1
    BY <1>3, <1>4
  <1>6. ValueNext(d, SkipGap(s, h + 1), isFolders)
    BY <1>1, <1>5 DEF ValueNext, m, o
  <1> QED
    BY <1>4, <1>6 DEF s

LEMMA ValueTurn ==
    ASSUME NEW d \in ScannedDocuments, d.open = LeftBrace, NEW i, NEW isFolders,
           ValueNext(d, i, isFolders)
    PROVE  /\ SkipGap(Text(d), i) = i /\ i <= Len(Text(d))
           /\ Text(d)[i] \notin {RightBrace, ",", ":"}
           /\ isFolders \in BOOLEAN
           /\ isFolders = TRUE => Located(d, [first |-> i, next |-> ValueEnd(Text(d), i)])
           /\ isFolders = FALSE => CommaNext(d, ValueEnd(Text(d), i))
  <1>1. PICK k \in 1..Size(d) : /\ i = ValueOf(d.members[k], MemberAt(d, k)) + 1
                                /\ isFolders = (d.members[k].key = FoldersKey)
                                /\ Skipped(d, k - 1)
    BY DEF ValueNext
  <1> DEFINE m == d.members[k]
             o == MemberAt(d, k)
             s == Text(d)
             e == ValueEnd(s, i)
  <1>2. /\ Ahead(s, ValueOf(m, o), ValueOf(m, o), m.value.raw[1])
        /\ m.value.raw[1] \notin Closing \cup {",", ":"}
        /\ ValueEnd(s, ValueOf(m, o) + 1) = TailOf(m, o) + 1
    <2>1. m = d.members[k] /\ o = MemberAt(d, k)
      OBVIOUS
    <2> HIDE DEF m, o
    <2> QED
      BY <2>1, ValueIsAhead, ZenonT(60)
  <1>3. DOMAIN d.members = 1..Size(d) /\ Size(d) \in Nat
    BY DocumentFields
  <1> HIDE DEF m, o, s
  <1>4. i = ValueOf(m, o) + 1
    BY <1>1 DEF m, o
  <1>5. SkipGap(s, i) = i /\ i <= Len(s) /\ s[i] = m.value.raw[1]
    BY <1>2, <1>4 DEF Ahead
  <1>6. s[i] \notin {RightBrace, ",", ":"}
    BY <1>2, <1>5, Distinct
  <1>7. e = TailOf(m, o) + 1
    BY <1>2, <1>4
  <1> HIDE DEF e
  <1>8. isFolders \in BOOLEAN /\ (isFolders = TRUE <=> m.key = FoldersKey)
    BY <1>1 DEF m
  <1>9. ASSUME isFolders = TRUE
        PROVE  Located(d, [first |-> i, next |-> e])
    <2>1. k \in FoldersOf(d)
      BY <1>3, <1>8, <1>9 DEF FoldersOf, m
    <2>2. [first |-> i, next |-> e] = [first |-> ValueOf(m, o) + 1, next |-> TailOf(m, o) + 1]
      BY <1>4, <1>7
    <2> QED
      BY <2>1, <2>2 DEF Located, m, o
  <1>10. ASSUME isFolders = FALSE
         PROVE  CommaNext(d, e)
    <2>1. Skipped(d, k)
      <3>1. \A j \in 1..k : j \in 1..(k - 1) \/ j = k
        BY <1>3
      <3> QED
        BY <1>1, <1>8, <1>10, <3>1 DEF Skipped, m
    <2> QED
      BY <1>7, <2>1 DEF CommaNext, m, o
  <1> QED
    BY <1>5, <1>6, <1>8, <1>9, <1>10 DEF s, e

LEMMA CommaTurn ==
    ASSUME NEW d \in ScannedDocuments, d.open = LeftBrace, NEW i, CommaNext(d, i),
           NEW h, h = SkipGap(Text(d), i)
    PROVE  /\ h <= Len(Text(d))
           /\ \/ Text(d)[h] = "," /\ KeyNext(d, h + 1)
              \/ Text(d)[h] = RightBrace /\ FoldersOf(d) = {}
  <1>1. PICK k \in 1..Size(d) : /\ i = TailOf(d.members[k], MemberAt(d, k)) + 1
                                /\ Skipped(d, k)
    BY DEF CommaNext
  <1> DEFINE m == d.members[k]
             o == MemberAt(d, k)
             s == Text(d)
             n == Size(d)
  <1>2. n \in Nat
    BY DocumentFields
  <1>3. i = TailOf(m, o) + 1
    BY <1>1
  <1>4. CASE k # n
    <2>1. Ahead(s, TailOf(m, o), ItemAt(d, k + 1), ",")
          /\ MemberAt(d, k + 1) = ItemAt(d, k + 1) + 1
      BY <1>4, CommaIsAhead
    <2> HIDE DEF m, o, s
    <2>2. h = ItemAt(d, k + 1) + 1 /\ h <= Len(s) /\ s[h] = ","
      BY <1>3, <2>1 DEF Ahead, s
    <2>3. h = MemberAt(d, k + 1)
      BY <2>1, <2>2
    <2>4. k + 1 \in 1..n /\ (k + 1) - 1 = k
      BY <1>2, <1>4
    <2>5. KeyNext(d, h + 1)
      BY <1>1, <2>3, <2>4 DEF KeyNext
    <2> QED
      BY <2>2, <2>5 DEF s
  <1>5. CASE k = n /\ d.trailing
    <2>1. Ahead(s, TailOf(m, o), TrailingAt(d), ",") /\ LastAt(d) = TrailingAt(d) + 1
      BY <1>5, CommaIsAhead
    <2> HIDE DEF m, o, s
    <2>2. h = TrailingAt(d) + 1 /\ h <= Len(s) /\ s[h] = ","
      BY <1>3, <2>1 DEF Ahead, s
    <2>3. h = LastAt(d)
      BY <2>1, <2>2
    <2>4. KeyNext(d, h + 1)
      BY <1>1, <1>5, <2>3 DEF KeyNext
    <2> QED
      BY <2>2, <2>4 DEF s
  <1>6. CASE k = n /\ ~d.trailing
    <2>1. Ahead(s, TailOf(m, o), CloseAt(d), RightBrace)
      BY <1>6, CommaIsAhead
    <2> HIDE DEF m, o, s
    <2>2. h <= Len(s) /\ s[h] = RightBrace
      BY <1>3, <2>1 DEF Ahead, s
    <2>3. FoldersOf(d) = {}
      BY <1>1, <1>6, NoFolders
    <2> QED
      BY <2>2, <2>3 DEF s
  <1> QED
    BY <1>4, <1>5, <1>6

-----------------------------------------------------------------------------
(* The inductive invariant: the text is that of the document, and the      *)
(* scanner is where the grammar says.                                      *)

ScanInv ==
    /\ doc.open = LeftBrace
    /\ found = NoMember
    /\ expect \in {"key", "colon", "value", "after"}
    /\ expect = "key" => KeyNext(doc, at)
    /\ expect = "colon" => ColonNext(doc, at, matched)
    /\ expect = "value" => ValueNext(doc, at, matched) /\ valueStart = at
    /\ expect = "after" => CommaNext(doc, at)

LocatedInv == doc.open = LeftBrace => Located(doc, found)

ScannerInv ==
    /\ doc \in ScannedDocuments
    /\ text = Text(doc)
    /\ phase = "scan" => ScanInv
    /\ phase = "located" => LocatedInv

LEMMA OpenStep ==
    ASSUME ScannerInv, Open
    PROVE  ScannerInv'
  <1>1. doc \in ScannedDocuments /\ text = Text(doc) /\ doc' = doc /\ text' = text
    BY DEF ScannerInv, Open
  <1>2. RootOpen(text) = (IF doc.open = LeftBrace THEN HeadOf(doc) ELSE 0) /\ HeadOf(doc) # 0
    BY <1>1, RootIsThere
  <1>3. CASE doc.open = LeftBrace
    <2>1. RootOpen(text) = HeadOf(doc) /\ RootOpen(text) # 0
      BY <1>2, <1>3
    <2>2. /\ phase' = "scan" /\ at' = HeadOf(doc) + 1 /\ expect' = "key" /\ found' = NoMember
      BY <2>1 DEF Open
    <2>3. KeyNext(doc, HeadOf(doc) + 1)
      BY <1>1, RootTurn
    <2>4. ScanInv'
      BY <1>1, <1>3, <2>2, <2>3 DEF ScanInv
    <2> QED
      BY <1>1, <2>2, <2>4 DEF ScannerInv
  <1>4. CASE doc.open # LeftBrace
    <2>1. phase' = "located"
      BY <1>2, <1>4 DEF Open
    <2>2. LocatedInv'
      BY <1>1, <1>4 DEF LocatedInv
    <2> QED
      BY <1>1, <2>1, <2>2 DEF ScannerInv
  <1> QED
    BY <1>3, <1>4

\* What is at the scanner's place, by its state.
LEMMA Seen ==
    ASSUME ScannerInv, phase = "scan"
    PROVE  /\ Here <= Len(text)
           /\ expect = "key" => text[Here] \in {Quote, RightBrace}
           /\ expect = "colon" => text[Here] = ":"
           /\ expect = "value" => text[Here] \notin {RightBrace, ",", ":"}
           /\ expect = "after" => text[Here] \in {",", RightBrace}
           /\ expect \in {"key", "colon", "value", "after"}
           /\ text[Here] = RightBrace => FoldersOf(doc) = {} /\ found = NoMember
  <1>1. doc \in ScannedDocuments /\ text = Text(doc) /\ ScanInv /\ doc.open = LeftBrace
        /\ found = NoMember
    BY DEF ScannerInv, ScanInv
  <1> DEFINE h == Here
  <1>2. h = SkipGap(Text(doc), at)
    BY <1>1 DEF Here
  <1>3. Quote # RightBrace /\ ":" # RightBrace /\ "," # RightBrace
    BY Distinct
  <1> HIDE DEF h
  <1>4. CASE expect = "key"
    BY <1>1, <1>2, <1>3, <1>4, KeyTurn DEF ScanInv, h
  <1>5. CASE expect = "colon"
    <2>1. ColonNext(doc, at, matched)
      BY <1>1, <1>5 DEF ScanInv
    <2> QED
      BY <1>1, <1>2, <1>3, <1>5, <2>1, ColonTurn DEF h
  <1>6. CASE expect = "value"
    <2>1. ValueNext(doc, at, matched)
      BY <1>1, <1>6 DEF ScanInv
    <2>2. SkipGap(Text(doc), at) = at /\ at <= Len(Text(doc))
          /\ Text(doc)[at] \notin {RightBrace, ",", ":"}
      BY <1>1, <2>1, ValueTurn
    <2> QED
      BY <1>1, <1>2, <1>6, <2>2 DEF h
  <1>7. CASE expect = "after"
    BY <1>1, <1>2, <1>3, <1>7, CommaTurn DEF ScanInv, h
  <1> QED
    BY <1>1, <1>4, <1>5, <1>6, <1>7 DEF ScanInv

LEMMA EndOfRootStep ==
    ASSUME ScannerInv, EndOfRoot
    PROVE  ScannerInv'
  <1>1. /\ phase = "scan" /\ phase' = "located" /\ doc' = doc /\ text' = text /\ found' = found
        /\ Here <= Len(text) => text[Here] = RightBrace
    BY DEF EndOfRoot
  <1>2. FoldersOf(doc) = {} /\ found = NoMember
    BY <1>1, Seen
  <1>3. LocatedInv'
    BY <1>1, <1>2 DEF LocatedInv, Located
  <1> QED
    BY <1>1, <1>3 DEF ScannerInv

LEMMA CommaStep ==
    ASSUME ScannerInv, Comma
    PROVE  ScannerInv'
  <1>1. /\ phase = "scan" /\ phase' = "scan" /\ doc' = doc /\ text' = text /\ found' = found
        /\ text[Here] = "," /\ expect' = "key" /\ at' = Here + 1
    BY DEF Comma, Scanning
  <1>2. doc \in ScannedDocuments /\ text = Text(doc) /\ ScanInv
    BY <1>1 DEF ScannerInv
  <1>3. "," # Quote /\ "," # RightBrace /\ "," # ":"
    BY Distinct
  <1>4. expect = "after"
    BY <1>1, <1>3, Seen
  <1>5. doc.open = LeftBrace /\ CommaNext(doc, at) /\ found = NoMember
    BY <1>2, <1>4 DEF ScanInv
  <1>6. KeyNext(doc, Here + 1)
    BY <1>1, <1>2, <1>3, <1>5, CommaTurn DEF Here
  <1>7. ScanInv'
    BY <1>1, <1>5, <1>6 DEF ScanInv
  <1> QED
    BY <1>1, <1>2, <1>7 DEF ScannerInv

LEMMA ColonStep ==
    ASSUME ScannerInv, Colon
    PROVE  ScannerInv'
  <1>1. /\ phase = "scan" /\ phase' = "scan" /\ doc' = doc /\ text' = text /\ found' = found
        /\ expect = "colon" /\ expect' = "value" /\ matched' = matched
        /\ valueStart' = SkipGap(text, Here + 1) /\ at' = valueStart'
    BY DEF Colon, Scanning
  <1>2. doc \in ScannedDocuments /\ text = Text(doc) /\ ScanInv
    BY <1>1 DEF ScannerInv
  <1>3. doc.open = LeftBrace /\ ColonNext(doc, at, matched) /\ found = NoMember
    BY <1>1, <1>2 DEF ScanInv
  <1>4. ValueNext(doc, SkipGap(text, Here + 1), matched)
    BY <1>2, <1>3, ColonTurn DEF Here
  <1>5. ScanInv'
    BY <1>1, <1>3, <1>4 DEF ScanInv
  <1> QED
    BY <1>1, <1>2, <1>5 DEF ScannerInv

LEMMA KeyStep ==
    ASSUME ScannerInv, Key
    PROVE  ScannerInv'
  <1>1. /\ phase = "scan" /\ phase' = "scan" /\ doc' = doc /\ text' = text /\ found' = found
        /\ text[Here] = Quote /\ expect = "key" /\ expect' = "colon"
        /\ at' = StringEnd(text, Here)
        /\ matched' = (SubSeq(text, Here, at' - 1) = FoldersKey)
    BY DEF Key, Scanning
  <1>2. doc \in ScannedDocuments /\ text = Text(doc) /\ ScanInv
    BY <1>1 DEF ScannerInv
  <1>3. doc.open = LeftBrace /\ KeyNext(doc, at) /\ found = NoMember
    BY <1>1, <1>2 DEF ScanInv
  <1>4. Quote # RightBrace
    BY Distinct
  <1>5. ColonNext(doc, StringEnd(text, Here),
                  SubSeq(text, Here, StringEnd(text, Here) - 1) = FoldersKey)
    BY <1>1, <1>2, <1>3, <1>4, KeyTurn DEF Here
  <1>6. matched' = (SubSeq(text, Here, StringEnd(text, Here) - 1) = FoldersKey)
    BY <1>1
  <1>7. ColonNext(doc, at', matched')
    BY <1>1, <1>5, <1>6
  <1>8. ScanInv'
    BY <1>1, <1>3, <1>7 DEF ScanInv
  <1> QED
    BY <1>1, <1>2, <1>8 DEF ScannerInv

LEMMA ValueStep ==
    ASSUME ScannerInv, Value
    PROVE  ScannerInv'
  <1>1. /\ phase = "scan" /\ doc' = doc /\ text' = text /\ expect = "value"
    BY DEF Value, Scanning
  <1>2. doc \in ScannedDocuments /\ text = Text(doc) /\ ScanInv
    BY <1>1 DEF ScannerInv
  <1>3. doc.open = LeftBrace /\ ValueNext(doc, at, matched) /\ valueStart = at
        /\ found = NoMember
    BY <1>1, <1>2 DEF ScanInv
  <1>4. /\ SkipGap(text, at) = at
        /\ matched \in BOOLEAN
        /\ matched = TRUE => Located(doc, [first |-> at, next |-> ValueEnd(text, at)])
        /\ matched = FALSE => CommaNext(doc, ValueEnd(text, at))
    BY <1>2, <1>3, ValueTurn
  <1>5. Here = at
    BY <1>4 DEF Here
  <1>6. CASE matched = TRUE
    <2>1. phase' = "located" /\ found' = [first |-> at, next |-> ValueEnd(text, at)]
      BY <1>3, <1>5, <1>6 DEF Value
    <2>2. LocatedInv'
      BY <1>1, <1>4, <1>6, <2>1 DEF LocatedInv
    <2> QED
      BY <1>1, <1>2, <2>1, <2>2 DEF ScannerInv
  <1>7. CASE matched = FALSE
    <2>1. phase' = "scan" /\ found' = found /\ at' = ValueEnd(text, at) /\ expect' = "after"
      BY <1>1, <1>5, <1>7 DEF Value
    <2>2. ScanInv'
      BY <1>1, <1>3, <1>4, <1>7, <2>1 DEF ScanInv
    <2> QED
      BY <1>1, <1>2, <2>1, <2>2 DEF ScannerInv
  <1> QED
    BY <1>4, <1>6, <1>7

\* In JSON there is nothing to be stepped over.
LEMMA NoStepOver ==
    ASSUME ScannerInv, StepOver
    PROVE  FALSE
  <1>1. /\ phase = "scan" /\ text[Here] \notin {RightBrace, ","}
        /\ \/ text[Here] = ":" /\ expect # "colon"
           \/ text[Here] \notin {":", Quote} /\ expect = "key"
           \/ text[Here] # ":" /\ expect \in {"colon", "after"}
    BY DEF StepOver, Scanning
  <1>2. Quote # ":" /\ RightBrace # ":" /\ "," # ":"
    BY Distinct
  <1> QED
    BY <1>1, <1>2, Seen

-----------------------------------------------------------------------------
(* What splice_folders() does to the text, and to the document.            *)

\* The first p characters of a text, and those behind them.
Before(s, p) == SubSeq(s, 1, p)
After(s, p) == SubSeq(s, p + 1, Len(s))

LEMMA Cut ==
    ASSUME NEW a \in Texts, NEW b \in Texts
    PROVE  Before(Then(a, b), Len(a)) = a /\ After(Then(a, b), Len(a)) = b
  <1> DEFINE s == a \o b
  <1>1. s \in Texts /\ Len(s) = Len(a) + Len(b) /\ Len(a) \in Nat /\ Len(b) \in Nat
        /\ (\A k \in 1..Len(a) : s[k] = a[k]) /\ (\A k \in 1..Len(b) : s[Len(a) + k] = b[k])
    BY DEF Texts
  <1> HIDE DEF s
  <1>2. SubSeq(s, 1, Len(a)) = a
    <2> DEFINE u == SubSeq(s, 1, Len(a))
    <2>1. u \in Texts /\ Len(u) = Len(a) /\ \A k \in 1..Len(a) : u[k] = s[k]
      BY <1>1 DEF Texts
    <2>2. \A k \in 1..Len(a) : u[k] = a[k]
      BY <1>1, <2>1
    <2> HIDE DEF u
    <2>3. u = a
      BY <2>1, <2>2, SeqEqual DEF Texts
    <2> QED
      BY <2>3 DEF u
  <1>3. SubSeq(s, Len(a) + 1, Len(s)) = b
    <2> DEFINE u == SubSeq(s, Len(a) + 1, Len(s))
    <2>1. u \in Texts /\ Len(u) = Len(b) /\ \A k \in 1..Len(b) : u[k] = s[Len(a) + k]
      BY <1>1 DEF Texts
    <2>2. \A k \in 1..Len(b) : u[k] = b[k]
      BY <1>1, <2>1
    <2> HIDE DEF u
    <2>3. u = b
      BY <2>1, <2>2, SeqEqual DEF Texts
    <2> QED
      BY <2>3 DEF u
  <1> QED
    BY <1>2, <1>3 DEF s, Then, Before, After

LEMMA CutOut ==
    ASSUME NEW a \in Texts, NEW v \in Texts, NEW b \in Texts
    PROVE  /\ Before(Then(Then(a, v), b), Past(0, a)) = a
           /\ After(Then(Then(a, v), b), Past(Past(0, a), v)) = b
  <1> DEFINE u == Then(a, v)
             w == Then(v, b)
  <1>1. u \in Texts /\ w \in Texts /\ Then(u, b) = Then(a, w)
    BY ThenIsText
  <1>2. Len(a) \in Nat /\ Len(v) \in Nat /\ Len(u) = Len(a) + Len(v)
    BY DEF Then, Texts
  <1> HIDE DEF u, w
  <1>3. Past(0, a) = Len(a) /\ Past(Past(0, a), v) = Len(u)
    BY <1>2 DEF Past
  <1>4. Before(Then(a, w), Len(a)) = a
    BY <1>1, Cut
  <1>5. After(Then(u, b), Len(u)) = b
    BY <1>1, Cut
  <1> QED
    BY <1>1, <1>3, <1>4, <1>5 DEF u

\* Whether the object has nothing in it, and nothing but spaces.
LEMMA EmptyObject ==
    ASSUME NEW r \in Texts, NEW g \in Gaps, Holds(r, 0, g),
           NEW c \in Characters \ White, Holds(r, Past(0, g), <<c>>)
    PROVE  IsEmptyObject(r) <=> c \in Closing /\ \A j \in DOMAIN g : g[j] = Space
  <1> DEFINE n == Len(r)
             l == Len(g)
             p == l + 1
             full == {j \in 1..n : r[j] \notin White}
             ahead == {j \in 1..n : r[j] # Space}
             e == Min(ahead \cup {n + 1})
  <1>1. g \in Texts /\ g \in GapFronts /\ l \in Nat /\ n \in Nat /\ DOMAIN g = 1..l
    BY GapBegins DEF Gaps, Texts
  <1>2. p \in 1..n /\ r[p] = c
    <2>1. Past(0, g) \in Nat /\ Past(0, g) + 1 = p
      BY <1>1 DEF Past
    <2>2. p <= n /\ r[p] = c
      BY <2>1, HoldsOne
    <2> QED
      BY <1>1, <2>2
  <1>3. \A k \in 1..l : r[k] = g[k] /\ k \in 1..n
    <2>1. \A k \in 1..l : 0 + k = k
      BY <1>1
    <2> QED
      BY <1>1, <1>2, <2>1 DEF Holds
  <1>4. p \in full /\ p \in ahead
    BY <1>2 DEF White
  <1>5. ~(FirstAt(r, 1, LAMBDA j : r[j] \notin White) > Len(r))
    <2>1. FirstAt(r, 1, LAMBDA j : r[j] \notin White) = Min(full \cup {n + 1})
      BY DEF FirstAt
    <2>2. full \cup {n + 1} \in SUBSET Nat /\ p \in full \cup {n + 1}
      BY <1>1, <1>4
    <2> HIDE DEF full
    <2>3. Min(full \cup {n + 1}) <= p /\ Min(full \cup {n + 1}) \in Nat
      BY <2>2, MinIsLeast
    <2> QED
      BY <1>1, <1>2, <2>1, <2>3
  <1>6. FirstAt(r, 1, LAMBDA j : r[j] # Space) = e
    BY DEF FirstAt
  <1>7. e \in 1..p /\ r[e] # Space /\ \A k \in 1..(e - 1) : r[k] = Space
    <2> DEFINE S == ahead \cup {n + 1}
    <2>1. S \in SUBSET Nat /\ p \in S
      BY <1>1, <1>4
    <2>2. e \in S /\ \A y \in S : e <= y
      <3> HIDE DEF S
      <3>1. Min(S) \in S /\ \A y \in S : Min(S) <= y
        BY <2>1, MinIsLeast
      <3> QED
        BY <3>1 DEF S
    <2>3. e <= p
      BY <2>1, <2>2
    <2>4. e \in ahead
      BY <1>1, <1>2, <2>2, <2>3
    <2> HIDE DEF e
    <2>5. e \in 1..p /\ r[e] # Space
      BY <1>2, <2>3, <2>4
    <2>6. ASSUME NEW k \in 1..(e - 1)
          PROVE  r[k] = Space
      <3>1. k \in 1..n /\ ~(e <= k)
        BY <1>1, <1>2, <2>5
      <3>2. k \notin S
        BY <2>2, <3>1
      <3> QED
        BY <3>1, <3>2
    <2> QED
      BY <2>5, <2>6
  <1>8. IsEmptyObject(r) <=> ClosesNext(r, e)
    BY <1>5, <1>6 DEF IsEmptyObject
  <1> HIDE DEF e, full, ahead
  <1>9. CASE e = p
    <2>1. ClosesNext(r, e) <=> c \in Closing
      BY <1>1, <1>2, <1>9 DEF ClosesNext
    <2>2. \A j \in 1..l : g[j] = Space
      BY <1>1, <1>3, <1>7, <1>9
    <2> QED
      BY <1>1, <1>8, <2>1, <2>2
  <1>10. CASE e # p
    <2>1. e \in 1..l /\ \A k \in 1..(e - 1) : k \in 1..l
      BY <1>1, <1>7, <1>10
    <2>2. g[e] # Space /\ \A k \in 1..(e - 1) : g[k] \in White
      BY <1>3, <1>7, <2>1 DEF White
    <2>3. g[e] \in White \cup {"/"}
      BY <1>1, <2>1, <2>2 DEF GapFronts
    <2>4. r[e] \notin Closing
      BY <1>3, <2>1, <2>3, Distinct
    <2> QED
      BY <1>1, <1>8, <2>1, <2>2, <2>4 DEF ClosesNext
  <1> QED
    BY <1>9, <1>10

LEMMA Frames ==
    /\ \A c, a, v, b \in Texts : Then(c, Then(Then(a, v), b)) = Then(Then(Then(c, a), v), b)
    /\ \A a, v, b, c \in Texts : Then(Then(Then(a, v), b), c) = Then(Then(a, v), Then(b, c))
  <1>1. ASSUME NEW c \in Texts, NEW a \in Texts, NEW v \in Texts, NEW b \in Texts
        PROVE  Then(c, Then(Then(a, v), b)) = Then(Then(Then(c, a), v), b)
    <2>1. Then(c, a) \in Texts /\ Then(a, v) \in Texts /\ Then(v, b) \in Texts
      BY ThenIsText
    <2>2. Then(c, Then(Then(a, v), b)) = Then(Then(c, Then(a, v)), b)
      BY <2>1, ThenIsText
    <2>3. Then(c, Then(a, v)) = Then(Then(c, a), v)
      BY <2>1, ThenIsText
    <2> QED
      BY <2>2, <2>3
  <1>2. ASSUME NEW a \in Texts, NEW v \in Texts, NEW b \in Texts, NEW c \in Texts
        PROVE  Then(Then(Then(a, v), b), c) = Then(Then(a, v), Then(b, c))
    <2>1. Then(a, v) \in Texts
      BY ThenIsText
    <2> QED
      BY <2>1, ThenIsText
  <1> QED
    BY <1>1, <1>2

\* What is in front of the value, in a member.
FrontOf(m) == Then(Then(Then(Then(m.lead, m.key), m.mid), <<":">>), m.post)

LEMMA FrontIsThere ==
    ASSUME NEW m \in Members, NEW o \in Nat
    PROVE  FrontOf(m) \in Texts /\ Past(o, FrontOf(m)) = ValueOf(m, o)
  <1> DEFINE t1 == Then(m.lead, m.key)
             t2 == Then(t1, m.mid)
             t3 == Then(t2, <<":">>)
             t4 == Then(t3, m.post)
  <1>0. /\ m.lead \in Texts /\ m.key \in Texts /\ m.mid \in Texts /\ <<":">> \in Texts
        /\ m.post \in Texts /\ o \in Nat
    BY MemberFields
  <1>1. t1 \in Texts /\ Past(o, t1) = MidOf(m, o)
    <2>1. t1 \in Texts
      BY <1>0, ThenIsText
    <2>2. Past(o, t1) = Past(Past(o, m.lead), m.key)
      BY <1>0, HoldsThen
    <2> QED
      BY <2>1, <2>2 DEF MidOf, KeyOf
  <1> HIDE DEF t1
  <1>2. t2 \in Texts /\ Past(o, t2) = ColonOf(m, o)
    <2>1. t2 \in Texts
      BY <1>0, <1>1, ThenIsText
    <2>2. Past(o, t2) = Past(Past(o, t1), m.mid)
      BY <1>0, <1>1, HoldsThen
    <2> QED
      BY <1>1, <2>1, <2>2 DEF ColonOf
  <1> HIDE DEF t2
  <1>3. t3 \in Texts /\ Past(o, t3) = PostOf(m, o)
    <2>1. t3 \in Texts
      BY <1>0, <1>2, ThenIsText
    <2>2. Past(o, t3) = Past(Past(o, t2), <<":">>)
      BY <1>0, <1>2, HoldsThen
    <2> QED
      BY <1>2, <2>1, <2>2 DEF PostOf
  <1> HIDE DEF t3
  <1>4. t4 \in Texts /\ Past(o, t4) = ValueOf(m, o)
    <2>1. t4 \in Texts
      BY <1>0, <1>3, ThenIsText
    <2>2. Past(o, t4) = Past(Past(o, t3), m.post)
      BY <1>0, <1>3, HoldsThen
    <2> QED
      BY <1>3, <2>1, <2>2 DEF ValueOf
  <1>5. FrontOf(m) = t4
    BY DEF FrontOf, t1, t2, t3
  <1> QED
    BY <1>4, <1>5

\* What is around the members of a document.
RootOf(d) == Then(d.before, <<d.open>>)

Behind(d, y) == Then(Then(Then(Then(y, TrailingComma(d)), d.last), <<d.close>>), d.after)

LEMMA RootOfIsText ==
    ASSUME NEW d \in ScannedDocuments
    PROVE  RootOf(d) \in Texts /\ Past(0, RootOf(d)) = HeadOf(d)
  <1>1. d.before \in Texts /\ <<d.open>> \in Texts /\ 0 \in Nat
    BY DocumentFields
  <1>2. RootOf(d) \in Texts
    BY <1>1, ThenIsText DEF RootOf
  <1>3. Past(0, RootOf(d)) = Past(Past(0, d.before), <<d.open>>)
    BY <1>1, HoldsThen DEF RootOf
  <1> QED
    BY <1>2, <1>3 DEF HeadOf

LEMMA FramedText ==
    ASSUME NEW d \in ScannedDocuments, NEW x \in Texts, NEW v \in Texts, NEW y \in Texts
    PROVE  /\ Behind(d, Then(RootOf(d), Then(Then(x, v), y)))
                 = Then(Then(Then(RootOf(d), x), v), Behind(d, y))
           /\ Behind(d, y) \in Texts
  <1> DEFINE h == RootOf(d)
             t1 == TrailingComma(d)
             t2 == d.last
             t3 == <<d.close>>
             t4 == d.after
             a == Then(h, x)
             y1 == Then(y, t1)
             y2 == Then(y1, t2)
             y3 == Then(y2, t3)
             y4 == Then(y3, t4)
             f == Then(h, Then(Then(x, v), y))
  <1>0. h \in Texts /\ t1 \in Texts /\ t2 \in Texts /\ t3 \in Texts /\ t4 \in Texts
    BY DocumentFields, RootOfIsText
  <1>10. Behind(d, y) = y4 /\ Behind(d, f) = Then(Then(Then(Then(f, t1), t2), t3), t4)
    BY DEF Behind
  <1> HIDE DEF h, t1, t2, t3, t4
  <1>1. a \in Texts /\ y1 \in Texts
    BY <1>0, ThenIsText
  <1>2. f = Then(Then(a, v), y)
    BY <1>0, Frames
  <1> HIDE DEF a, f
  <1>3. Then(f, t1) = Then(Then(a, v), y1)
    BY <1>0, <1>1, <1>2, Frames
  <1> HIDE DEF y1
  <1>4. y2 \in Texts
    BY <1>0, <1>1, ThenIsText
  <1>5. Then(Then(f, t1), t2) = Then(Then(a, v), y2)
    BY <1>0, <1>1, <1>3, Frames
  <1> HIDE DEF y2
  <1>6. y3 \in Texts
    BY <1>0, <1>4, ThenIsText
  <1>7. Then(Then(Then(f, t1), t2), t3) = Then(Then(a, v), y3)
    BY <1>0, <1>1, <1>4, <1>5, Frames
  <1> HIDE DEF y3
  <1>8. Then(Then(Then(Then(f, t1), t2), t3), t4) = Then(Then(a, v), y4)
    BY <1>0, <1>1, <1>6, <1>7, Frames
  <1>9. y4 \in Texts
    BY <1>0, <1>6, ThenIsText
  <1> QED
    BY <1>8, <1>9, <1>10 DEF a, f, h

IsFramed(d, x, v, y) ==
    Behind(d, Then(RootOf(d), Then(Then(x, v), y)))
        = Then(Then(Then(RootOf(d), x), v), Behind(d, y))

LEMMA PieceIsFramed ==
    ASSUME NEW d \in ScannedDocuments, NEW x \in Texts, NEW v \in Texts, NEW y \in Texts
    PROVE  IsFramed(d, x, v, y)
  BY FramedText DEF IsFramed

LEMMA TextIsFramed ==
    ASSUME NEW d
    PROVE  Text(d) = Behind(d, Then(RootOf(d), FlattenSeq(Items(d))))
  BY TextIs DEF Behind, RootOf

\* Two documents that differ in one value have texts that differ in it.
LEMMA ValueIsReplaced ==
    ASSUME NEW d \in ScannedDocuments, NEW e \in ScannedDocuments, NEW k \in 1..Size(d),
           e.before = d.before, e.open = d.open, e.trailing = d.trailing,
           e.last = d.last, e.close = d.close, e.after = d.after, Size(e) = Size(d),
           \A j \in 1..Size(d) : j # k => e.members[j] = d.members[j],
           FrontOf(e.members[k]) = FrontOf(d.members[k]),
           e.members[k].tail = d.members[k].tail
    PROVE  \E a, b \in Texts :
              /\ Past(0, a) = ValueOf(d.members[k], MemberAt(d, k))
              /\ Text(d) = Then(Then(a, d.members[k].value.raw), b)
              /\ Text(e) = Then(Then(a, e.members[k].value.raw), b)
  <1> DEFINE q == Items(d)
             r == Items(e)
             m == d.members[k]
             w == e.members[k]
             comma == IF k = 1 THEN <<>> ELSE <<",">>
             part == Parts(q)[k - 1]
             front == Then(comma, FrontOf(m))
             H == RootOf(d)
  <1>1. q \in Seq(Texts) /\ Len(q) = Size(d) /\ m \in Members
    BY DocumentFields
  <1>2. r \in Seq(Texts) /\ Len(r) = Size(d) /\ w \in Members
    BY DocumentFields
  <1>3. k \in 1..Len(q) /\ k \in 1..Len(r) /\ Size(d) \in Nat
    BY <1>1, <1>2, DocumentFields
  <1>4. q[k] = Then(comma, MemberText(m)) /\ r[k] = Then(comma, MemberText(w))
    BY DocumentFields
  <1>5. \A j \in 1..Size(d) : j # k => r[j] = q[j]
    <2> SUFFICES ASSUME NEW j \in 1..Size(d), j # k
                 PROVE  r[j] = q[j]
      OBVIOUS
    <2>1. q[j] = Then(IF j = 1 THEN <<>> ELSE <<",">>, MemberText(d.members[j]))
      BY DocumentFields
    <2>2. r[j] = Then(IF j = 1 THEN <<>> ELSE <<",">>, MemberText(e.members[j]))
      BY DocumentFields
    <2>3. e.members[j] = d.members[j]
      OBVIOUS
    <2> QED
      BY <2>1, <2>2, <2>3
  <1>6. comma \in Texts /\ part \in Texts
    <2>1. comma \in Texts
      BY DocumentFields
    <2>2. k - 1 \in 0..Len(q)
      BY <1>3
    <2>3. part \in Texts
      BY <1>1, <2>2, PartsAre
    <2> QED
      BY <2>1, <2>3
  <1> HIDE DEF q, r, comma, part
  <1>7. r = [q EXCEPT ![k] = r[k]] /\ q = [q EXCEPT ![k] = q[k]]
    <2> DEFINE u == [q EXCEPT ![k] = r[k]]
    <2>1. r[k] \in Texts
      BY <1>2, <1>3
    <2>2. u \in Seq(Texts) /\ Len(u) = Size(d) /\ \A j \in 1..Size(d) : u[j] = r[j]
      BY <1>1, <1>3, <1>5, <2>1
    <2> HIDE DEF u
    <2>3. r = u
      BY <1>2, <2>2, SeqEqual
    <2>4. q = [q EXCEPT ![k] = q[k]]
      BY <1>1, <1>3
    <2> QED
      BY <2>3, <2>4 DEF u
  <1>8. PICK b0 \in Texts : \A v \in Texts :
           FlattenSeq([q EXCEPT ![k] = v]) = Then(Then(part, v), b0)
    BY <1>1, <1>3, FlattenReplaces DEF part
  <1>9. q[k] \in Texts /\ r[k] \in Texts
    BY <1>1, <1>2, <1>3
  <1>10. FlattenSeq(q) = Then(Then(part, q[k]), b0)
         /\ FlattenSeq(r) = Then(Then(part, r[k]), b0)
    BY <1>7, <1>8, <1>9
  <1>11. /\ FrontOf(m) \in Texts /\ m.value.raw \in Texts /\ m.tail \in Texts
         /\ w.value.raw \in Texts
         /\ front \in Texts
    <2>1. FrontOf(m) \in Texts
      <3>1. 0 \in Nat
        OBVIOUS
      <3> QED
        BY <1>1, <3>1, FrontIsThere
    <2>2. m.value.raw \in Texts /\ m.tail \in Texts
      BY <1>1, MemberFields
    <2>3. w.value.raw \in Texts
      BY <1>2, MemberFields
    <2>4. front \in Texts
      BY <1>6, <2>1, ThenIsText
    <2> QED
      BY <2>1, <2>2, <2>3, <2>4
  <1>12. /\ MemberText(m) = Then(Then(FrontOf(m), m.value.raw), m.tail)
         /\ MemberText(w) = Then(Then(FrontOf(m), w.value.raw), m.tail)
    <2>1. w.tail = m.tail /\ FrontOf(w) = FrontOf(m)
      OBVIOUS
    <2>2. \A x : MemberText(x) = Then(Then(FrontOf(x), x.value.raw), x.tail)
      BY DEF MemberText, FrontOf
    <2> HIDE DEF m, w
    <2> QED
      BY <2>1, <2>2
  <1> DEFINE X == Then(part, front)
             Y == Then(m.tail, b0)
  <1>13. ASSUME NEW v \in Texts, NEW t, t = Then(comma, Then(Then(FrontOf(m), v), m.tail))
         PROVE  Then(Then(part, t), b0) = Then(Then(X, v), Y)
    <2>1. t = Then(Then(front, v), m.tail)
      <3> HIDE DEF m
      <3>1. Then(comma, Then(Then(FrontOf(m), v), m.tail))
               = Then(Then(Then(comma, FrontOf(m)), v), m.tail)
        BY <1>6, <1>11, Frames, SMTT(30)
      <3> QED
        BY <1>13, <3>1
    <2> HIDE DEF m, front
    <2>2. Then(part, t) = Then(Then(X, v), m.tail)
      BY <1>6, <1>11, <2>1, Frames, SMTT(30)
    <2>3. X \in Texts
      BY <1>6, <1>11, ThenIsText
    <2> HIDE DEF X
    <2> QED
      BY <1>8, <1>11, <2>2, <2>3, Frames
  <1>14. FlattenSeq(q) = Then(Then(X, m.value.raw), Y)
         /\ FlattenSeq(r) = Then(Then(X, w.value.raw), Y)
    <2>1. q[k] = Then(comma, Then(Then(FrontOf(m), m.value.raw), m.tail))
      BY <1>4, <1>12
    <2>2. r[k] = Then(comma, Then(Then(FrontOf(m), w.value.raw), m.tail))
      BY <1>4, <1>12
    <2> HIDE DEF m, w, X, Y, front
    <2> QED
      BY <1>10, <1>11, <1>13, <2>1, <2>2
  <1>15. H \in Texts
    BY RootOfIsText
  <1>16. X \in Texts /\ Y \in Texts
    <2> HIDE DEF front, m
    <2>1. X \in Texts
      BY <1>6, <1>11, ThenIsText
    <2>2. Y \in Texts
      BY <1>8, <1>11, ThenIsText
    <2> QED
      BY <2>1, <2>2
  <1> DEFINE A == Then(H, X)
             B == Behind(d, Y)
  <1>17. Text(d) = Then(Then(A, m.value.raw), B)
    <2>1. Text(d) = Behind(d, Then(H, FlattenSeq(q)))
      BY TextIsFramed DEF q
    <2>2. m.value.raw \in Texts
      BY <1>11
    <2> HIDE DEF X, Y, m
    <2>3. Behind(d, Then(H, Then(Then(X, m.value.raw), Y))) = Then(Then(A, m.value.raw), B)
      BY <1>16, <2>2, FramedText
    <2> QED
      BY <1>14, <2>1, <2>3
  <1>18. Text(e) = Then(Then(A, w.value.raw), B)
    <2>1. Text(e) = Behind(d, Then(H, FlattenSeq(r)))
      <3>1. TrailingComma(e) = TrailingComma(d)
        BY DEF TrailingComma
      <3>2. \A y : Behind(e, y) = Behind(d, y)
        BY <3>1 DEF Behind
      <3>3. RootOf(e) = H
        BY DEF RootOf
      <3>4. Text(e) = Behind(e, Then(RootOf(e), FlattenSeq(r)))
        BY TextIsFramed DEF r
      <3> QED
        BY <3>2, <3>3, <3>4
    <2>2. w.value.raw \in Texts
      BY <1>11
    <2> HIDE DEF X, Y, m, w
    <2>3. Behind(d, Then(H, Then(Then(X, w.value.raw), Y))) = Then(Then(A, w.value.raw), B)
      BY <1>16, <2>2, FramedText
    <2> QED
      BY <1>14, <2>1, <2>3
  <1>19. A \in Texts /\ B \in Texts
    <2> HIDE DEF H, X, Y
    <2>1. A \in Texts
      BY <1>15, <1>16, ThenIsText
    <2>2. B \in Texts
      BY <1>16, FramedText
    <2> QED
      BY <2>1, <2>2
  <1>20. Past(0, A) = ValueOf(m, MemberAt(d, k))
    <2>1. 0 \in Nat /\ HeadOf(d) \in Nat /\ ItemAt(d, k) \in Nat /\ MemberAt(d, k) \in Nat
      BY DocumentOffsets
    <2>2. Past(0, H) = HeadOf(d)
      BY RootOfIsText
    <2> HIDE DEF H
    <2>3. Past(0, A) = Past(HeadOf(d), X)
      <3> HIDE DEF X
      <3> QED
        BY <1>15, <1>16, <2>1, <2>2, HoldsThen
    <2>4. Past(HeadOf(d), X) = Past(ItemAt(d, k), front)
      <3> HIDE DEF front
      <3>1. Past(HeadOf(d), X) = Past(Past(HeadOf(d), part), front)
        BY <1>6, <1>11, <2>1, HoldsThen
      <3>2. ItemAt(d, k) = Past(HeadOf(d), part)
        BY DEF ItemAt, part, q
      <3> QED
        BY <3>1, <3>2
    <2>5. Past(ItemAt(d, k), front) = Past(MemberAt(d, k), FrontOf(m))
      <3> HIDE DEF m
      <3>1. Past(ItemAt(d, k), front) = Past(Past(ItemAt(d, k), comma), FrontOf(m))
        BY <1>6, <1>11, <2>1, HoldsThen
      <3>2. MemberAt(d, k) = Past(ItemAt(d, k), comma)
        BY DEF MemberAt, comma
      <3> QED
        BY <3>1, <3>2
    <2>6. Past(MemberAt(d, k), FrontOf(m)) = ValueOf(m, MemberAt(d, k))
      BY <1>1, <2>1, FrontIsThere
    <2> QED
      BY <2>3, <2>4, <2>5, <2>6
  <1> HIDE DEF A, B
  <1> QED
    BY <1>17, <1>18, <1>19, <1>20

\* The lists of paths.
Lists == Seq(Texts)

\* The value that is written, as it is in a document.
FoldersValue(list) == [raw |-> RenderFolders(list), strict |-> RenderFolders(list)]

FoldersMember(list) ==
    [lead |-> <<Newline>>, key |-> FoldersKey, mid |-> <<>>, post |-> <<Space>>,
     value |-> FoldersValue(list), tail |-> <<>>]

LEMMA FoldersValueIsScanned ==
    ASSUME NEW list \in Lists
    PROVE  /\ FoldersValue(list) \in [raw : ScannedValues, strict : Texts]
           /\ FoldersValue(list).raw = RenderFolders(list)
           /\ RenderFolders(list) \in Texts
  <1>1. RenderFolders(list) \in ScannedValues
    BY RenderFoldersIsBracketed DEF ScannedValues, Lists
  <1>2. RenderFolders(list) \in Texts
    BY <1>1, ValueIsScanned
  <1> QED
    BY <1>1, <1>2 DEF FoldersValue

\* Gaps of one character, and a line break in front of a gap.
LEMMA BlankGaps ==
    /\ <<>> \in Gaps /\ <<Newline>> \in Gaps /\ <<Space>> \in Gaps
    /\ \A g \in Gaps : Then(<<Newline>>, g) \in Gaps
  <1>1. ASSUME NEW c \in White, NEW g \in Gaps
        PROVE  Cons(c, g) \in Gaps
    <2>1. g \in Texts /\ c \in Characters
      <3>1. c \in Characters
        BY SyntaxIsText
      <3>2. g \in Texts
        BY DEF Gaps
      <3> QED
        BY <3>1, <3>2
    <2>2. Cons(c, g) \in Texts
      BY <2>1, ConsIsText
    <2>3. ASSUME NEW G \in SUBSET Texts, MakesGaps(G)
          PROVE  Cons(c, g) \in G
      <3>1. g \in G
        BY <2>3 DEF Gaps
      <3> QED
        BY <2>3, <3>1 DEF MakesGaps
    <2> QED
      BY <2>2, <2>3 DEF Gaps
  <1>2. Newline \in White /\ Space \in White
    BY Distinct
  <1>3. ASSUME NEW c \in White
        PROVE  <<c>> \in Gaps
    <2>1. Cons(c, <<>>) \in Gaps
      BY <1>1, NothingIsGap
    <2>2. c \in Characters
      BY SyntaxIsText
    <2>3. <<c>> \in Texts
      BY <2>2, IsThen
    <2>4. Cons(c, <<>>) = <<c>>
      BY <2>3, ThenIsText, IsThen
    <2> QED
      BY <2>1, <2>4
  <1>4. \A g \in Gaps : Then(<<Newline>>, g) \in Gaps
    BY <1>1, <1>2, IsThen
  <1> QED
    BY <1>2, <1>3, <1>4, NothingIsGap

LEMMA FoldersMemberIsScanned ==
    ASSUME NEW list \in Lists
    PROVE  FoldersMember(list) \in Members /\ FoldersMember(list).key = FoldersKey
  BY FoldersValueIsScanned, KeysAreQuoted, BlankGaps DEF FoldersMember, Members, MembersOf

LEMMA SpliceReplaces ==
    ASSUME NEW d \in ScannedDocuments, d.open = LeftBrace, NEW list \in Lists,
           NEW k \in FoldersOf(d), NEW member,
           member = [first |-> ValueOf(d.members[k], MemberAt(d, k)) + 1,
                     next |-> TailOf(d.members[k], MemberAt(d, k)) + 1]
    PROVE  /\ WithFolders(d, list) \in ScannedDocuments
           /\ SpliceFolders(Text(d), member, list) = Text(WithFolders(d, list))
  <1> DEFINE n == Size(d)
             m == d.members[k]
             w == [m EXCEPT !.value = FoldersValue(list)]
             M == [j \in 1..n |-> IF j = k THEN w ELSE d.members[j]]
             e == [d EXCEPT !.members = M]
             R == RenderFolders(list)
  <1>1. /\ d.members \in Seq(Members) /\ n \in Nat /\ DOMAIN d.members = 1..n
        /\ \A j \in 1..n : d.members[j] \in Members
    BY DocumentFields
  <1>2. k \in 1..n /\ \A j \in FoldersOf(d) : j = k
    <2>1. \A i, j \in FoldersOf(d) : i = j
      BY DEF ScannedDocuments, DocumentsOf
    <2>2. k \in 1..n
      BY <1>1 DEF FoldersOf
    <2> QED
      BY <2>1, <2>2
  <1>3. m \in Members /\ m.key = FoldersKey
    BY <1>1, <1>2 DEF FoldersOf
  <1>4. WithFolders(d, list) = e
    <2>1. FoldersOf(d) # {}
      OBVIOUS
    <2>2. WithFolders(d, list) =
             [d EXCEPT !.members = [j \in DOMAIN @ |->
                 IF j \in FoldersOf(d) THEN [@[j] EXCEPT !.value = FoldersValue(list)]
                       ELSE @[j]]]
      BY <2>1 DEF WithFolders, FoldersValue
    <2>3. [j \in DOMAIN d.members |->
              IF j \in FoldersOf(d) THEN [d.members[j] EXCEPT !.value = FoldersValue(list)]
                                    ELSE d.members[j]] = M
      BY <1>1, <1>2
    <2> QED
      BY <2>2, <2>3
  <1>5. /\ w \in Members /\ w.value.raw = R /\ w.tail = m.tail /\ w.key = m.key
        /\ FrontOf(w) = FrontOf(m)
    <2>1. FoldersValue(list) \in [raw : ScannedValues, strict : Texts]
          /\ FoldersValue(list).raw = R
      BY FoldersValueIsScanned
    <2> HIDE DEF m, R
    <2>2. /\ w.lead = m.lead /\ w.key = m.key /\ w.mid = m.mid /\ w.post = m.post
          /\ w.tail = m.tail /\ w.value = FoldersValue(list)
      BY <1>3 DEF Members, MembersOf
    <2>3. w \in Members
      BY <1>3, <2>1 DEF Members, MembersOf
    <2>4. FrontOf(w) = FrontOf(m)
      BY <2>2 DEF FrontOf
    <2> QED
      BY <2>1, <2>2, <2>3, <2>4
  <1> HIDE DEF w, n
  <1>6. M \in Seq(Members) /\ Len(M) = n
        /\ \A j \in 1..n : M[j] = IF j = k THEN w ELSE d.members[j]
    <2>1. M \in [1..n -> Members]
      BY <1>1, <1>5
    <2> QED
      BY <1>1, <2>1
  <1> HIDE DEF M
  <1>7. /\ e.before = d.before /\ e.open = d.open /\ e.trailing = d.trailing /\ e.last = d.last
        /\ e.close = d.close /\ e.after = d.after /\ e.members = M
        /\ e \in [before : Gaps, open : {LeftBrace, "["}, members : Seq(Members),
                  trailing : BOOLEAN, last : Gaps, close : Closing, after : Texts]
    <2>1. d \in [before : Gaps, open : {LeftBrace, "["}, members : Seq(Members),
                 trailing : BOOLEAN, last : Gaps, close : Closing, after : Texts]
      BY DEF ScannedDocuments, DocumentsOf, Members
    <2> QED
      BY <1>6, <2>1
  <1> HIDE DEF e
  <1>8. e \in ScannedDocuments
    <2>1. d.close = RightBrace
      BY DEF ScannedDocuments, DocumentsOf
    <2>2. M # <<>>
      BY <1>2, <1>6
    <2>3. FoldersOf(e) \subseteq FoldersOf(d)
      <3>1. \A j \in 1..n : M[j].key = d.members[j].key
        BY <1>5, <1>6
      <3>2. DOMAIN M = 1..n
        BY <1>1, <1>6
      <3> QED
        BY <1>1, <1>7, <3>1, <3>2 DEF FoldersOf
    <2>4. \A i, j \in FoldersOf(e) : i = j
      BY <1>2, <2>3
    <2> QED
      BY <1>7, <2>1, <2>2, <2>4 DEF ScannedDocuments, DocumentsOf, Members
  <1>9. PICK a, b \in Texts : /\ Past(0, a) = ValueOf(m, MemberAt(d, k))
                              /\ Text(d) = Then(Then(a, m.value.raw), b)
                              /\ Text(e) = Then(Then(a, R), b)
    <2>1. Size(e) = Size(d)
      BY <1>6, <1>7 DEF Size, n
    <2>2. \A j \in 1..Size(d) : j # k => e.members[j] = d.members[j]
      BY <1>6, <1>7 DEF n
    <2>3. e.members[k] = w /\ k \in 1..Size(d)
      BY <1>2, <1>6, <1>7 DEF n
    <2>4. FrontOf(e.members[k]) = FrontOf(m) /\ e.members[k].tail = m.tail
          /\ e.members[k].value.raw = R
      BY <1>5, <2>3
    <2>5. \E a, b \in Texts : /\ Past(0, a) = ValueOf(m, MemberAt(d, k))
                              /\ Text(d) = Then(Then(a, m.value.raw), b)
                              /\ Text(e) = Then(Then(a, e.members[k].value.raw), b)
      BY <1>7, <1>8, <2>1, <2>2, <2>3, <2>4, ValueIsReplaced
    <2> QED
      BY <2>4, <2>5
  <1> DEFINE s == Text(d)
             v == m.value.raw
             p == ValueOf(m, MemberAt(d, k))
  <1>10. v \in Texts /\ R \in Texts
    BY <1>3, MemberFields, FoldersValueIsScanned
  <1>11. p \in Nat /\ TailOf(m, MemberAt(d, k)) = Past(p, v) /\ Past(p, v) \in Nat
    <2>1. MemberAt(d, k) \in Nat
      BY <1>2, DocumentOffsets DEF n
    <2>2. p \in Nat
      BY <1>3, <2>1, MemberOffsets
    <2> HIDE DEF p
    <2>3. Past(p, v) \in Nat
      BY <1>10, <2>2, PastIsNat
    <2> QED
      BY <2>2, <2>3 DEF TailOf, p
  <1>12. member = [first |-> p + 1, next |-> Past(p, v) + 1]
    BY <1>11
  <1> HIDE DEF m, R, s, v, p
  <1>13. member # NoMember
    BY <1>11, <1>12 DEF NoMember
  <1>14. SpliceFolders(s, member, list)
            = SubSeq(s, 1, member.first - 1) \o R \o SubSeq(s, member.next, Len(s))
    BY <1>13 DEF SpliceFolders, R
  <1>15. Before(s, p) = a /\ After(s, Past(p, v)) = b
    <2>1. s = Then(Then(a, v), b) /\ p = Past(0, a)
      BY <1>9 DEF s, v, p
    <2>2. /\ Before(Then(Then(a, v), b), Past(0, a)) = a
          /\ After(Then(Then(a, v), b), Past(Past(0, a), v)) = b
      BY <1>10, CutOut
    <2> QED
      BY <2>1, <2>2
  <1>16. member.first - 1 = p /\ member.next = Past(p, v) + 1
    BY <1>11, <1>12
  <1>17. SpliceFolders(s, member, list) = Then(Then(a, R), b)
    BY <1>14, <1>15, <1>16, IsThen DEF Before, After
  <1> QED
    BY <1>4, <1>8, <1>9, <1>17 DEF s

LEMMA HeldBehind ==
    ASSUME NEW s \in Texts, NEW o \in Nat, NEW g \in Texts, NEW v \in Texts,
           Holds(s, o, g), Holds(s, Past(o, g), v)
    PROVE  /\ After(s, o) \in Texts
           /\ Holds(After(s, o), 0, g) /\ Holds(After(s, o), Past(0, g), v)
  <1> DEFINE r == After(s, o)
             l == Len(g)
  <1>1. Len(s) \in Nat /\ l \in Nat /\ Len(v) \in Nat
    BY DEF Texts
  <1>2. /\ o + l <= Len(s) /\ \A k \in 1..l : s[o + k] = g[k]
        /\ (o + l) + Len(v) <= Len(s) /\ \A k \in 1..Len(v) : s[(o + l) + k] = v[k]
    BY DEF Holds, Past
  <1>3. r \in Texts /\ Len(r) = Len(s) - o /\ \A k \in 1..(Len(s) - o) : r[k] = s[o + k]
    BY <1>1, <1>2 DEF Texts, After
  <1> HIDE DEF r, l
  <1>4. Holds(r, 0, g)
    <2>1. 0 + l <= Len(r)
      BY <1>1, <1>2, <1>3
    <2>2. ASSUME NEW k \in 1..l
          PROVE  r[0 + k] = g[k]
      <3>1. 0 + k = k /\ k \in 1..(Len(s) - o)
        BY <1>1, <1>2
      <3> QED
        BY <1>2, <1>3, <3>1
    <2> QED
      BY <2>1, <2>2 DEF Holds, l
  <1>5. Holds(r, Past(0, g), v)
    <2>1. l + Len(v) <= Len(r)
      BY <1>1, <1>2, <1>3
    <2>2. ASSUME NEW k \in 1..Len(v)
          PROVE  r[l + k] = v[k]
      <3>1. l + k \in 1..(Len(s) - o) /\ o + (l + k) = (o + l) + k
        BY <1>1, <1>2
      <3> QED
        BY <1>2, <1>3, <3>1
    <2>3. Past(0, g) = l
      BY <1>1 DEF Past, l
    <2> QED
      BY <2>1, <2>2, <2>3 DEF Holds
  <1> QED
    BY <1>3, <1>4, <1>5 DEF r

\* The texts of a document without members, and with.
OnOneLine(d) == \A j \in DOMAIN d.last : d.last[j] = Space

LEMMA EmptyRoot ==
    ASSUME NEW d \in ScannedDocuments
    PROVE  IsEmptyObject(After(Text(d), HeadOf(d))) <=> d.members = <<>> /\ OnOneLine(d)
  <1> DEFINE s == Text(d)
             o == HeadOf(d)
  <1>1. s \in Texts /\ o \in Nat
    BY DocumentIsThere, DocumentOffsets
  <1>2. Size(d) \in Nat /\ d.members \in Seq(Members) /\ (d.members = <<>> <=> Size(d) = 0)
    <2>1. Size(d) \in Nat /\ d.members \in Seq(Members)
      BY DocumentFields
    <2>2. d.members = <<>> <=> Size(d) = 0
      BY <2>1, EmptySeq DEF Size
    <2> QED
      BY <2>1, <2>2
  <1>3. CASE Size(d) = 0
    <2>1. ~d.trailing
      BY <1>2, <1>3 DEF ScannedDocuments, DocumentsOf
    <2>2. TrailingComma(d) = <<>> /\ TrailingAt(d) = o
      BY <1>3, <2>1, DocumentOffsets DEF TrailingComma
    <2>3. LastAt(d) = o
      BY <1>1, <2>2, PastOne DEF LastAt
    <2>4. Holds(s, o, d.last) /\ Holds(s, Past(o, d.last), <<d.close>>)
      BY <2>3, DocumentIsThere DEF CloseAt
    <2>5. d.last \in Gaps /\ d.last \in Texts /\ <<d.close>> \in Texts
      BY DocumentFields
    <2>6. d.close \in Closing
      BY DEF ScannedDocuments, DocumentsOf
    <2>7. d.close \in Characters \ White
      BY <2>6, SyntaxIsText, Distinct
    <2> HIDE DEF s, o
    <2>8. /\ After(s, o) \in Texts /\ Holds(After(s, o), 0, d.last)
          /\ Holds(After(s, o), Past(0, d.last), <<d.close>>)
      BY <1>1, <2>4, <2>5, HeldBehind
    <2>9. IsEmptyObject(After(s, o))
                <=> d.close \in Closing /\ \A j \in DOMAIN d.last : d.last[j] = Space
      BY <2>5, <2>7, <2>8, EmptyObject
    <2> QED
      BY <1>2, <1>3, <2>6, <2>9 DEF s, o, OnOneLine
  <1>4. CASE Size(d) # 0
    <2> DEFINE m == d.members[1]
    <2>1. 1 \in 1..Size(d)
      BY <1>2, <1>4
    <2>2. MemberAt(d, 1) = o
      BY <1>4, DocumentOffsets
    <2>3. m \in Members
      BY <2>1, DocumentFields
    <2>4. HoldsMember(s, o, m)
      BY <2>1, <2>2, DocumentIsThere
    <2> HIDE DEF m, s, o
    <2>5. m.lead \in Gaps /\ m.lead \in Texts /\ m.key \in Texts /\ m.key \in Quoted
      BY <2>3, MemberFields
    <2>6. Holds(s, o, m.lead) /\ Holds(s, Past(o, m.lead), m.key)
      BY <2>4 DEF HoldsMember, KeyOf
    <2>7. m.key[1] = Quote /\ Len(m.key) > 1 /\ Len(m.key) > 0
      <3>1. m.key[1] = Quote /\ Len(m.key) > 1
        BY <2>5, StringIsScanned
      <3> QED
        BY <2>5, <3>1 DEF Texts
    <2>8. Past(o, m.lead) \in Nat
      BY <1>1, <2>5, PastIsNat
    <2>9. Holds(s, Past(o, m.lead), <<Quote>>) /\ Quote \in Characters
      BY <1>1, <2>5, <2>6, <2>7, <2>8, HoldsHead
    <2>10. Quote \notin White /\ Quote \notin Closing
      BY Distinct
    <2>11. <<Quote>> \in Texts
      BY <2>9, IsThen
    <2>12. /\ After(s, o) \in Texts /\ Holds(After(s, o), 0, m.lead)
           /\ Holds(After(s, o), Past(0, m.lead), <<Quote>>)
      BY <1>1, <2>5, <2>6, <2>9, <2>11, HeldBehind
    <2>13. ~IsEmptyObject(After(s, o))
      BY <2>5, <2>9, <2>10, <2>12, EmptyObject
    <2> QED
      BY <1>2, <1>4, <2>13 DEF s, o
  <1> QED
    BY <1>2, <1>3, <1>4

LEMMA RootCut ==
    ASSUME NEW d \in ScannedDocuments
    PROVE  /\ Before(Text(d), HeadOf(d)) = RootOf(d)
           /\ After(Text(d), HeadOf(d)) = Behind(d, FlattenSeq(Items(d)))
           /\ Behind(d, FlattenSeq(Items(d))) \in Texts
  <1> DEFINE h == RootOf(d)
             f == FlattenSeq(Items(d))
             r == Behind(d, f)
  <1>1. h \in Texts /\ Past(0, h) = HeadOf(d) /\ f \in Texts /\ <<>> \in Texts
    BY RootOfIsText, DocumentFields
  <1>2. Text(d) = Behind(d, Then(h, f))
    BY TextIsFramed
  <1> HIDE DEF f
  <1>3. r \in Texts
        /\ Behind(d, Then(h, Then(Then(<<>>, <<>>), f))) = Then(Then(Then(h, <<>>), <<>>), r)
    BY <1>1, FramedText
  <1> HIDE DEF h, r
  <1>4. Then(Then(<<>>, <<>>), f) = f /\ Then(Then(h, <<>>), <<>>) = h
    BY <1>1, ThenIsText
  <1>5. Text(d) = Then(h, r)
    BY <1>2, <1>3, <1>4
  <1>6. Past(0, h) = Len(h)
    BY <1>1 DEF Past, Texts
  <1>7. Before(Then(h, r), Len(h)) = h /\ After(Then(h, r), Len(h)) = r
    BY <1>1, <1>3, Cut
  <1>8. Len(h) = HeadOf(d)
    BY <1>1, <1>6
  <1> QED
    BY <1>3, <1>5, <1>7, <1>8 DEF h, r, f

\* The text of the member that is inserted.
FoldersText(list) ==
    Then(Then(Then(Then(<<Newline>>, FoldersKey), <<":">>), <<Space>>), RenderFolders(list))

LEMMA FoldersTextIs ==
    ASSUME NEW list \in Lists
    PROVE  FoldersText(list) \in Texts /\ MemberText(FoldersMember(list)) = FoldersText(list)
  <1> DEFINE a == Then(<<Newline>>, FoldersKey)
             b == Then(Then(a, <<":">>), <<Space>>)
             v == RenderFolders(list)
  <1>1. /\ <<Newline>> \in Texts /\ FoldersKey \in Texts /\ <<":">> \in Texts
        /\ <<Space>> \in Texts
        /\ v \in Texts
    <2>1. Newline \in Characters /\ Space \in Characters
      BY SyntaxIsText
    <2>2. ":" \in Characters
      BY SyntaxIsText
    <2>3. FoldersKey \in Texts
      BY KeysAreQuoted, StringIsScanned
    <2> QED
      BY <2>1, <2>2, <2>3, IsThen, FoldersValueIsScanned
  <1>2. /\ FoldersMember(list).lead = <<Newline>> /\ FoldersMember(list).key = FoldersKey
        /\ FoldersMember(list).mid = <<>> /\ FoldersMember(list).post = <<Space>>
        /\ FoldersMember(list).value.raw = v /\ FoldersMember(list).tail = <<>>
    BY DEF FoldersMember, FoldersValue
  <1>3. MemberText(FoldersMember(list))
           = Then(Then(Then(Then(Then(a, <<>>), <<":">>), <<Space>>), v), <<>>)
    BY <1>2 DEF MemberText
  <1>4. FoldersText(list) = Then(b, v)
    BY DEF FoldersText
  <1> HIDE DEF v
  <1>5. a \in Texts
    BY <1>1, ThenIsText
  <1>6. Then(a, <<>>) = a
    BY <1>5, ThenIsText
  <1> HIDE DEF a
  <1>7. Then(a, <<":">>) \in Texts
    BY <1>1, <1>5, ThenIsText
  <1>8. b \in Texts
    BY <1>1, <1>7, ThenIsText
  <1>9. Then(b, v) \in Texts
    BY <1>1, <1>8, ThenIsText
  <1>10. Then(Then(b, v), <<>>) = Then(b, v)
    BY <1>9, ThenIsText
  <1> QED
    BY <1>3, <1>4, <1>6, <1>9, <1>10

\* What Inserted() puts together.
LEMMA InsertedIs ==
    ASSUME NEW d \in ScannedDocuments, d.open = LeftBrace, NEW list \in Lists,
           NEW f, f = FlattenSeq(Items(d)),
           NEW c, c = IF d.members = <<>> /\ OnOneLine(d) THEN <<Newline>> ELSE <<>>
    PROVE  Inserted(Text(d), list)
              = Then(Then(Then(Then(RootOf(d), FoldersText(list)), <<",">>), c), Behind(d, f))
  <1> DEFINE s == Text(d)
             o == HeadOf(d)
             h == RootOf(d)
             r == Behind(d, f)
             N == <<Newline>>
             C == <<":">>
             S == <<Space>>
             v == RenderFolders(list)
  <1>1. RootOpen(s) = o
    BY RootIsThere
  <1>2. Before(s, o) = h /\ After(s, o) = r
    BY RootCut
  <1>3. IsEmptyObject(After(s, o)) <=> d.members = <<>> /\ OnOneLine(d)
    BY EmptyRoot
  <1>4. Inserted(s, list)
           = Before(s, o) \o N \o FoldersKey \o <<":", Space>> \o v \o <<",">>
             \o (IF IsEmptyObject(After(s, o)) THEN N ELSE <<>>) \o After(s, o)
    BY <1>1 DEF Inserted, Before, After
  <1>5. <<":", Space>> = Then(C, S)
    BY Pairs
  <1>6. Inserted(s, list)
           = Then(Then(Then(Then(Then(Then(Then(h, N), FoldersKey), Then(C, S)), v), <<",">>), c), r)
    <2>1. c = IF IsEmptyObject(After(s, o)) THEN N ELSE <<>>
      BY <1>3
    <2> HIDE DEF h, r, N, C, S, v, s, o
    <2>2. Inserted(s, list) = h \o N \o FoldersKey \o Then(C, S) \o v \o <<",">> \o c \o r
      BY <1>2, <1>4, <1>5, <2>1
    <2> QED
      BY <2>2, IsThen
  <1>7. /\ h \in Texts /\ N \in Texts /\ C \in Texts /\ S \in Texts /\ FoldersKey \in Texts
        /\ v \in Texts
    <2>1. Newline \in Characters /\ Space \in Characters
      BY SyntaxIsText
    <2>2. ":" \in Characters
      BY SyntaxIsText
    <2>3. FoldersKey \in Texts
      BY KeysAreQuoted, StringIsScanned
    <2> QED
      BY <2>1, <2>2, <2>3, IsThen, FoldersValueIsScanned, RootOfIsText
  <1>8. FoldersText(list) = Then(Then(Then(Then(N, FoldersKey), C), S), v)
    BY DEF FoldersText
  <1> HIDE DEF h, N, C, S, v, s, r
  <1> DEFINE K == FoldersKey
             a == Then(N, K)
  <1>9. a \in Texts /\ Then(Then(h, N), K) = Then(h, a)
    BY <1>7, ThenIsText
  <1> HIDE DEF a, K
  <1>10. Then(Then(h, a), Then(C, S)) = Then(h, Then(Then(a, C), S))
         /\ Then(Then(a, C), S) \in Texts
    <2>1. Then(C, S) \in Texts /\ Then(a, C) \in Texts
      BY <1>7, <1>9, ThenIsText
    <2>2. Then(Then(h, a), Then(C, S)) = Then(h, Then(a, Then(C, S)))
      BY <1>7, <1>9, <2>1, ThenIsText
    <2>3. Then(a, Then(C, S)) = Then(Then(a, C), S)
      BY <1>7, <1>9, ThenIsText
    <2>4. Then(Then(a, C), S) \in Texts
      BY <1>7, <2>1, ThenIsText
    <2> QED
      BY <2>2, <2>3, <2>4
  <1>11. Then(Then(h, Then(Then(a, C), S)), v) = Then(h, Then(Then(Then(a, C), S), v))
    BY <1>7, <1>10, ThenIsText
  <1>12. Then(Then(Then(Then(h, N), K), Then(C, S)), v) = Then(h, FoldersText(list))
    BY <1>8, <1>9, <1>10, <1>11 DEF a, K
  <1> QED
    BY <1>6, <1>12 DEF s, h, r, K

\* The document with one more member, in front of the others.
WithMember(d, list) == <<FoldersMember(list)>> \o d.members

Inserting(d, list, t, g) ==
    [d EXCEPT !.members = WithMember(d, list), !.trailing = t, !.last = g]

LEMMA InsertedMember ==
    ASSUME NEW d \in ScannedDocuments, NEW list \in Lists
    PROVE  /\ WithMember(d, list) \in Seq(Members)
           /\ Len(WithMember(d, list)) = Size(d) + 1
           /\ WithMember(d, list)[1] = FoldersMember(list)
           /\ \A j \in 1..Size(d) : WithMember(d, list)[j + 1] = d.members[j]
  <1>1. d.members \in Seq(Members) /\ Len(d.members) = Size(d) /\ Size(d) \in Nat
    BY DocumentFields DEF Size
  <1>2. FoldersMember(list) \in Members
    BY FoldersMemberIsScanned
  <1> DEFINE M == FoldersMember(list)
             n == Size(d)
             D == d.members
             L == WithMember(d, list)
  <1> HIDE DEF M, n, D, L
  <1>3. D \in Seq(Members) /\ Len(D) = n /\ n \in Nat /\ M \in Members /\ L = <<M>> \o D
    BY <1>1, <1>2 DEF M, n, D, L, WithMember
  <1>4. <<M>> \in Seq(Members) /\ Len(<<M>>) = 1 /\ <<M>>[1] = M
    BY <1>3
  <1>5. L \in Seq(Members)
    BY <1>3, <1>4, ConcatProperties
  <1>6. Len(L) = n + 1
    BY <1>3, <1>4
  <1>7. L[1] = M
    BY <1>3, <1>4
  <1>8. \A j \in 1..n : L[j + 1] = D[j]
    BY <1>3, <1>4
  <1> QED
    BY <1>5, <1>6, <1>7, <1>8 DEF M, n, D, L

IsInserted(d, list, t, g, e) ==
    /\ e \in ScannedDocuments
    /\ e.before = d.before /\ e.open = d.open /\ e.close = d.close /\ e.after = d.after
    /\ e.trailing = t /\ e.last = g
    /\ Size(e) = Size(d) + 1
    /\ Items(e)[1] = FoldersText(list)
    /\ \A k \in 1..Size(d) : Items(e)[k + 1] = Then(<<",">>, MemberText(d.members[k]))

LEMMA InsertedDocument ==
    ASSUME NEW d \in ScannedDocuments, d.open = LeftBrace, FoldersOf(d) = {},
           NEW list \in Lists, NEW t \in BOOLEAN, NEW g \in Gaps
    PROVE  IsInserted(d, list, t, g, Inserting(d, list, t, g))
  <1> DEFINE L == WithMember(d, list)
             e == Inserting(d, list, t, g)
  <1>1. /\ L \in Seq(Members) /\ Len(L) = Size(d) + 1 /\ L[1] = FoldersMember(list)
        /\ \A j \in 1..Size(d) : L[j + 1] = d.members[j]
    BY InsertedMember
  <1> HIDE DEF L, e
  <1>2. Size(d) \in Nat /\ DOMAIN d.members = 1..Size(d)
    BY DocumentFields
  <1>3. /\ e.before = d.before /\ e.open = d.open /\ e.close = d.close /\ e.after = d.after
        /\ e.members = L /\ e.trailing = t /\ e.last = g
        /\ e \in [before : Gaps, open : {LeftBrace, "["}, members : Seq(Members),
                  trailing : BOOLEAN, last : Gaps, close : Closing, after : Texts]
    <2>1. d \in [before : Gaps, open : {LeftBrace, "["}, members : Seq(Members),
                 trailing : BOOLEAN, last : Gaps, close : Closing, after : Texts]
      BY DEF ScannedDocuments, DocumentsOf, Members
    <2>2. e = [d EXCEPT !.members = L, !.trailing = t, !.last = g]
      BY DEF e, L, Inserting
    <2> QED
      BY <1>1, <2>1, <2>2
  <1>4. e \in ScannedDocuments
    <2>1. d.close = RightBrace
      BY DEF ScannedDocuments, DocumentsOf
    <2>2. L # <<>>
      BY <1>1, <1>2
    <2>3. ASSUME NEW j \in FoldersOf(e)
          PROVE  j = 1
      <3>1. j \in 1..(Size(d) + 1) /\ L[j].key = FoldersKey
        BY <1>1, <1>3, <2>3 DEF FoldersOf
      <3>2. j # 1 => j - 1 \in 1..Size(d) /\ (j - 1) + 1 = j
        BY <1>2, <3>1
      <3>3. j # 1 => d.members[j - 1].key = FoldersKey
        BY <1>1, <3>1, <3>2
      <3>4. \A i \in 1..Size(d) : d.members[i].key # FoldersKey
        BY <1>2 DEF FoldersOf
      <3> QED
        BY <3>2, <3>3, <3>4
    <2>4. \A i, j \in FoldersOf(e) : i = j
      BY <2>3
    <2> QED
      BY <1>3, <2>1, <2>2, <2>4 DEF ScannedDocuments, DocumentsOf, Members
  <1>5. Size(e) = Size(d) + 1
    BY <1>1, <1>3 DEF Size
  <1>6. Items(e)[1] = FoldersText(list)
    <2>1. 1 \in 1..Size(e)
      BY <1>2, <1>5
    <2>2. Items(e)[1] = Then(<<>>, MemberText(e.members[1]))
      BY <1>4, <2>1, DocumentFields
    <2>3. MemberText(e.members[1]) = FoldersText(list) /\ FoldersText(list) \in Texts
      BY <1>1, <1>3, FoldersTextIs
    <2> QED
      BY <2>2, <2>3, ThenIsText
  <1>7. ASSUME NEW k \in 1..Size(d)
        PROVE  Items(e)[k + 1] = Then(<<",">>, MemberText(d.members[k]))
    <2>1. k + 1 \in 1..Size(e) /\ k + 1 # 1
      BY <1>2, <1>5
    <2>2. Items(e)[k + 1] = Then(<<",">>, MemberText(e.members[k + 1]))
      BY <1>4, <2>1, DocumentFields
    <2>3. e.members[k + 1] = d.members[k]
      BY <1>1, <1>3
    <2> QED
      BY <2>2, <2>3
  <1> QED
    BY <1>3, <1>4, <1>5, <1>6, <1>7 DEF e, IsInserted

\* In front of other members.
LEMMA InsertsFirst ==
    ASSUME NEW d \in ScannedDocuments, d.open = LeftBrace, FoldersOf(d) = {},
           NEW list \in Lists, Size(d) # 0
    PROVE  /\ WithFolders(d, list) \in ScannedDocuments
           /\ Inserted(Text(d), list) = Text(WithFolders(d, list))
  <1> DEFINE L == WithMember(d, list)
             e == Inserting(d, list, d.trailing, d.last)
             q == Items(d)
             r == Items(e)
             f == FlattenSeq(q)
             F == FoldersText(list)
             H == RootOf(d)
  <1>1. d.trailing \in BOOLEAN /\ d.last \in Gaps
        /\ d \in [before : Gaps, open : {LeftBrace, "["}, members : Seq(Members),
                  trailing : BOOLEAN, last : Gaps, close : Closing, after : Texts]
    BY DEF ScannedDocuments, DocumentsOf, Members
  <1>6. d.members # <<>>
    BY DEF Size
  <1>2. WithFolders(d, list) = e
    <2>1. WithFolders(d, list) = [d EXCEPT !.members = L]
      BY <1>6 DEF WithFolders, FoldersMember, FoldersValue, WithMember
    <2> HIDE DEF L
    <2>2. [d EXCEPT !.members = L] = e
      BY <1>1 DEF Inserting, L
    <2> QED
      BY <2>1, <2>2
  <1>3. /\ e \in ScannedDocuments
        /\ e.before = d.before /\ e.open = d.open /\ e.close = d.close /\ e.after = d.after
        /\ e.trailing = d.trailing /\ e.last = d.last /\ Size(e) = Size(d) + 1
        /\ r[1] = F
        /\ \A k \in 1..Size(d) : r[k + 1] = Then(<<",">>, MemberText(d.members[k]))
    <2>1. IsInserted(d, list, d.trailing, d.last, e)
      BY <1>1, InsertedDocument
    <2> QED
      BY <2>1 DEF IsInserted
  <1> HIDE DEF e
  <1>4. /\ q \in Seq(Texts) /\ Len(q) = Size(d) /\ Size(d) \in Nat /\ f \in Texts
        /\ <<",">> \in Texts /\ <<>> \in Texts
        /\ \A k \in 1..Size(d) :
              q[k] = Then(IF k = 1 THEN <<>> ELSE <<",">>, MemberText(d.members[k]))
    BY DocumentFields
  <1>5. r \in Seq(Texts) /\ Len(r) = Size(d) + 1
    BY <1>3, DocumentFields
  <1>7. r[2] = Then(<<",">>, q[1])
    <2>1. 1 \in 1..Size(d) /\ 1 + 1 = 2
      <3>1. Size(d) \in Nat
        BY <1>4
      <3> QED
        BY <3>1
    <2>2. r[2] = Then(<<",">>, MemberText(d.members[1]))
      BY <1>3, <2>1
    <2>3. q[1] = Then(<<>>, MemberText(d.members[1]))
      BY <1>4, <2>1
    <2>4. MemberText(d.members[1]) \in Texts
      <3>1. d.members[1] \in Members /\ 0 \in Nat
        BY <2>1, DocumentFields
      <3> QED
        BY <1>4, <3>1, MemberIsThere
    <2> QED
      BY <2>2, <2>3, <2>4, ThenIsText
  <1>8. \A k \in 2..Len(q) : r[k + 1] = q[k]
    <2> SUFFICES ASSUME NEW k \in 2..Len(q)
                 PROVE  r[k + 1] = q[k]
      OBVIOUS
    <2>1. Size(d) \in Nat /\ Len(q) = Size(d)
      BY <1>4
    <2> HIDE DEF q, r, e
    <2>2. k \in 1..Size(d) /\ k # 1
      BY <2>1
    <2>3. r[k + 1] = Then(<<",">>, MemberText(d.members[k]))
      BY <1>3, <2>2
    <2>4. q[k] = Then(<<",">>, MemberText(d.members[k]))
      BY <1>4, <2>2
    <2> QED
      BY <2>3, <2>4
  <1> HIDE DEF q, r
  <1>9. FlattenSeq(r) = Then(Then(F, <<",">>), f)
    <2>1. Len(q) # 0 /\ Len(r) = Len(q) + 1
      BY <1>4, <1>5
    <2>2. FlattenSeq(r) = Then(Then(r[1], <<",">>), FlattenSeq(q))
      BY <1>4, <1>5, <1>7, <1>8, <2>1, FlattenInserts
    <2> QED
      BY <1>3, <2>2
  <1>10. F \in Texts
    BY FoldersTextIs
  <1>11. Text(e) = Then(Then(Then(H, F), <<",">>), Behind(d, f))
    <2>1. TrailingComma(e) = TrailingComma(d)
      BY <1>3 DEF TrailingComma
    <2>2. \A y : Behind(e, y) = Behind(d, y)
      BY <1>3, <2>1 DEF Behind
    <2>3. RootOf(e) = H
      BY <1>3 DEF RootOf
    <2>4. Text(e) = Behind(e, Then(RootOf(e), FlattenSeq(r)))
      BY TextIsFramed DEF r
    <2> HIDE DEF F, f, H
    <2>5. Text(e) = Behind(d, Then(H, Then(Then(F, <<",">>), f)))
      BY <1>9, <2>2, <2>3, <2>4
    <2>6. Behind(d, Then(RootOf(d), Then(Then(F, <<",">>), f)))
             = Then(Then(Then(RootOf(d), F), <<",">>), Behind(d, f))
      <3>1. F \in Texts /\ <<",">> \in Texts /\ f \in Texts
        BY <1>4, <1>10
      <3> DEFINE c == <<",">>
      <3> HIDE DEF c
      <3>2. c \in Texts
        BY <3>1 DEF c
      <3>3. Behind(d, Then(RootOf(d), Then(Then(F, c), f)))
               = Then(Then(Then(RootOf(d), F), c), Behind(d, f))
        <4>1. IsFramed(d, F, c, f)
          BY <3>1, <3>2, PieceIsFramed
        <4> QED
          BY <4>1 DEF IsFramed
      <3> QED
        BY <3>3 DEF c
    <2> QED
      BY <2>5, <2>6 DEF H
  <1>12. Inserted(Text(d), list) = Then(Then(Then(Then(H, F), <<",">>), <<>>), Behind(d, f))
    <2>1. <<>> = IF d.members = <<>> /\ OnOneLine(d) THEN <<Newline>> ELSE <<>>
      BY <1>6
    <2>2. f = FlattenSeq(Items(d))
      BY DEF q
    <2> DEFINE c == IF d.members = <<>> /\ OnOneLine(d) THEN <<Newline>> ELSE <<>>
    <2>3. Inserted(Text(d), list) = Then(Then(Then(Then(H, F), <<",">>), c), Behind(d, f))
      <3> HIDE DEF f
      <3> QED
        BY <2>2, InsertedIs, ZenonT(60)
    <2> QED
      BY <2>1, <2>3
  <1>13. Then(Then(Then(Then(H, F), <<",">>), <<>>), Behind(d, f))
            = Then(Then(Then(H, F), <<",">>), Behind(d, f))
    <2>1. H \in Texts
      BY RootOfIsText
    <2> HIDE DEF H, F
    <2>2. Then(H, F) \in Texts
      BY <1>10, <2>1, ThenIsText
    <2>3. Then(Then(H, F), <<",">>) \in Texts
      BY <1>4, <2>2, ThenIsText
    <2>4. Then(Then(Then(H, F), <<",">>), <<>>) = Then(Then(H, F), <<",">>)
      BY <2>3, ThenIsText
    <2> QED
      BY <2>4
  <1> QED
    BY <1>2, <1>3, <1>11, <1>12, <1>13

\* Into an object without members: then with a comma behind it, and on a line of its own.
LEMMA InsertsOnly ==
    ASSUME NEW d \in ScannedDocuments, d.open = LeftBrace, FoldersOf(d) = {},
           NEW list \in Lists, Size(d) = 0
    PROVE  /\ WithFolders(d, list) \in ScannedDocuments
           /\ Inserted(Text(d), list) = Text(WithFolders(d, list))
  <1> DEFINE L == WithMember(d, list)
             c == IF OnOneLine(d) THEN <<Newline>> ELSE <<>>
             g == Then(c, d.last)
             e == Inserting(d, list, TRUE, g)
             q == Items(d)
             r == Items(e)
             F == FoldersText(list)
             H == RootOf(d)
             K == <<",">>
             Z == <<d.close>>
             t == d.after
             l == d.last
  <1>1. d \in [before : Gaps, open : {LeftBrace, "["}, members : Seq(Members),
               trailing : BOOLEAN, last : Gaps, close : Closing, after : Texts]
        /\ ~(d.trailing /\ d.members = <<>>)
    BY DEF ScannedDocuments, DocumentsOf, Members
  <1>2. d.members = <<>> /\ ~d.trailing
    <2>1. d.members \in Seq(Members)
      BY <1>1
    <2>2. d.members = <<>>
      BY <2>1, EmptySeq DEF Size
    <2> QED
      BY <1>1, <2>2
  <1>3. /\ l \in Texts /\ l \in Gaps /\ K \in Texts /\ <<>> \in Texts /\ Z \in Texts
        /\ t \in Texts
        /\ q \in Seq(Texts) /\ Len(q) = 0
    BY DocumentFields
  <1>4. g \in Gaps /\ c \in Texts
    <2>1. <<Newline>> \in Texts
      BY SyntaxIsText, IsThen
    <2> QED
      BY <1>3, <2>1, BlankGaps, ThenIsText
  <1>5. WithFolders(d, list) = e
    <2>1. WithFolders(d, list) =
             [[d EXCEPT !.members = L] EXCEPT
                 !.trailing = TRUE,
                 !.last = IF OnOneLine(d) THEN <<Newline>> \o @ ELSE @]
      BY <1>2 DEF WithFolders, FoldersMember, FoldersValue, WithMember, OnOneLine
    <2>2. (IF OnOneLine(d) THEN <<Newline>> \o l ELSE l) = g
      BY <1>3, ThenIsText, IsThen
    <2>3. [d EXCEPT !.members = L].last = l
      BY <1>1
    <2> HIDE DEF L, g
    <2>4. [[d EXCEPT !.members = L] EXCEPT !.trailing = TRUE, !.last = g] = e
      BY <1>1 DEF Inserting, L
    <2> QED
      BY <2>1, <2>2, <2>3, <2>4
  <1>6. /\ e \in ScannedDocuments
        /\ e.before = d.before /\ e.open = d.open /\ e.close = d.close /\ e.after = t
        /\ e.trailing = TRUE /\ e.last = g /\ Size(e) = 1
        /\ r[1] = F
    <2> HIDE DEF g
    <2>1. IsInserted(d, list, TRUE, g, Inserting(d, list, TRUE, g))
      BY <1>4, InsertedDocument
    <2> HIDE DEF e
    <2>2. IsInserted(d, list, TRUE, g, e)
      BY <2>1 DEF e
    <2>3. /\ e \in ScannedDocuments
          /\ e.before = d.before /\ e.open = d.open /\ e.close = d.close /\ e.after = d.after
          /\ e.trailing = TRUE /\ e.last = g /\ Size(e) = Size(d) + 1
          /\ Items(e)[1] = FoldersText(list)
      BY <2>2 DEF IsInserted
    <2>4. Size(e) = 1
      <3>1. Size(e) = 0 + 1
        BY <2>3
      <3> QED
        BY <3>1
    <2> QED
      BY <2>3, <2>4
  <1> HIDE DEF e, g
  <1>7. r \in Seq(Texts) /\ Len(r) = 1
    BY <1>6, DocumentFields
  <1> HIDE DEF q, r
  <1>8. FlattenSeq(r) = F
    BY <1>6, <1>7, FlattenSingle
  <1>9. FlattenSeq(q) = <<>>
    BY <1>3, FlattenIsParts, PartsAre
  <1>10. F \in Texts /\ H \in Texts
    BY FoldersTextIs, RootOfIsText
  <1> DEFINE y == Then(Then(l, Z), t)
  <1>11. Behind(d, <<>>) = y
    <2>1. TrailingComma(d) = <<>>
      BY <1>2 DEF TrailingComma
    <2>2. Behind(d, <<>>) = Then(Then(Then(Then(<<>>, <<>>), l), Z), t)
      BY <2>1 DEF Behind
    <2>3. Then(<<>>, <<>>) = <<>> /\ Then(<<>>, l) = l
      BY <1>3, ThenIsText
    <2> QED
      BY <2>2, <2>3
  <1>12. Behind(e, <<>>) = Then(Then(Then(K, g), Z), t)
    <2>1. TrailingComma(e) = K
      BY <1>6 DEF TrailingComma
    <2>2. Behind(e, <<>>) = Then(Then(Then(Then(<<>>, K), g), Z), t)
      BY <1>6, <2>1 DEF Behind
    <2>3. Then(<<>>, K) = K
      BY <1>3, ThenIsText
    <2> QED
      BY <2>2, <2>3
  <1>13. Text(e) = Then(Then(H, F), Behind(e, <<>>))
    <2>1. RootOf(e) = H
      BY <1>6 DEF RootOf
    <2>2. Text(e) = Behind(e, Then(H, F))
      BY <1>8, <2>1, TextIsFramed DEF r
    <2> HIDE DEF F
    <2>3. F \in Texts /\ <<>> \in Texts /\ e \in ScannedDocuments
      BY <1>3, <1>6, <1>10
    <2>4. Behind(e, Then(RootOf(e), Then(Then(F, <<>>), <<>>)))
             = Then(Then(Then(RootOf(e), F), <<>>), Behind(e, <<>>))
      <3>1. IsFramed(e, F, <<>>, <<>>)
        BY <2>3, PieceIsFramed
      <3> QED
        BY <3>1 DEF IsFramed
    <2> HIDE DEF H
    <2>5. Then(Then(F, <<>>), <<>>) = F /\ Then(H, F) \in Texts
      BY <1>10, ThenIsText
    <2>6. Then(Then(H, F), <<>>) = Then(H, F)
      BY <2>5, ThenIsText
    <2> QED
      BY <2>1, <2>2, <2>4, <2>5, <2>6
  <1>14. Inserted(Text(d), list) = Then(Then(Then(Then(H, F), K), c), Behind(d, <<>>))
    <2>1. c = IF d.members = <<>> /\ OnOneLine(d) THEN <<Newline>> ELSE <<>>
      BY <1>2
    <2> DEFINE c2 == IF d.members = <<>> /\ OnOneLine(d) THEN <<Newline>> ELSE <<>>
               f == FlattenSeq(q)
    <2>2. f = FlattenSeq(Items(d))
      BY DEF q
    <2> HIDE DEF c
    <2>3. Inserted(Text(d), list) = Then(Then(Then(Then(H, F), K), c2), Behind(d, f))
      <3> HIDE DEF f
      <3> QED
        BY <2>2, InsertedIs, ZenonT(60)
    <2> QED
      BY <1>9, <2>1, <2>3
  <1> HIDE DEF c, F, H, K, Z, t, l
  <1> DEFINE a == Then(H, F)
  <1>15. Then(Then(Then(a, K), c), y) = Then(a, Then(Then(Then(K, g), Z), t))
    <2>1. a \in Texts /\ Then(l, Z) \in Texts /\ Then(K, c) \in Texts
      BY <1>3, <1>4, <1>10, ThenIsText
    <2> HIDE DEF a
    <2>2. y \in Texts
      BY <1>3, <2>1, ThenIsText
    <2>3. Then(Then(a, K), c) = Then(a, Then(K, c))
      BY <1>3, <1>4, <2>1, ThenIsText
    <2>4. Then(Then(a, Then(K, c)), y) = Then(a, Then(Then(K, c), y))
      BY <2>1, <2>2, ThenIsText
    <2>5. Then(Then(K, c), y) = Then(Then(Then(K, c), Then(l, Z)), t)
      BY <1>3, <2>1, ThenIsText
    <2>6. Then(Then(K, c), Then(l, Z)) = Then(Then(Then(K, c), l), Z)
      BY <1>3, <2>1, ThenIsText
    <2>7. Then(Then(K, c), l) = Then(K, Then(c, l))
      BY <1>3, <1>4, ThenIsText
    <2>8. g = Then(c, l)
      BY DEF g, l
    <2> QED
      BY <2>3, <2>4, <2>5, <2>6, <2>7, <2>8
  <1>16. Inserted(Text(d), list) = Text(e)
    BY <1>11, <1>12, <1>13, <1>14, <1>15
  <1> QED
    BY <1>5, <1>6, <1>16

-----------------------------------------------------------------------------
(* Every run leaves a document of the grammar.                             *)

LEMMA SpliceStep ==
    ASSUME NEW list \in Lists, ScannerInv, Splice(list)
    PROVE  ScannerInv'
  <1>1. /\ phase = "located" /\ RootOpen(text) # 0 /\ text' = SpliceFolders(text, found, list)
        /\ doc' = WithFolders(doc, list) /\ phase' = "start"
    BY DEF Splice
  <1>2. doc \in ScannedDocuments /\ text = Text(doc) /\ LocatedInv
    BY <1>1 DEF ScannerInv
  <1>3. doc.open = LeftBrace
    BY <1>1, <1>2, RootIsThere
  <1>4. Located(doc, found)
    BY <1>2, <1>3 DEF LocatedInv
  <1>5. /\ WithFolders(doc, list) \in ScannedDocuments
        /\ SpliceFolders(Text(doc), found, list) = Text(WithFolders(doc, list))
    <2>1. CASE found = NoMember /\ FoldersOf(doc) = {}
      <3>1. SpliceFolders(Text(doc), found, list) = Inserted(Text(doc), list)
        BY <2>1 DEF SpliceFolders
      <3>2. CASE Size(doc) = 0
        BY <1>2, <1>3, <2>1, <3>1, <3>2, InsertsOnly
      <3>3. CASE Size(doc) # 0
        BY <1>2, <1>3, <2>1, <3>1, <3>3, InsertsFirst
      <3> QED
        BY <3>2, <3>3
    <2>2. ASSUME NEW k \in FoldersOf(doc),
                 found = [first |-> ValueOf(doc.members[k], MemberAt(doc, k)) + 1,
                          next |-> TailOf(doc.members[k], MemberAt(doc, k)) + 1]
          PROVE  /\ WithFolders(doc, list) \in ScannedDocuments
                 /\ SpliceFolders(Text(doc), found, list) = Text(WithFolders(doc, list))
      BY <1>2, <1>3, <2>2, SpliceReplaces
    <2> QED
      BY <1>4, <2>1, <2>2 DEF Located
  <1> QED
    BY <1>1, <1>2, <1>5 DEF ScannerInv

\* Between any two steps the text is that of a document, and the scanner is at one of
\* its parts, or has found the member that it should find.
LEMMA ScannerInvariant ==
    ASSUME Documents \subseteq JsoncDocuments, FolderLists \subseteq Lists
    PROVE  Spec => []ScannerInv
  <1>1. Init => ScannerInv
    <2> SUFFICES ASSUME Init
                 PROVE  ScannerInv
      OBVIOUS
    <2>1. doc \in ScannedDocuments
      BY JsoncIsScanned DEF Init
    <2> QED
      BY <2>1 DEF Init, ScannerInv
  <1>2. ScannerInv /\ [Next]_vars => ScannerInv'
    <2> SUFFICES ASSUME ScannerInv, [Next]_vars
                 PROVE  ScannerInv'
      OBVIOUS
    <2>1. CASE Open
      BY <2>1, OpenStep
    <2>2. CASE EndOfRoot
      BY <2>2, EndOfRootStep
    <2>3. CASE Comma
      BY <2>3, CommaStep
    <2>4. CASE Colon
      BY <2>4, ColonStep
    <2>5. CASE Key
      BY <2>5, KeyStep
    <2>6. CASE Value
      BY <2>6, ValueStep
    <2>7. CASE StepOver
      BY <2>7, NoStepOver
    <2>8. ASSUME NEW list \in FolderLists, Splice(list)
          PROVE  ScannerInv'
      <3>1. list \in Lists
        BY DEF Lists
      <3> QED
        BY <2>8, <3>1, SpliceStep
    <2>9. CASE Refuse
      BY <2>9 DEF Refuse, ScannerInv
    <2>10. CASE UNCHANGED vars
      BY <2>10 DEF vars, ScannerInv, ScanInv, LocatedInv
    <2> QED
      BY <2>1, <2>2, <2>3, <2>4, <2>5, <2>6, <2>7, <2>8, <2>9, <2>10 DEF Next
  <1> QED
    BY <1>1, <1>2, PTL DEF Spec

\* A workspace file remains one: however many runs have replaced or inserted the
\* array, the scanner can read what is there (rewrite.py:68-90).
THEOREM FilesStayReadable ==
    ASSUME Documents \subseteq JsoncDocuments, FolderLists \subseteq Lists
    PROVE  Spec => [](\E d \in ScannedDocuments : text = Text(d))
  <1>1. ScannerInv => \E d \in ScannedDocuments : text = Text(d)
    BY DEF ScannerInv
  <1> QED
    BY <1>1, ScannerInvariant, PTL

\* OnlyFoldersChange: a run changes the folders array of a workspace file and nothing
\* else in it (rewrite.py:1-9), whatever comments, strings and nested values the user
\* has there.
THEOREM UserTextIsKept ==
    ASSUME Documents \subseteq JsoncDocuments, FolderLists \subseteq Lists
    PROVE  Spec => []OnlyFoldersChange
  <1>1. ScannerInv => OnlyFoldersChange
    BY DEF ScannerInv, OnlyFoldersChange
  <1> QED
    BY <1>1, ScannerInvariant, PTL

\* In JSONC the scanner never takes the branch that steps over a character it cannot
\* place (jsonc.py:180-219): each turn is at a part of the grammar.
THEOREM NothingIsSteppedOver ==
    ASSUME Documents \subseteq JsoncDocuments, FolderLists \subseteq Lists
    PROVE  Spec => [][~StepOver]_vars
  <1>1. ScannerInv => ~StepOver
    BY NoStepOver
  <1> QED
    BY <1>1, ScannerInvariant, PTL DEF Spec

-----------------------------------------------------------------------------
(* config.json: what no two runs of the sync have in common, for every     *)
(* config.json, any number of sessions and whatever links there are.       *)

\* config.json is one of those considered.
ConfigKnown == raw \in Configs

\* The runs since the last save go by the config.json that there is.
Follows(c, r) == r.got = Load(c, SessionName(r.socket), r.override)

RunsAreCurrent == \E c \in {raw} : \A r \in runs : Follows(c, r)

RunsAreKnown == \A r \in runs : r.socket \in Sockets

SettingsInv == ConfigKnown /\ RunsAreCurrent /\ RunsAreKnown

\* Before the first run there is nothing to compare.
LEMMA InitSettings == ConfigInit => SettingsInv
BY DEF ConfigInit, SettingsInv, ConfigKnown, RunsAreCurrent, RunsAreKnown

\* A run that resolved something by the config.json of now keeps the invariant.
LEMMA RanSettings ==
    ASSUME SettingsInv, NEW socket \in Sockets, NEW override, Sync(socket, override)
    PROVE  SettingsInv'
<1>. DEFINE new == [socket |-> socket, override |-> override,
                    got |-> Load(raw, SessionName(socket), override)]
<1>1. runs' = runs \cup {new} /\ raw' = raw
  BY DEF Sync
<1>2. RunsAreCurrent'
  <2>1. \A r \in runs : Follows(raw, r)
    BY DEF SettingsInv, RunsAreCurrent
  <2>2. Follows(raw, new)
    BY DEF Follows
  <2>3. \A r \in runs \cup {new} : Follows(raw, r)
    BY <2>1, <2>2
  <2>. QED
    BY <1>1, <2>3 DEF RunsAreCurrent
<1>3. RunsAreKnown' /\ ConfigKnown'
  BY <1>1 DEF SettingsInv, RunsAreKnown, ConfigKnown
<1>. QED
  BY <1>2, <1>3 DEF SettingsInv

\* Each step keeps the invariant: a save forgets the runs.
LEMMA NextSettings == SettingsInv /\ [ConfigNext]_configVars => SettingsInv'
<1>. SUFFICES ASSUME SettingsInv, [ConfigNext]_configVars
              PROVE  SettingsInv'
  OBVIOUS
<1>1. CASE Save
  BY <1>1 DEF Save, SettingsInv, ConfigKnown, RunsAreCurrent, RunsAreKnown
<1>2. ASSUME NEW socket \in Sockets, NEW override \in Overrides, Sync(socket, override)
      PROVE  SettingsInv'
  BY <1>2, RanSettings
<1>3. CASE UNCHANGED configVars
  BY <1>3 DEF configVars, SettingsInv, ConfigKnown, RunsAreCurrent, RunsAreKnown
<1>. QED
  BY <1>1, <1>2, <1>3 DEF ConfigNext

\* The invariant holds for each behaviour.
LEMMA SettingsInvariant == ConfigSpec => []SettingsInv
BY InitSettings, NextSettings, PTL DEF ConfigSpec

\* A file that a session gets from config.json is one that it claims there.
LEMMA FilesAreClaimed ==
    ASSUME NEW c, NEW name, Resolved(c, name).file # Absent
    PROVE  [session |-> name, file |-> RealPath(Resolved(c, name).file)] \in Claims(c)
<1>1. CASE name \in Mapped(c)
  BY <1>1 DEF Resolved, FromEntry, Claims
<1>2. CASE name \notin Mapped(c)
  <2>1. name = Default /\ Resolved(c, name).file = TopFile(c)
    BY <1>2 DEF Resolved, FromTop
  <2>. QED
    BY <1>2, <2>1 DEF Claims
<1>. QED
  BY <1>1, <1>2

\* Two sessions never write one workspace file, unless the environment of a hook
\* makes them (config.py:224-247): what a session gets it claims, and load()
\* lets no two sessions claim one file.
THEOREM FilesCorrect == ConfigSpec => []OneSessionPerFile
<1>1. ASSUME SettingsInv
      PROVE  OneSessionPerFile
  <2>. SUFFICES ASSUME NEW a \in runs, NEW b \in runs, Writes(a), Writes(b),
                       a.socket # b.socket, a.override = Absent, b.override = Absent,
                       RealPath(a.got.file) = RealPath(b.got.file)
                PROVE  FALSE
    BY DEF OneSessionPerFile
  <2>. DEFINE m == SessionName(a.socket)
              n == SessionName(b.socket)
  <2>1. m # n
    BY <1>1, SocketAssumption DEF SettingsInv, RunsAreKnown
  <2>2. a.got = Load(raw, m, Absent) /\ b.got = Load(raw, n, Absent)
    BY <1>1 DEF SettingsInv, RunsAreCurrent, Follows
  <2>3. IsValid(raw, Absent)
    BY <2>2 DEF Writes, Load
  <2>4. a.got = Resolved(Read(raw), m) /\ b.got = Resolved(Read(raw), n)
    BY <2>2, <2>3 DEF Load
  <2>5. a.got.file # Absent /\ b.got.file # Absent
    BY DEF Writes, Skips
  <2>6. /\ [session |-> m, file |-> RealPath(a.got.file)] \in Claims(Read(raw))
        /\ [session |-> n, file |-> RealPath(b.got.file)] \in Claims(Read(raw))
    BY <2>4, <2>5, FilesAreClaimed
  <2>7. ClaimsAreUnique(Read(raw))
    BY <2>3 DEF IsValid
  <2>. QED
    BY <2>1, <2>6, <2>7 DEF ClaimsAreUnique
<1>. QED
  BY <1>1, SettingsInvariant, PTL

\* What load() takes from the top level, for a session without an entry.
LEMMA TopIsEnough ==
    ASSUME NEW c, NEW d, NEW name,
           c.workspaceFile = d.workspaceFile, c.mode = d.mode,
           c.pinnedFolders = d.pinnedFolders,
           \/ name \notin Mapped(c) /\ name \notin Mapped(d)
           \/ /\ name \in Mapped(c) /\ name \in Mapped(d)
              /\ Entries(c)[name] = Entries(d)[name]
    PROVE  Resolved(c, name) = Resolved(d, name)
BY DEF Resolved, FromTop, FromEntry, TopFile, TopMode, TopPins

\* What a session gets does not depend on the entries of the others, as long as
\* config.json is valid (config.py:250-340).
THEOREM EntriesCorrect == ConfigSpec => EntriesAreIndependent
<1>1. ASSUME NEW c \in Configs, NEW d, NEW name, SameFor(name, c, d)
      PROVE  Load(d, name, Absent) = Load(c, name, Absent)
  <2>1. Read(c) = c /\ Read(d) = d
    BY <1>1 DEF SameFor, NoJson, Read
  <2>2. c = [workspaceFile |-> c.workspaceFile, mode |-> c.mode,
             pinnedFolders |-> c.pinnedFolders, sessions |-> c.sessions]
    BY <1>1, RecordAssumption DEF SameFor, NoJson
  <2>3. /\ d.workspaceFile = c.workspaceFile /\ d.mode = c.mode
        /\ d.pinnedFolders = c.pinnedFolders
    BY <1>1, <2>2 DEF SameFor
  <2>4. Resolved(d, name) = Resolved(c, name)
    BY <1>1, <2>3, TopIsEnough DEF SameFor
  <2>. QED
    BY <1>1, <2>1, <2>4 DEF Load, SameFor
<1>2. ASSUME SettingsInv
      PROVE  Independent
  BY <1>1, <1>2 DEF Independent, SettingsInv, ConfigKnown
<1>. QED
  BY <1>2, SettingsInvariant, PTL DEF EntriesAreIndependent
=============================================================================
