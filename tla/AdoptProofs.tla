------------------------------ MODULE AdoptProofs ------------------------------
(***************************************************************************)
(* Proofs about Adopt for any number of runs, Spaces, folders and          *)
(* directories.                                                            *)
(*                                                                         *)
(* 1. What the loops of read_folders and plan_adoption build, by induction *)
(*    on the entries that they go through.                                 *)
(* 2. The Spaces: each has an id of its own.                               *)
(* 3. The plan of a run that nobody disturbs holds until it is carried     *)
(*    out: what is left of it is what the sidebar lacks.                   *)
(***************************************************************************)
EXTENDS Adopt, WellFoundedInduction, TLAPS

-----------------------------------------------------------------------------
(* Induction.                                                              *)

\* The natural numbers are the only set of naturals closed under successor.
LEMMA NatSetInduction ==
    ASSUME NEW T, 0 \in T, \A n \in Nat : n \in T => n + 1 \in T
    PROVE  Nat \subseteq T
<1> DEFINE R == OpToRel(<, Nat)
           B == {n \in Nat : n \notin T}
<1>1. IsWellFoundedOn(R, Nat)
  BY NatLessThanWellFounded
<1>2. SUFFICES ASSUME B # {}
               PROVE  FALSE
  OBVIOUS
<1>3. PICK x \in B : \A y \in B : ~(<<y, x>> \in R)
  <2> HIDE DEF R
  <2> QED
    BY <1>1, <1>2, WFMin
<1>4. x - 1 \in Nat /\ x # 0
  OBVIOUS
<1>5. <<x - 1, x>> \in R
  BY <1>4 DEF OpToRel
<1>6. x - 1 \notin B
  BY <1>3, <1>5
<1> QED
  BY <1>4, <1>6

\* A bounded set of positive numbers has a greatest element, which is its Max.
LEMMA MaxOfInterval ==
    ASSUME NEW n \in Nat, NEW s \in SUBSET (1..n), s # {}
    PROVE  Max(s) \in s /\ \A y \in s : y <= Max(s)
<1> DEFINE T == {k \in Nat : \A t \in SUBSET (1..k) : t # {} => \E x \in t : \A y \in t : x >= y}
<1>1. 0 \in T
  <2>1. \A t \in SUBSET (1..0) : t = {}
    OBVIOUS
  <2> QED
    BY <2>1
<1>2. ASSUME NEW k \in Nat, k \in T
      PROVE  k + 1 \in T
  <2> SUFFICES ASSUME NEW t \in SUBSET (1..(k + 1)), t # {}
               PROVE  \E x \in t : \A y \in t : x >= y
    OBVIOUS
  <2>1. CASE k + 1 \in t
    BY <2>1
  <2>2. CASE k + 1 \notin t
    <3>1. t \in SUBSET (1..k)
      BY <2>2
    <3> QED
      BY <3>1, <1>2
  <2> QED
    BY <2>1, <2>2
<1>3. Nat \subseteq T
  <2> HIDE DEF T
  <2> QED
    BY <1>1, <1>2, NatSetInduction
<1>4. PICK x \in s : \A y \in s : x >= y
  BY <1>3
<1>5. Max(s) \in s /\ \A y \in s : Max(s) >= y
  BY <1>4 DEF Max
<1> QED
  BY <1>5

-----------------------------------------------------------------------------
(* What a loop over a list builds.                                         *)

\* The body of the loops: an element of the set A is added, as h of it; in a
\* loop of the kind "once", unless its path is there already.
Added(es, e, A, h, kind) ==
    IF e \notin A \/ (kind = "once" /\ \E i \in DOMAIN es : es[i].path = e.path)
    THEN es ELSE Append(es, h[e])

\* The function that the fold over the first k elements of C iterates.
IsFold(g, k, C, A, h, kind) ==
    g = [s \in SUBSET (1..k) |->
            IF s = {} THEN <<>> ELSE Added(g[s \ {Max(s)}], C[Max(s)], A, h, kind)]

\* The recursive function by which a fold is defined exists.
LEMMA FoldExists ==
    ASSUME NEW C, NEW A, NEW h, NEW kind
    PROVE  \A k \in Nat : \E g : IsFold(g, k, C, A, h, kind)
<1> DEFINE T == {k \in Nat : \E g : IsFold(g, k, C, A, h, kind)}
<1>1. 0 \in T
  <2> DEFINE g == [s \in SUBSET (1..0) |-> <<>>]
  <2>1. \A s \in SUBSET (1..0) : s = {}
    OBVIOUS
  <2>2. IsFold(g, 0, C, A, h, kind)
    BY <2>1 DEF IsFold
  <2> QED
    BY <2>2
<1>2. ASSUME NEW k \in Nat, k \in T
      PROVE  k + 1 \in T
  <2>1. PICK g : IsFold(g, k, C, A, h, kind)
    BY <1>2
  <2> DEFINE f == [s \in SUBSET (1..(k + 1)) |->
                      IF s = {} THEN <<>> ELSE Added(g[s \ {Max(s)}], C[Max(s)], A, h, kind)]
  <2>2. \A t \in SUBSET (1..k) : f[t] = g[t]
    <3> SUFFICES ASSUME NEW t \in SUBSET (1..k)
                 PROVE  f[t] = g[t]
      OBVIOUS
    <3>1. t \in SUBSET (1..(k + 1))
      OBVIOUS
    <3>2. g[t] = IF t = {} THEN <<>> ELSE Added(g[t \ {Max(t)}], C[Max(t)], A, h, kind)
      BY <2>1 DEF IsFold
    <3> QED
      BY <3>1, <3>2
  <2>3. \A s \in SUBSET (1..(k + 1)) : s # {} => s \ {Max(s)} \in SUBSET (1..k)
    <3> HIDE DEF f
    <3> SUFFICES ASSUME NEW s \in SUBSET (1..(k + 1)), s # {}, NEW y \in s, y # Max(s)
                 PROVE  y \in 1..k
      OBVIOUS
    <3>1. k + 1 \in Nat
      OBVIOUS
    <3>2. Max(s) \in s /\ y <= Max(s)
      BY <3>1, MaxOfInterval
    <3>3. y \in 1..(k + 1) /\ Max(s) \in 1..(k + 1)
      BY <3>2
    <3> QED
      BY <3>2, <3>3
  <2>4. \A s \in SUBSET (1..(k + 1)) : s # {} => f[s \ {Max(s)}] = g[s \ {Max(s)}]
    <3> HIDE DEF f
    <3> QED
      BY <2>2, <2>3
  <2>5. IsFold(f, k + 1, C, A, h, kind)
    <3> DEFINE q == f
    <3>1. f = [s \in SUBSET (1..(k + 1)) |->
                  IF s = {} THEN <<>> ELSE Added(q[s \ {Max(s)}], C[Max(s)], A, h, kind)]
      <4> HIDE DEF q
      <4>1. \A s \in SUBSET (1..(k + 1)) : s # {} => q[s \ {Max(s)}] = g[s \ {Max(s)}]
        BY <2>4 DEF q
      <4> QED
        BY <4>1
    <3> QED
      BY <3>1 DEF IsFold
  <2> QED
    BY <2>5
<1>3. Nat \subseteq T
  <2> HIDE DEF T
  <2> QED
    BY <1>1, <1>2, NatSetInduction
<1> QED
  BY <1>3

\* The fold goes through the elements one by one.
LEMMA FoldSteps ==
    ASSUME NEW n \in Nat, NEW C, NEW A, NEW h, NEW kind, NEW g, IsFold(g, n, C, A, h, kind)
    PROVE  \E acc : /\ acc[0] = <<>>
                    /\ \A k \in 0..(n - 1) : acc[k + 1] = Added(acc[k], C[k + 1], A, h, kind)
                    /\ g[1..n] = acc[n]
<1> DEFINE acc == [k \in 0..n |-> g[1..k]]
<1>1. acc[0] = <<>>
  BY DEF IsFold
<1>2. ASSUME NEW k \in 0..(n - 1)
      PROVE  acc[k + 1] = Added(acc[k], C[k + 1], A, h, kind)
  <2>1. /\ k + 1 \in 0..n /\ k \in 0..n /\ k \in Nat /\ k + 1 \in Nat
        /\ k + 1 \in 1..(k + 1) /\ 1..(k + 1) \in SUBSET (1..n)
    OBVIOUS
  <2>2. Max(1..(k + 1)) = k + 1
    <3>1. 1..(k + 1) # {}
      BY <2>1
    <3>2. Max(1..(k + 1)) \in 1..(k + 1) /\ k + 1 <= Max(1..(k + 1))
      BY <2>1, <3>1, MaxOfInterval
    <3> QED
      BY <2>1, <3>2
  <2>3. (1..(k + 1)) \ {k + 1} = 1..k
    BY <2>1
  <2>4. g[1..(k + 1)] = Added(g[1..k], C[k + 1], A, h, kind)
    BY <2>1, <2>2, <2>3 DEF IsFold
  <2> QED
    BY <2>1, <2>4
<1>3. g[1..n] = acc[n]
  OBVIOUS
<1> QED
  <2> HIDE DEF acc
  <2> QED
    BY <1>1, <1>2, <1>3

\* A loop that only selects: the elements of A, in their order, at the places
\* at of the list.
Selects(es, at, k, C, A, h, E) ==
    /\ es \in Seq(E)
    /\ at \in [1..Len(es) -> 1..k]
    /\ \A m \in 1..Len(es) : C[at[m]] \in A /\ es[m] = h[C[at[m]]]
    /\ \A m1, m2 \in 1..Len(es) : m1 < m2 => at[m1] < at[m2]
    /\ \A i \in 1..k : C[i] \in A => \E m \in 1..Len(es) : at[m] = i

\* One more element of the list is taken into the selection, or left.
LEMMA SelectsStep ==
    ASSUME NEW E, NEW C, NEW A, NEW h \in [A -> E], NEW k \in Nat, NEW es, NEW at,
           Selects(es, at, k, C, A, h, E)
    PROVE  \E bt : Selects(Added(es, C[k + 1], A, h, "each"), bt, k + 1, C, A, h, E)
<1> DEFINE e == C[k + 1]
<1>0. /\ k + 1 \in 1..(k + 1) /\ 1..(k + 1) = 1..k \cup {k + 1} /\ k + 1 \notin 1..k
      /\ \A i \in 1..k : i < k + 1
  OBVIOUS
<1>1. /\ es \in Seq(E) /\ Len(es) \in Nat
      /\ at \in [1..Len(es) -> 1..k]
      /\ \A m \in 1..Len(es) : C[at[m]] \in A /\ es[m] = h[C[at[m]]]
      /\ \A m1, m2 \in 1..Len(es) : m1 < m2 => at[m1] < at[m2]
      /\ \A i \in 1..k : C[i] \in A => \E m \in 1..Len(es) : at[m] = i
  BY DEF Selects
<1>2. CASE e \notin A
  <2>1. Added(es, e, A, h, "each") = es
    BY <1>2 DEF Added
  <2>2. at \in [1..Len(es) -> 1..(k + 1)]
    BY <1>0, <1>1
  <2>3. Selects(es, at, k + 1, C, A, h, E)
    BY <1>0, <1>1, <1>2, <2>2 DEF Selects
  <2> QED
    BY <2>1, <2>3
<1>3. CASE e \in A
  <2> DEFINE new == Append(es, h[e])
             n == Len(es) + 1
             bt == [m \in 1..n |-> IF m = n THEN k + 1 ELSE at[m]]
  <2>1. Added(es, e, A, h, "each") = new
    BY <1>3 DEF Added
  <2>2. /\ new \in Seq(E) /\ Len(new) = n /\ new[n] = h[e]
        /\ \A m \in 1..Len(es) : new[m] = es[m]
        /\ n \in Nat /\ 1..n = 1..Len(es) \cup {n} /\ n \in 1..n /\ n \notin 1..Len(es)
        /\ \A m \in 1..Len(es) : m < n
    BY <1>1, <1>3
  <2>3. /\ bt \in [1..n -> 1..(k + 1)] /\ bt[n] = k + 1
        /\ \A m \in 1..Len(es) : bt[m] = at[m] /\ bt[m] \in 1..k
    BY <1>0, <1>1, <2>2
  <2> HIDE DEF new, n, bt
  <2>4. \A m \in 1..n : C[bt[m]] \in A /\ new[m] = h[C[bt[m]]]
    BY <1>1, <1>3, <2>2, <2>3
  <2>5. ASSUME NEW m1 \in 1..n, NEW m2 \in 1..n, m1 < m2
        PROVE  bt[m1] < bt[m2]
    <3>1. m1 \in 1..Len(es)
      BY <1>1, <2>2, <2>5 DEF n
    <3>2. CASE m2 = n
      BY <1>0, <2>3, <3>1, <3>2
    <3>3. CASE m2 \in 1..Len(es)
      BY <1>1, <2>3, <2>5, <3>1, <3>3
    <3> QED
      BY <2>2, <3>2, <3>3
  <2>6. \A i \in 1..(k + 1) : C[i] \in A => \E m \in 1..n : bt[m] = i
    BY <1>0, <1>1, <2>2, <2>3
  <2>7. Selects(new, bt, k + 1, C, A, h, E)
    BY <2>2, <2>3, <2>4, <2>5, <2>6 DEF Selects
  <2> QED
    BY <2>1, <2>7
<1> QED
  BY <1>2, <1>3

\* A loop over a list selects what it should, by induction on the elements.
LEMMA FoldSelects ==
    ASSUME NEW E, NEW n \in Nat, NEW C, NEW A, NEW h \in [A -> E], NEW g,
           IsFold(g, n, C, A, h, "each")
    PROVE  \E at : Selects(g[1..n], at, n, C, A, h, E)
<1>1. PICK acc : /\ acc[0] = <<>>
                 /\ \A k \in 0..(n - 1) : acc[k + 1] = Added(acc[k], C[k + 1], A, h, "each")
                 /\ g[1..n] = acc[n]
  BY FoldSteps
<1> DEFINE T == {k \in Nat : k <= n => \E at : Selects(acc[k], at, k, C, A, h, E)}
<1>2. 0 \in T
  <2>1. Selects(<<>>, <<>>, 0, C, A, h, E)
    <3>1. Len(<<>>) = 0 /\ <<>> \in Seq(E) /\ 1..0 = {}
      OBVIOUS
    <3>2. <<>> \in [1..0 -> 1..0]
      OBVIOUS
    <3> QED
      BY <3>1, <3>2 DEF Selects
  <2> QED
    BY <1>1, <2>1
<1>3. ASSUME NEW k \in Nat, k \in T
      PROVE  k + 1 \in T
  <2> SUFFICES ASSUME k + 1 <= n
               PROVE  \E at : Selects(acc[k + 1], at, k + 1, C, A, h, E)
    OBVIOUS
  <2>1. k \in 0..(n - 1) /\ \E at : Selects(acc[k], at, k, C, A, h, E)
    BY <1>3
  <2>2. PICK at : Selects(acc[k], at, k, C, A, h, E)
    BY <2>1
  <2>3. \E bt : Selects(Added(acc[k], C[k + 1], A, h, "each"), bt, k + 1, C, A, h, E)
    BY <2>2, SelectsStep
  <2> QED
    BY <1>1, <2>1, <2>3
<1>4. Nat \subseteq T
  <2> HIDE DEF T
  <2> QED
    BY <1>2, <1>3, NatSetInduction
<1> QED
  BY <1>1, <1>4

\* A loop that remembers what it has seen: no path twice.
LEMMA FoldDistinct ==
    ASSUME NEW n \in Nat, NEW C, NEW A, NEW h, \A e \in A : h[e] = e,
           NEW g, IsFold(g, n, C, A, h, "once")
    PROVE  /\ g[1..n] \in Seq(A)
           /\ \A i, j \in DOMAIN g[1..n] : g[1..n][i].path = g[1..n][j].path => i = j
<1>1. PICK acc : /\ acc[0] = <<>>
                 /\ \A k \in 0..(n - 1) : acc[k + 1] = Added(acc[k], C[k + 1], A, h, "once")
                 /\ g[1..n] = acc[n]
  BY FoldSteps
<1> DEFINE Good(es) == es \in Seq(A) /\ \A i, j \in DOMAIN es : es[i].path = es[j].path => i = j
           T == {k \in Nat : k <= n => Good(acc[k])}
<1>2. 0 \in T
  <2>1. Good(<<>>)
    OBVIOUS
  <2> HIDE DEF Good
  <2> QED
    BY <1>1, <2>1
<1>3. ASSUME NEW es, Good(es), NEW e
      PROVE  Good(Added(es, e, A, h, "once"))
  <2>1. CASE e \notin A \/ \E i \in DOMAIN es : es[i].path = e.path
    <3>1. Added(es, e, A, h, "once") = es
      BY <2>1 DEF Added
    <3> QED
      BY <1>3, <3>1
  <2>2. CASE e \in A /\ \A i \in DOMAIN es : es[i].path # e.path
    <3>1. Added(es, e, A, h, "once") = Append(es, e)
      BY <2>2 DEF Added
    <3>2. /\ Append(es, e) \in Seq(A)
          /\ DOMAIN Append(es, e) = DOMAIN es \cup {Len(es) + 1}
          /\ Append(es, e)[Len(es) + 1] = e
          /\ \A i \in DOMAIN es : Append(es, e)[i] = es[i]
      BY <1>3, <2>2
    <3>3. \A i, j \in DOMAIN Append(es, e) : Append(es, e)[i].path = Append(es, e)[j].path => i = j
      BY <1>3, <2>2, <3>2
    <3> QED
      BY <3>1, <3>2, <3>3
  <2> QED
    BY <2>1, <2>2
<1>4. ASSUME NEW k \in Nat, k \in T
      PROVE  k + 1 \in T
  <2> SUFFICES ASSUME k + 1 <= n
               PROVE  Good(acc[k + 1])
    OBVIOUS
  <2>1. k \in 0..(n - 1) /\ Good(acc[k])
    BY <1>4
  <2> HIDE DEF Good
  <2> QED
    BY <1>1, <1>3, <2>1
<1>5. Nat \subseteq T
  <2> HIDE DEF T
  <2> QED
    BY <1>2, <1>4, NatSetInduction
<1> QED
  BY <1>1, <1>5

-----------------------------------------------------------------------------
(* The loops of Adopt.                                                     *)

Ref == [path : Dirs, name : Labels \cup {NoName}]

\* read_folders: usable entries, each path once.
LEMMA RefsAre ==
    /\ Refs \in Seq(Ref) /\ Len(Refs) \in Nat /\ DOMAIN Refs = 1..Len(Refs)
    /\ \A i \in DOMAIN Refs : Refs[i].path \in Dirs /\ Refs[i].name \in Labels \cup {NoName}
    /\ \A i, j \in DOMAIN Refs : Refs[i].path = Refs[j].path => i = j
<1> DEFINE n == Len(Folders)
           A == Ref \ {Unusable}
           h == [e \in A |-> e]
           Body(es, e) == IF e = Unusable \/ \E i \in DOMAIN es : es[i].path = e.path
                          THEN es ELSE Append(es, e)
           P(f) == f = [s \in SUBSET DOMAIN Folders |->
                           IF s = {} THEN <<>> ELSE Body(f[s \ {Max(s)}], Folders[Max(s)])]
           it == CHOOSE f : P(f)
<1>1. n \in Nat /\ DOMAIN Folders = 1..n /\ \A i \in 1..n : Folders[i] \in Ref \cup {Unusable}
  BY AdoptAssumption DEF Ref
<1>2. \A e \in Ref \cup {Unusable} : \A es : Body(es, e) = Added(es, e, A, h, "once")
  BY DEF Added
<1>3. \A s \in SUBSET (1..n) : s # {} => Folders[Max(s)] \in Ref \cup {Unusable}
  <2> SUFFICES ASSUME NEW s \in SUBSET (1..n), s # {}
               PROVE  Folders[Max(s)] \in Ref \cup {Unusable}
    OBVIOUS
  <2>1. Max(s) \in s
    BY <1>1, MaxOfInterval
  <2> QED
    BY <1>1, <2>1
<1> HIDE DEF Body, h
<1>4. \A f : P(f) <=> IsFold(f, n, Folders, A, h, "once")
  <2> SUFFICES ASSUME NEW f
               PROVE  P(f) <=> IsFold(f, n, Folders, A, h, "once")
    OBVIOUS
  <2>1. \A s \in SUBSET (1..n) : s # {} =>
           Body(f[s \ {Max(s)}], Folders[Max(s)])
             = Added(f[s \ {Max(s)}], Folders[Max(s)], A, h, "once")
    BY <1>2, <1>3
  <2>2. [s \in SUBSET (1..n) |->
           IF s = {} THEN <<>> ELSE Body(f[s \ {Max(s)}], Folders[Max(s)])]
        = [s \in SUBSET (1..n) |->
           IF s = {} THEN <<>> ELSE Added(f[s \ {Max(s)}], Folders[Max(s)], A, h, "once")]
    BY <2>1
  <2> QED
    BY <1>1, <2>2 DEF IsFold
<1>5. \E f : P(f)
  <2> HIDE DEF P, A
  <2> QED
    BY <1>1, <1>4, FoldExists
<1>6. P(it)
  <2> HIDE DEF P
  <2> QED
    BY <1>5
<1>7. IsFold(it, n, Folders, A, h, "once")
  BY <1>4, <1>6
<1>8. Refs = it[1..n]
  BY <1>1 DEF Refs, FoldLeft, MapThenFoldSet, Body
<1> HIDE DEF it, P, n
<1>9. Refs \in Seq(A) /\ \A i, j \in DOMAIN Refs : Refs[i].path = Refs[j].path => i = j
  <2>1. A \in SUBSET A /\ h \in [A -> A] /\ \A e \in A : h[e] = e
    BY DEF h
  <2>2. /\ it[1..n] \in Seq(A)
        /\ \A i, j \in DOMAIN it[1..n] : it[1..n][i].path = it[1..n][j].path => i = j
    <3> HIDE DEF A
    <3>1. n \in Nat
      BY <1>1
    <3> QED
      BY ONLY <1>7, <2>1, <3>1, FoldDistinct
  <2> QED
    BY <1>8, <2>2
<1>10. Refs \in Seq(Ref)
  BY <1>9
<1>11. \A i \in DOMAIN Refs : Refs[i] \in Ref
  BY <1>10
<1> QED
  BY <1>9, <1>10, <1>11 DEF Ref

\* plan_adoption: the folders that exist and have no Space, in their order.
LEMMA CreatesAre ==
    ASSUME NEW S
    PROVE  \E at : Selects(Creates(S), at, Len(Refs), Refs,
                           {e \in Ref : IsDir(e.path) /\ SpacesAt(S, e.path) = {}},
                           [e \in {e \in Ref : IsDir(e.path) /\ SpacesAt(S, e.path) = {}} |-> e],
                           Ref)
<1> DEFINE n == Len(Refs)
           A == {e \in Ref : IsDir(e.path) /\ SpacesAt(S, e.path) = {}}
           h == [e \in A |-> e]
           Body(es, e) == IF IsDir(e.path) /\ SpacesAt(S, e.path) = {}
                          THEN Append(es, e) ELSE es
           P(f) == f = [s \in SUBSET DOMAIN Refs |->
                           IF s = {} THEN <<>> ELSE Body(f[s \ {Max(s)}], Refs[Max(s)])]
           it == CHOOSE f : P(f)
<1>1. n \in Nat /\ DOMAIN Refs = 1..n /\ \A i \in 1..n : Refs[i] \in Ref
  BY RefsAre
<1>2. \A e \in Ref : \A es : Body(es, e) = Added(es, e, A, h, "each")
  BY DEF Added
<1>3. \A s \in SUBSET (1..n) : s # {} => Refs[Max(s)] \in Ref
  <2> SUFFICES ASSUME NEW s \in SUBSET (1..n), s # {}
               PROVE  Refs[Max(s)] \in Ref
    OBVIOUS
  <2>1. Max(s) \in s
    BY <1>1, MaxOfInterval
  <2> QED
    BY <1>1, <2>1
<1> HIDE DEF Body, h
<1>4. \A f : P(f) <=> IsFold(f, n, Refs, A, h, "each")
  <2> SUFFICES ASSUME NEW f
               PROVE  P(f) <=> IsFold(f, n, Refs, A, h, "each")
    OBVIOUS
  <2>1. \A s \in SUBSET (1..n) : s # {} =>
           Body(f[s \ {Max(s)}], Refs[Max(s)])
             = Added(f[s \ {Max(s)}], Refs[Max(s)], A, h, "each")
    BY <1>2, <1>3
  <2>2. [s \in SUBSET (1..n) |->
           IF s = {} THEN <<>> ELSE Body(f[s \ {Max(s)}], Refs[Max(s)])]
        = [s \in SUBSET (1..n) |->
           IF s = {} THEN <<>> ELSE Added(f[s \ {Max(s)}], Refs[Max(s)], A, h, "each")]
    BY <2>1
  <2> QED
    BY <1>1, <2>2 DEF IsFold
<1>5. \E f : P(f)
  <2> HIDE DEF P, A
  <2> QED
    BY <1>1, <1>4, FoldExists
<1>6. P(it)
  <2> HIDE DEF P
  <2> QED
    BY <1>5
<1>7. IsFold(it, n, Refs, A, h, "each")
  BY <1>4, <1>6
<1>8. Creates(S) = it[1..n]
  BY <1>1 DEF Creates, FoldLeft, MapThenFoldSet, Body
<1>9. h \in [A -> Ref]
  BY DEF h
<1>10. \E at : Selects(it[1..n], at, n, Refs, A, h, Ref)
  <2> HIDE DEF it, P, n, A
  <2> QED
    BY <1>1, <1>7, <1>9, FoldSelects
<1>11. \E at : Selects(Creates(S), at, n, Refs, A, h, Ref)
  <2> HIDE DEF it, P, n, A
  <2> QED
    BY <1>8, <1>10
<1> QED
  BY <1>11 DEF h

\* plan_adoption: with --relabel, the folders that have another label.
LEMMA RenamesAre ==
    ASSUME NEW S, NEW relabel \in BOOLEAN
    PROVE  \E at : Selects(Renames(S, relabel), at, Len(Refs), Refs,
                           {e \in Ref : relabel /\ Mislabelled(S, e)},
                           [e \in {e \in Ref : relabel /\ Mislabelled(S, e)} |-> RenameTo(S, e)],
                           {RenameTo(S, e) : e \in Ref})
<1> DEFINE n == Len(Refs)
           A == {e \in Ref : relabel /\ Mislabelled(S, e)}
           E == {RenameTo(S, e) : e \in Ref}
           h == [e \in A |-> RenameTo(S, e)]
           Body(es, e) == IF relabel /\ Mislabelled(S, e)
                          THEN Append(es, RenameTo(S, e)) ELSE es
           P(f) == f = [s \in SUBSET DOMAIN Refs |->
                           IF s = {} THEN <<>> ELSE Body(f[s \ {Max(s)}], Refs[Max(s)])]
           it == CHOOSE f : P(f)
<1>1. n \in Nat /\ DOMAIN Refs = 1..n /\ \A i \in 1..n : Refs[i] \in Ref
  BY RefsAre
<1>2. \A e \in Ref : \A es : Body(es, e) = Added(es, e, A, h, "each")
  BY DEF Added
<1>3. \A s \in SUBSET (1..n) : s # {} => Refs[Max(s)] \in Ref
  <2> SUFFICES ASSUME NEW s \in SUBSET (1..n), s # {}
               PROVE  Refs[Max(s)] \in Ref
    OBVIOUS
  <2>1. Max(s) \in s
    BY <1>1, MaxOfInterval
  <2> QED
    BY <1>1, <2>1
<1> HIDE DEF Body, h
<1>4. \A f : P(f) <=> IsFold(f, n, Refs, A, h, "each")
  <2> SUFFICES ASSUME NEW f
               PROVE  P(f) <=> IsFold(f, n, Refs, A, h, "each")
    OBVIOUS
  <2>1. \A s \in SUBSET (1..n) : s # {} =>
           Body(f[s \ {Max(s)}], Refs[Max(s)])
             = Added(f[s \ {Max(s)}], Refs[Max(s)], A, h, "each")
    BY <1>2, <1>3
  <2>2. [s \in SUBSET (1..n) |->
           IF s = {} THEN <<>> ELSE Body(f[s \ {Max(s)}], Refs[Max(s)])]
        = [s \in SUBSET (1..n) |->
           IF s = {} THEN <<>> ELSE Added(f[s \ {Max(s)}], Refs[Max(s)], A, h, "each")]
    BY <2>1
  <2> QED
    BY <1>1, <2>2 DEF IsFold
<1>5. \E f : P(f)
  <2> HIDE DEF P, A
  <2> QED
    BY <1>1, <1>4, FoldExists
<1>6. P(it)
  <2> HIDE DEF P
  <2> QED
    BY <1>5
<1>7. IsFold(it, n, Refs, A, h, "each")
  BY <1>4, <1>6
<1>8. Renames(S, relabel) = it[1..n]
  BY <1>1 DEF Renames, FoldLeft, MapThenFoldSet, Body
<1>9. h \in [A -> E]
  BY DEF h
<1>10. \E at : Selects(it[1..n], at, n, Refs, A, h, E)
  <2> HIDE DEF it, P, n, A, E
  <2> QED
    BY <1>1, <1>7, <1>9, FoldSelects
<1>11. \E at : Selects(Renames(S, relabel), at, n, Refs, A, h, E)
  <2> HIDE DEF it, P, n, A, E
  <2> QED
    BY <1>8, <1>10
<1> QED
  BY <1>11 DEF h, E

\* A folder's place in the file.
LEMMA PlaceIs ==
    ASSUME NEW i \in DOMAIN Refs
    PROVE  Place(Refs[i].path) = i
BY RefsAre DEF Place

\* The plan: what is to be created, ...
LEMMA CreatesOf ==
    ASSUME NEW S
    PROVE  /\ Creates(S) \in Seq(Ref)
           /\ \A k \in DOMAIN Creates(S) :
                 /\ IsDir(Creates(S)[k].path) /\ SpacesAt(S, Creates(S)[k].path) = {}
                 /\ \E i \in DOMAIN Refs : Creates(S)[k] = Refs[i]
           /\ \A k, l \in DOMAIN Creates(S) :
                 k < l => Place(Creates(S)[k].path) < Place(Creates(S)[l].path)
           /\ \A i \in DOMAIN Refs :
                 IsDir(Refs[i].path) /\ SpacesAt(S, Refs[i].path) = {}
                   => \E k \in DOMAIN Creates(S) : Creates(S)[k] = Refs[i]
<1> DEFINE C == Creates(S)
           n == Len(Refs)
           A == {e \in Ref : IsDir(e.path) /\ SpacesAt(S, e.path) = {}}
           h == [e \in A |-> e]
<1>1. PICK at : Selects(C, at, n, Refs, A, h, Ref)
  BY CreatesAre
<1> HIDE DEF C
<1>2. /\ C \in Seq(Ref) /\ DOMAIN C = 1..Len(C)
      /\ at \in [1..Len(C) -> 1..n]
      /\ \A m \in 1..Len(C) : Refs[at[m]] \in A /\ C[m] = h[Refs[at[m]]]
      /\ \A m1, m2 \in 1..Len(C) : m1 < m2 => at[m1] < at[m2]
      /\ \A i \in 1..n : Refs[i] \in A => \E m \in 1..Len(C) : at[m] = i
  <2> HIDE DEF A, h, n
  <2> QED
    BY <1>1 DEF Selects
<1>3. n \in Nat /\ DOMAIN Refs = 1..n /\ \A i \in 1..n : Refs[i] \in Ref
  BY RefsAre
<1>4. ASSUME NEW k \in DOMAIN C
      PROVE  /\ at[k] \in DOMAIN Refs /\ C[k] = Refs[at[k]] /\ Place(C[k].path) = at[k]
             /\ IsDir(C[k].path) /\ SpacesAt(S, C[k].path) = {}
  <2>1. at[k] \in DOMAIN Refs /\ Refs[at[k]] \in A /\ C[k] = h[Refs[at[k]]]
    BY <1>2, <1>3
  <2>2. C[k] = Refs[at[k]]
    BY <2>1
  <2> QED
    BY <2>1, <2>2, PlaceIs
<1>5. ASSUME NEW i \in DOMAIN Refs, IsDir(Refs[i].path), SpacesAt(S, Refs[i].path) = {}
      PROVE  \E k \in DOMAIN C : C[k] = Refs[i]
  <2>1. PICK m \in 1..Len(C) : at[m] = i
    BY <1>2, <1>3, <1>5
  <2> QED
    BY <1>2, <1>4, <2>1
<1>6. \A k, l \in DOMAIN C : k < l => Place(C[k].path) < Place(C[l].path)
  BY <1>2, <1>4
<1>7. \A k \in DOMAIN C : /\ IsDir(C[k].path) /\ SpacesAt(S, C[k].path) = {}
                         /\ \E i \in DOMAIN Refs : C[k] = Refs[i]
  BY <1>4
<1> HIDE DEF n, A, h
<1> QED
  BY <1>2, <1>5, <1>6, <1>7 DEF C

\* ... and what is to be renamed.
LEMMA RenamesOf ==
    ASSUME NEW S, NEW relabel \in BOOLEAN
    PROVE  /\ Renames(S, relabel) \in Seq({RenameTo(S, e) : e \in Ref})
           /\ \A k \in DOMAIN Renames(S, relabel) :
                 /\ relabel
                 /\ \E i \in DOMAIN Refs : /\ Mislabelled(S, Refs[i])
                                          /\ Renames(S, relabel)[k] = RenameTo(S, Refs[i])
           /\ relabel => \A i \in DOMAIN Refs : Mislabelled(S, Refs[i])
                   => \E k \in DOMAIN Renames(S, relabel) :
                         Renames(S, relabel)[k] = RenameTo(S, Refs[i])
<1> DEFINE N == Renames(S, relabel)
           n == Len(Refs)
           E == {RenameTo(S, e) : e \in Ref}
           A == {e \in Ref : relabel /\ Mislabelled(S, e)}
           h == [e \in A |-> RenameTo(S, e)]
<1>1. PICK at : Selects(N, at, n, Refs, A, h, E)
  BY RenamesAre
<1> HIDE DEF N, E
<1>2. /\ N \in Seq(E) /\ DOMAIN N = 1..Len(N)
      /\ at \in [1..Len(N) -> 1..n]
      /\ \A m \in 1..Len(N) : Refs[at[m]] \in A /\ N[m] = h[Refs[at[m]]]
      /\ \A i \in 1..n : Refs[i] \in A => \E m \in 1..Len(N) : at[m] = i
  <2> HIDE DEF A, h, n
  <2> QED
    BY <1>1 DEF Selects
<1>3. n \in Nat /\ DOMAIN Refs = 1..n /\ \A i \in 1..n : Refs[i] \in Ref
  BY RefsAre
<1>4. ASSUME NEW k \in DOMAIN N
      PROVE  /\ at[k] \in DOMAIN Refs /\ relabel /\ Mislabelled(S, Refs[at[k]])
             /\ N[k] = RenameTo(S, Refs[at[k]])
  <2>1. at[k] \in DOMAIN Refs /\ Refs[at[k]] \in A /\ N[k] = h[Refs[at[k]]]
    BY <1>2, <1>3
  <2> QED
    BY <2>1
<1>5. ASSUME NEW i \in DOMAIN Refs, relabel, Mislabelled(S, Refs[i])
      PROVE  \E k \in DOMAIN N : N[k] = RenameTo(S, Refs[i])
  <2>1. PICK m \in 1..Len(N) : at[m] = i
    BY <1>2, <1>3, <1>5
  <2> QED
    BY <1>2, <1>4, <2>1
<1>6. \A k \in DOMAIN N : relabel /\ \E i \in DOMAIN Refs : /\ Mislabelled(S, Refs[i])
                                                            /\ N[k] = RenameTo(S, Refs[i])
  BY <1>4
<1> HIDE DEF n, A, h
<1> QED
  BY <1>2, <1>5, <1>6 DEF N, E

-----------------------------------------------------------------------------
(* The Spaces.                                                             *)

Space == [id : Ids, label : Labels \cup {NoName}, path : Dirs \cup {NoPath}]

\* Every Space has an id of its own, which is never used again.
SpacesInv ==
    /\ spaces \in Seq(Space) /\ dirs \subseteq Dirs
    /\ \A i, j \in DOMAIN spaces : spaces[i].id = spaces[j].id => i = j
    /\ Open(spaces) \subseteq spent

\* A concatenation, position by position.
LEMMA ConcatIs ==
    ASSUME NEW E, NEW a \in Seq(E), NEW b \in Seq(E)
    PROVE  /\ a \o b \in Seq(E)
           /\ Len(a \o b) = Len(a) + Len(b)
           /\ \A k \in 1..Len(a) : (a \o b)[k] = a[k]
           /\ \A k \in 1..(Len(a) + Len(b)) : ~(k <= Len(a)) => (a \o b)[k] = b[k - Len(a)]
OBVIOUS

\* RemoveAt, position by position.
LEMMA RemoveAtKeeps ==
    ASSUME NEW E, NEW s \in Seq(E), NEW i \in DOMAIN s
    PROVE  /\ RemoveAt(s, i) \in Seq(E)
           /\ Len(RemoveAt(s, i)) = Len(s) - 1
           /\ \A k \in 1..(Len(s) - 1) :
                 RemoveAt(s, i)[k] = s[IF k < i THEN k ELSE k + 1]
<1> DEFINE a == SubSeq(s, 1, i - 1)
           b == SubSeq(s, i + 1, Len(s))
<1>1. Len(s) \in Nat /\ i \in 1..Len(s)
  OBVIOUS
<1>2. a \in Seq(E) /\ Len(a) = i - 1 /\ \A k \in 1..(i - 1) : a[k] = s[k]
  BY <1>1
<1>3. b \in Seq(E) /\ Len(b) = Len(s) - i /\ \A k \in 1..(Len(s) - i) : b[k] = s[i + k]
  BY <1>1
<1>4. RemoveAt(s, i) = a \o b
  BY DEF RemoveAt
<1> HIDE DEF a, b
<1>5. a \o b \in Seq(E) /\ Len(a \o b) = Len(s) - 1
  BY <1>1, <1>2, <1>3
<1>6. ASSUME NEW k \in 1..(Len(s) - 1)
      PROVE  (a \o b)[k] = s[IF k < i THEN k ELSE k + 1]
  <2>1. CASE k < i
    BY <1>1, <1>2, <1>3, <2>1
  <2>2. CASE ~(k < i)
    <3>1. k - (i - 1) \in 1..(Len(s) - i) /\ i + (k - (i - 1)) = k + 1
      BY <1>1, <2>2
    <3>2. (a \o b)[k] = b[k - (i - 1)]
      BY <1>1, <1>2, <1>3, <2>2, SMTT(20)
    <3> QED
      BY <1>3, <2>2, <3>1, <3>2
  <2> QED
    BY <2>1, <2>2
<1> QED
  BY <1>4, <1>5, <1>6

\* A list with one of its elements moved to the front.
Moved(s, n) == <<s[n]>> \o RemoveAt(s, n)

\* Moved, position by position.
LEMMA MovedIs ==
    ASSUME NEW E, NEW s \in Seq(E), NEW n \in DOMAIN s
    PROVE  /\ Moved(s, n) \in Seq(E)
           /\ Len(Moved(s, n)) = Len(s)
           /\ \A k \in 1..Len(s) : Moved(s, n)[k] = s[IF k = 1 THEN n ELSE IF k - 1 < n THEN k - 1 ELSE k]
<1> DEFINE r == RemoveAt(s, n)
           h == <<s[n]>>
           t == h \o r
<1>1. Len(s) \in Nat /\ n \in 1..Len(s) /\ DOMAIN s = 1..Len(s)
  OBVIOUS
<1>2. /\ r \in Seq(E)
      /\ Len(r) = Len(s) - 1
      /\ \A k \in 1..(Len(s) - 1) : r[k] = s[IF k < n THEN k ELSE k + 1]
  <2> HIDE DEF r
  <2> QED
    BY RemoveAtKeeps DEF r
<1>3. h \in Seq(E) /\ Len(h) = 1 /\ h[1] = s[n]
  OBVIOUS
<1>4. Moved(s, n) = t
  BY DEF Moved
<1> HIDE DEF r, h
<1>5. t \in Seq(E) /\ Len(t) = Len(s)
  <2>1. t \in Seq(E) /\ Len(t) = Len(h) + Len(r)
    <3>1. h \in Seq(E) /\ r \in Seq(E)
      BY <1>2, <1>3
    <3> QED
      BY <3>1, ConcatIs
  <2> QED
    BY <1>1, <1>2, <1>3, <2>1
<1>6. ASSUME NEW k \in 1..Len(s)
      PROVE  t[k] = s[IF k = 1 THEN n ELSE IF k - 1 < n THEN k - 1 ELSE k]
  <2>0. /\ \A i \in 1..Len(h) : t[i] = h[i]
        /\ \A i \in 1..(Len(h) + Len(r)) : ~(i <= Len(h)) => t[i] = r[i - Len(h)]
    <3>1. h \in Seq(E) /\ r \in Seq(E)
      BY <1>2, <1>3
    <3> QED
      BY <3>1, ConcatIs
  <2>1. CASE k = 1
    <3>1. 1 \in 1..Len(h)
      BY <1>3
    <3> QED
      BY <1>3, <2>0, <2>1, <3>1
  <2>2. CASE k # 1
    <3>1. k - 1 \in 1..(Len(s) - 1) /\ (k - 1) + 1 = k /\ k - Len(h) = k - 1
      BY <1>1, <1>3, <2>2
    <3>2. t[k] = r[k - Len(h)]
      <4>1. k \in 1..(Len(h) + Len(r)) /\ ~(k <= Len(h))
        BY <1>1, <1>2, <1>3, <2>2
      <4> QED
        BY <2>0, <4>1
    <3>3. r[k - 1] = s[IF k - 1 < n THEN k - 1 ELSE k]
      BY <1>2, <3>1
    <3> QED
      BY <2>2, <3>1, <3>2, <3>3
  <2> QED
    BY <2>1, <2>2
<1> QED
  BY <1>4, <1>5, <1>6

\* Where the elements come from: from different places.
LEMMA MovedFrom ==
    ASSUME NEW m \in Nat, NEW n \in 1..m
    PROVE  LET at == [k \in 1..m |-> IF k = 1 THEN n ELSE IF k - 1 < n THEN k - 1 ELSE k]
           IN  at \in [1..m -> 1..m] /\ \A i, j \in 1..m : at[i] = at[j] => i = j
OBVIOUS

\* A list that takes its Spaces, but for labels and paths, from different
\* places of a list with unique ids has unique ids.
LEMMA IdsStayUnique ==
    ASSUME NEW s \in Seq(Space), NEW t \in Seq(Space), NEW at \in [DOMAIN t -> DOMAIN s],
           \A i, j \in DOMAIN s : s[i].id = s[j].id => i = j,
           \A i, j \in DOMAIN t : at[i] = at[j] => i = j,
           \A i \in DOMAIN t : t[i].id = s[at[i]].id
    PROVE  /\ \A i, j \in DOMAIN t : t[i].id = t[j].id => i = j
           /\ Open(t) \subseteq Open(s)
<1>1. \A i, j \in DOMAIN t : t[i].id = t[j].id => i = j
  OBVIOUS
<1>2. Open(t) \subseteq Open(s)
  BY DEF Open
<1> QED
  BY <1>1, <1>2

\* A new Space gets an id that none has had.
LEMMA NewSpaceSafe ==
    ASSUME SpacesInv, NEW id, NEW d, NEW l \in Labels \cup {NoName}, NewSpace(id, d, l),
           UNCHANGED dirs
    PROVE  /\ spaces' \in Seq(Space)
           /\ \A i, j \in DOMAIN spaces' : spaces'[i].id = spaces'[j].id => i = j
           /\ Open(spaces') \subseteq spent'
<1> DEFINE e == [id |-> id, label |-> l, path |-> IF IsDir(d) THEN d ELSE Home]
           m == Len(spaces) + 1
<1>1. id \in Ids /\ id \notin Open(spaces) /\ spent' = spent \cup {id}
  BY DEF NewSpace, SpacesInv
<1>2. e \in Space /\ e.id = id
  BY <1>1, HerdrAssumption DEF Space, IsDir, SpacesInv
<1>3. spaces' = Append(spaces, e)
  BY DEF NewSpace
<1> HIDE DEF e
<1>4. /\ spaces' \in Seq(Space) /\ DOMAIN spaces' = DOMAIN spaces \cup {m} /\ spaces'[m] = e
      /\ m \notin DOMAIN spaces
      /\ \A i \in DOMAIN spaces : spaces'[i] = spaces[i]
  BY <1>2, <1>3 DEF SpacesInv
<1> HIDE DEF m
<1>5. \A i \in DOMAIN spaces : spaces[i].id # id /\ spaces[i].id \in spent
  BY <1>1 DEF Open, SpacesInv
<1>6. \A i, j \in DOMAIN spaces' : spaces'[i].id = spaces'[j].id => i = j
  BY <1>2, <1>4, <1>5 DEF SpacesInv
<1>7. Open(spaces') \subseteq spent'
  BY <1>1, <1>2, <1>4, <1>5 DEF Open
<1> QED
  BY <1>4, <1>6, <1>7

\* To close a Space keeps the ids of the others.
LEMMA CloseSpaceSafe ==
    ASSUME SpacesInv, NEW id, CloseSpace(id)
    PROVE  /\ spaces' \in Seq(Space)
           /\ \A i, j \in DOMAIN spaces' : spaces'[i].id = spaces'[j].id => i = j
           /\ Open(spaces') \subseteq spent'
<1>1. PICK n \in DOMAIN spaces : spaces' = RemoveAt(spaces, n)
  BY DEF CloseSpace
<1> DEFINE at == [k \in 1..(Len(spaces) - 1) |-> IF k < n THEN k ELSE k + 1]
<1>2. spaces \in Seq(Space) /\ \A i, j \in DOMAIN spaces : spaces[i].id = spaces[j].id => i = j
  BY DEF SpacesInv
<1>3. /\ spaces' \in Seq(Space)
      /\ DOMAIN spaces' = 1..(Len(spaces) - 1)
      /\ \A k \in 1..(Len(spaces) - 1) : spaces'[k] = spaces[IF k < n THEN k ELSE k + 1]
  <2>1. n \in DOMAIN spaces /\ Len(spaces) \in Nat
    BY <1>1, <1>2
  <2>2. /\ RemoveAt(spaces, n) \in Seq(Space)
        /\ Len(RemoveAt(spaces, n)) = Len(spaces) - 1
        /\ \A k \in 1..(Len(spaces) - 1) :
              RemoveAt(spaces, n)[k] = spaces[IF k < n THEN k ELSE k + 1]
    BY ONLY <1>2, <2>1, RemoveAtKeeps
  <2> QED
    BY ONLY <1>1, <2>1, <2>2
<1>4. /\ \A i \in DOMAIN spaces' : spaces'[i].id = spaces[at[i]].id
      /\ at \in [DOMAIN spaces' -> DOMAIN spaces]
      /\ \A i, j \in DOMAIN spaces' : at[i] = at[j] => i = j
  BY <1>2, <1>3, SMTT(20)
<1> HIDE DEF at
<1>5. /\ \A i, j \in DOMAIN spaces' : spaces'[i].id = spaces'[j].id => i = j
      /\ Open(spaces') \subseteq Open(spaces)
  BY <1>2, <1>3, <1>4, IdsStayUnique
<1> QED
  BY <1>3, <1>5 DEF CloseSpace, SpacesInv

\* To move a Space keeps the ids.
LEMMA MoveToFrontSafe ==
    ASSUME SpacesInv, NEW n, MoveToFront(n)
    PROVE  /\ spaces' \in Seq(Space)
           /\ \A i, j \in DOMAIN spaces' : spaces'[i].id = spaces'[j].id => i = j
           /\ Open(spaces') \subseteq spent'
<1> DEFINE m == Len(spaces)
           at == [k \in 1..m |-> IF k = 1 THEN n ELSE IF k - 1 < n THEN k - 1 ELSE k]
<1>1. n \in DOMAIN spaces /\ spaces' = Moved(spaces, n)
  BY DEF MoveToFront, Moved
<1>2. /\ spaces \in Seq(Space) /\ DOMAIN spaces = 1..m /\ m \in Nat
      /\ \A i, j \in DOMAIN spaces : spaces[i].id = spaces[j].id => i = j
  BY DEF SpacesInv
<1>3. /\ spaces' \in Seq(Space) /\ Len(spaces') = m
      /\ \A k \in 1..m : spaces'[k] = spaces[IF k = 1 THEN n ELSE IF k - 1 < n THEN k - 1 ELSE k]
  <2>1. spaces \in Seq(Space) /\ n \in DOMAIN spaces
    BY <1>1, <1>2
  <2>2. /\ Moved(spaces, n) \in Seq(Space) /\ Len(Moved(spaces, n)) = Len(spaces)
        /\ \A k \in 1..Len(spaces) : Moved(spaces, n)[k]
              = spaces[IF k = 1 THEN n ELSE IF k - 1 < n THEN k - 1 ELSE k]
    BY ONLY <2>1, MovedIs
  <2> QED
    BY ONLY <1>1, <2>2
<1> HIDE DEF m
<1>4. DOMAIN spaces' = DOMAIN spaces
  BY <1>2, <1>3
<1>5. \A i \in DOMAIN spaces' : spaces'[i].id = spaces[at[i]].id
  BY <1>2, <1>3, <1>4
<1>6. at \in [1..m -> 1..m] /\ \A i, j \in 1..m : at[i] = at[j] => i = j
  BY <1>1, <1>2, MovedFrom
<1> HIDE DEF at
<1>7. /\ \A i, j \in DOMAIN spaces' : spaces'[i].id = spaces'[j].id => i = j
      /\ Open(spaces') \subseteq Open(spaces)
  <2>1. at \in [DOMAIN spaces' -> DOMAIN spaces]
    BY <1>2, <1>4, <1>6
  <2>2. \A i, j \in DOMAIN spaces' : at[i] = at[j] => i = j
    BY <1>2, <1>4, <1>6
  <2> QED
    BY <1>2, <1>3, <1>5, <2>1, <2>2, IdsStayUnique
<1> QED
  BY <1>3, <1>7 DEF MoveToFront, SpacesInv

\* A new label, or a new path.
LEMMA RelabelSafe ==
    ASSUME SpacesInv, NEW f, spaces' = [i \in DOMAIN spaces |-> f[i]], UNCHANGED spent,
           \A i \in DOMAIN spaces : f[i] \in Space /\ f[i].id = spaces[i].id
    PROVE  /\ spaces' \in Seq(Space)
           /\ \A i, j \in DOMAIN spaces' : spaces'[i].id = spaces'[j].id => i = j
           /\ Open(spaces') \subseteq spent'
<1>1. spaces' \in Seq(Space) /\ DOMAIN spaces' = DOMAIN spaces
  BY DEF SpacesInv
<1>2. \A i \in DOMAIN spaces : spaces'[i].id = spaces[i].id
  OBVIOUS
<1> QED
  BY <1>1, <1>2 DEF SpacesInv, Open

\* A Space with another label or path is a Space of the same id.
LEMMA ChangedSpace ==
    ASSUME NEW s \in Space
    PROVE  /\ \A l \in Labels \cup {NoName} : LET t == [s EXCEPT !.label = l] IN t \in Space /\ t.id = s.id
           /\ \A p \in Dirs \cup {NoPath} :
                 LET t == [s EXCEPT !.path = p] IN t \in Space /\ t.id = s.id
BY DEF Space

\* To rename a Space keeps the ids.
LEMMA RenameSpaceSafe ==
    ASSUME SpacesInv, NEW id, NEW l \in Labels \cup {NoName}, RenameSpace(id, l)
    PROVE  /\ spaces' \in Seq(Space)
           /\ \A i, j \in DOMAIN spaces' : spaces'[i].id = spaces'[j].id => i = j
           /\ Open(spaces') \subseteq spent'
<1> DEFINE f == [i \in DOMAIN spaces |->
                    IF spaces[i].id = id THEN [spaces[i] EXCEPT !.label = l] ELSE spaces[i]]
<1>1. \A i \in DOMAIN spaces : f[i] \in Space /\ f[i].id = spaces[i].id
  <2>1. \A i \in DOMAIN spaces : spaces[i] \in Space
    BY DEF SpacesInv
  <2> QED
    BY <2>1, ChangedSpace
<1>2. spaces' = [i \in DOMAIN spaces |-> f[i]] /\ UNCHANGED spent
  BY DEF RenameSpace
<1> HIDE DEF f
<1> QED
  BY <1>1, <1>2, RelabelSafe

\* To change the directory of a Space keeps the ids.
LEMMA CdSafe ==
    ASSUME SpacesInv, NEW id, NEW p, Cd(id, p)
    PROVE  /\ spaces' \in Seq(Space)
           /\ \A i, j \in DOMAIN spaces' : spaces'[i].id = spaces'[j].id => i = j
           /\ Open(spaces') \subseteq spent'
<1> DEFINE f == [i \in DOMAIN spaces |->
                    IF spaces[i].id = id THEN [spaces[i] EXCEPT !.path = p] ELSE spaces[i]]
<1>1. p \in Dirs \cup {NoPath}
  BY DEF Cd, SpacesInv
<1>2. \A i \in DOMAIN spaces : f[i] \in Space /\ f[i].id = spaces[i].id
  <2>1. \A i \in DOMAIN spaces : spaces[i] \in Space
    BY DEF SpacesInv
  <2> QED
    BY <1>1, <2>1, ChangedSpace
<1>3. spaces' = [i \in DOMAIN spaces |-> f[i]] /\ UNCHANGED spent
  BY DEF Cd
<1> HIDE DEF f
<1> QED
  BY <1>2, <1>3, RelabelSafe

\* No change that a user makes breaks SpacesInv.
LEMMA ChangeSafe ==
    ASSUME SpacesInv, EventfulChange \/ SilentChange
    PROVE  SpacesInv'
<1>1. CASE EventfulChange
  <2>1. dirs' \subseteq Dirs
    BY <1>1 DEF EventfulChange, NewSpace, CloseSpace, RenameSpace, MoveToFront, FocusSpace,
                SpacesInv
  <2>2. CASE \E id \in Ids, d \in dirs, l \in Labels \cup {NoName} : NewSpace(id, d, l)
    <3>1. PICK id \in Ids, d \in dirs, l \in Labels \cup {NoName} : NewSpace(id, d, l)
      BY <2>2
    <3>2. UNCHANGED dirs
      BY <3>1 DEF NewSpace
    <3> QED
      BY <2>1, <3>1, <3>2, NewSpaceSafe DEF SpacesInv
  <2>3. CASE \E id \in Ids : CloseSpace(id)
    BY <2>1, <2>3, CloseSpaceSafe DEF SpacesInv
  <2>4. CASE \E id \in Ids : FocusSpace(id)
    BY <2>1, <2>4 DEF FocusSpace, SpacesInv, Open
  <2>5. CASE \E id \in Ids, l \in Labels : RenameSpace(id, l)
    BY <2>1, <2>5, RenameSpaceSafe DEF SpacesInv
  <2>6. CASE \E i \in DOMAIN spaces : MoveToFront(i)
    BY <2>1, <2>6, MoveToFrontSafe DEF SpacesInv
  <2> QED
    BY <1>1, <2>2, <2>3, <2>4, <2>5, <2>6 DEF EventfulChange
<1>2. CASE SilentChange
  <2>1. CASE \E id \in Ids, p \in Dirs \cup {NoPath} : Cd(id, p)
    <3>1. dirs' \subseteq Dirs
      BY <2>1 DEF Cd, SpacesInv
    <3> QED
      BY <2>1, <3>1, CdSafe DEF SpacesInv
  <2>2. CASE \E d \in Dirs : DirsChange(d)
    <3>1. dirs' \subseteq Dirs /\ UNCHANGED <<spaces, spent>>
      BY <2>2 DEF DirsChange, SpacesInv
    <3> QED
      BY <3>1 DEF SpacesInv, Open
  <2> QED
    BY <1>2, <2>1, <2>2 DEF SilentChange
<1> QED
  BY <1>1, <1>2

\* A snapshot is a list of Spaces.
LEMMA ReducedIs ==
    ASSUME spaces \in Seq(Space), NEW c, c.cwd \in Dirs \cup {NoPath}
    PROVE  Reduced(c) \in Seq(Space)
<1> DEFINE f == [i \in DOMAIN spaces |->
                    IF c.id = spaces[i].id /\ c.cwd # NoPath
                    THEN [spaces[i] EXCEPT !.path = c.cwd] ELSE spaces[i]]
<1>1. \A i \in DOMAIN spaces : f[i] \in Space
  <2>1. \A i \in DOMAIN spaces : spaces[i] \in Space
    OBVIOUS
  <2> QED
    BY <2>1, ChangedSpace
<1>2. DOMAIN spaces = 1..Len(spaces) /\ Len(spaces) \in Nat /\ DOMAIN f = DOMAIN spaces
  OBVIOUS
<1>3. Reduced(c) = f /\ f = [i \in DOMAIN spaces |-> f[i]]
  BY DEF Reduced
<1> HIDE DEF f
<1>4. f \in Seq(Space)
  BY <1>1, <1>2, <1>3
<1> QED
  BY <1>3, <1>4

\* The hook context is that of a Space, or none.
LEMMA ContextsAre ==
    ASSUME NEW S \in Seq(Space), NEW c \in Contexts(S)
    PROVE  /\ c.cwd \in Dirs \cup {NoPath}
           /\ c = NoContext \/ \E i \in DOMAIN S : c.id = S[i].id /\ c.cwd = S[i].path
<1>1. CASE c = NoContext
  BY <1>1 DEF NoContext
<1>2. CASE c # NoContext
  <2>1. PICK i \in DOMAIN S : c = [id |-> S[i].id, cwd |-> S[i].path]
    BY <1>2 DEF Contexts
  <2>2. S[i].path \in Dirs \cup {NoPath}
    <3>1. S[i] \in Space
      OBVIOUS
    <3> QED
      BY <3>1 DEF Space
  <2> QED
    BY <2>1, <2>2
<1> QED
  BY <1>1, <1>2

\* The least number of a set.
LEMMA LeastExists ==
    ASSUME NEW s \in SUBSET Nat, s # {}
    PROVE  \E m \in s : \A j \in s : m <= j
<1> DEFINE R == OpToRel(<, Nat)
<1>1. IsWellFoundedOn(R, Nat)
  BY NatLessThanWellFounded
<1>2. PICK m \in s : \A j \in s : ~(<<j, m>> \in R)
  <2> HIDE DEF R
  <2> QED
    BY <1>1, WFMin
<1>3. ASSUME NEW j \in s
      PROVE  m <= j
  <2>1. m \in Nat /\ j \in Nat /\ ~(<<j, m>> \in R)
    BY <1>2
  <2>2. j < m => <<j, m>> \in R
    BY <2>1 DEF OpToRel
  <2> HIDE DEF R
  <2> QED
    BY <2>1, <2>2
<1> QED
  BY <1>3

\* by_path gives the first Space of a path.
LEMMA FirstAtIs ==
    ASSUME NEW S, DOMAIN S \subseteq Nat, NEW p, SpacesAt(S, p) # {}
    PROVE  \E m \in SpacesAt(S, p) : /\ FirstAt(S, p) = S[m]
                                     /\ \A j \in SpacesAt(S, p) : m <= j
<1>1. SpacesAt(S, p) \in SUBSET Nat
  BY DEF SpacesAt
<1>2. \E m \in SpacesAt(S, p) : \A j \in SpacesAt(S, p) : m <= j
  BY <1>1, LeastExists
<1> QED
  BY <1>2 DEF FirstAt

\* FirstAt is the Space with the lowest index of those at a path.
LEMMA FirstAtWhere ==
    ASSUME NEW S, DOMAIN S \subseteq Nat, NEW p, NEW m \in SpacesAt(S, p),
           \A j \in SpacesAt(S, p) : m <= j
    PROVE  FirstAt(S, p) = S[m]
<1>1. SpacesAt(S, p) # {} /\ SpacesAt(S, p) \subseteq Nat
  BY DEF SpacesAt
<1>2. PICK n \in SpacesAt(S, p) : FirstAt(S, p) = S[n] /\ \A j \in SpacesAt(S, p) : n <= j
  BY <1>1, FirstAtIs
<1>3. n <= m /\ m <= n /\ n \in Nat /\ m \in Nat
  BY <1>1, <1>2
<1>4. n = m
  BY <1>3
<1> QED
  BY <1>2, <1>4

\* Tail, position by position.
LEMMA TailIs ==
    ASSUME NEW E, NEW s \in Seq(E), s # <<>>
    PROVE  /\ Tail(s) \in Seq(E) /\ 1 \in DOMAIN s /\ Head(s) = s[1]
           /\ \A k \in DOMAIN Tail(s) : /\ k + 1 \in DOMAIN s /\ Tail(s)[k] = s[k + 1]
                                        /\ 1 < k + 1
           /\ \A k \in DOMAIN s : k = 1 \/ (k - 1 \in DOMAIN Tail(s) /\ Tail(s)[k - 1] = s[k])
           /\ \A k, l \in DOMAIN Tail(s) : k < l => k + 1 < l + 1
OBVIOUS

-----------------------------------------------------------------------------
(* The runs.                                                               *)

Renaming == [id : Ids, label : Labels \cup {NoName}]
Context == [id : Ids \cup {NoId}, cwd : Dirs \cup {NoPath}]
Job == [pc : {"idle", "planning", "executing"}, context : Context, relabel : BOOLEAN,
        failed : BOOLEAN, creates : Seq(Ref), renames : Seq(Renaming)]

\* A run has nothing to do, and nothing that failed, before it has planned; it
\* renames only when asked to, and to names from the file.
JobOK(j) ==
    /\ j \in Job
    /\ j.pc # "executing" => j.creates = <<>> /\ j.renames = <<>> /\ j.failed = FALSE
    /\ \A k \in DOMAIN j.renames :
          j.relabel /\ \E i \in DOMAIN Refs : Refs[i].name = j.renames[k].label

JobsInv == job \in [Adopters -> Job] /\ \A a \in Adopters : JobOK(job[a])

\* A run that has not started is well formed.
LEMMA NoJobOK == JobOK(NoJob) /\ NoJob.pc = "idle"
<1>1. NoContext \in Context
  BY DEF NoContext, Context
<1>2. <<>> \in Seq(Ref) /\ <<>> \in Seq(Renaming) /\ DOMAIN <<>> = {}
  OBVIOUS
<1> QED
  BY <1>1, <1>2 DEF JobOK, NoJob, Job

\* A step of one run that leaves it well formed changes no other.
LEMMA JobChanges ==
    ASSUME JobsInv, NEW a \in Adopters, NEW j, job' = [job EXCEPT ![a] = j], JobOK(j)
    PROVE  /\ JobsInv' /\ job'[a] = j
           /\ \A b \in Adopters \ {a} : job'[b] = job[b]
<1>1. j \in Job /\ job \in [Adopters -> Job]
  BY DEF JobOK, JobsInv
<1>2. job'[a] = j /\ \A b \in Adopters \ {a} : job'[b] = job[b]
  BY <1>1
<1> QED
  BY <1>1, <1>2 DEF JobsInv

\* What a start does to the runs.
LEMMA StartJob ==
    ASSUME SpacesInv, JobsInv, NEW a \in Adopters, Start(a)
    PROVE  /\ JobsInv' /\ \A b \in Adopters \ {a} : job'[b] = job[b]
           /\ job'[a].pc = "planning" /\ job'[a].context \in Contexts(spaces)
<1>1. PICK c \in Contexts(spaces), relabel \in BOOLEAN :
         job' = [job EXCEPT ![a] = [NoJob EXCEPT !.pc = "planning", !.context = c,
                                                 !.relabel = relabel]]
  BY DEF Start
<1> DEFINE j == [NoJob EXCEPT !.pc = "planning", !.context = c, !.relabel = relabel]
<1>2. c \in Context
  <2>1. CASE c = NoContext
    BY <2>1 DEF NoContext, Context
  <2>2. CASE c # NoContext
    <3>1. PICK i \in DOMAIN spaces : c = [id |-> spaces[i].id, cwd |-> spaces[i].path]
      BY <2>2 DEF Contexts
    <3>2. spaces[i] \in Space
      BY DEF SpacesInv
    <3> QED
      BY <3>1, <3>2 DEF Space, Context
  <2> QED
    BY <2>1, <2>2
<1>3. JobOK(j) /\ j.pc = "planning" /\ j.context = c
  <2>1. NoJob \in Job /\ NoJob.creates = <<>> /\ NoJob.renames = <<>> /\ NoJob.failed = FALSE
    BY NoJobOK DEF JobOK, NoJob
  <2>2. /\ j \in Job /\ j.creates = <<>> /\ j.renames = <<>> /\ j.failed = FALSE
        /\ j.pc = "planning" /\ j.context = c
    BY <1>2, <2>1 DEF Job
  <2> QED
    BY <2>2 DEF JobOK
<1>4. job' = [job EXCEPT ![a] = j]
  BY <1>1
<1> HIDE DEF j
<1> QED
  BY <1>1, <1>3, <1>4, JobChanges

\* What a run that knows the Spaces S plans.
LEMMA PlannedOK ==
    ASSUME NEW S \in Seq(Space), NEW relabel \in BOOLEAN
    PROVE  /\ Renames(S, relabel) \in Seq(Renaming)
           /\ \A k \in DOMAIN Renames(S, relabel) :
                 relabel /\ \E i \in DOMAIN Refs : Refs[i].name = Renames(S, relabel)[k].label
<1> DEFINE N == Renames(S, relabel)
<1>1. /\ N \in Seq({RenameTo(S, e) : e \in Ref})
      /\ \A k \in DOMAIN N :
            relabel /\ \E i \in DOMAIN Refs : Mislabelled(S, Refs[i]) /\ N[k] = RenameTo(S, Refs[i])
  BY RenamesOf
<1> HIDE DEF N
<1>2. ASSUME NEW k \in DOMAIN N
      PROVE  N[k] \in Renaming /\ \E i \in DOMAIN Refs : Refs[i].name = N[k].label
  <2>1. PICK i \in DOMAIN Refs : Mislabelled(S, Refs[i]) /\ N[k] = RenameTo(S, Refs[i])
    BY <1>1
  <2>2. DOMAIN S \subseteq Nat /\ SpacesAt(S, Refs[i].path) # {}
    BY <2>1 DEF Mislabelled
  <2>3. PICK m \in SpacesAt(S, Refs[i].path) : FirstAt(S, Refs[i].path) = S[m]
    BY <2>2, FirstAtIs
  <2>4. S[m] \in Space
    BY <2>3 DEF SpacesAt
  <2>5. FirstAt(S, Refs[i].path).id \in Ids
    BY <2>3, <2>4 DEF Space
  <2> QED
    BY <2>1, <2>5, RefsAre DEF RenameTo, Renaming
<1>3. N \in Seq(Renaming)
  BY <1>1, <1>2
<1> QED
  BY <1>1, <1>2, <1>3 DEF N

\* What a plan does to the runs.
LEMMA PlanJob ==
    ASSUME SpacesInv, JobsInv, NEW a \in Adopters, Plan(a)
    PROVE  /\ JobsInv' /\ \A b \in Adopters \ {a} : job'[b] = job[b]
           /\ job'[a].pc = "executing" /\ job'[a].failed = FALSE
           /\ job'[a].relabel = job[a].relabel /\ job[a].relabel \in BOOLEAN
           /\ job'[a].creates = Creates(Reduced(job[a].context))
           /\ job'[a].renames = Renames(Reduced(job[a].context), job[a].relabel)
<1> DEFINE S == Reduced(job[a].context)
           C == Creates(S)
           N == Renames(S, job[a].relabel)
           j == [NoJob EXCEPT !.pc = "executing", !.relabel = job[a].relabel,
                              !.creates = C, !.renames = N]
<1>1. job[a].relabel \in BOOLEAN /\ job[a].context.cwd \in Dirs \cup {NoPath}
  BY DEF JobsInv, Job, Context
<1>2. S \in Seq(Space)
  BY <1>1, ReducedIs DEF SpacesInv
<1>3. job' = [job EXCEPT ![a] = j]
  BY DEF Plan
<1> HIDE DEF S
<1>4. C \in Seq(Ref)
  BY CreatesOf
<1>5. /\ N \in Seq(Renaming)
      /\ \A k \in DOMAIN N : job[a].relabel /\ \E i \in DOMAIN Refs : Refs[i].name = N[k].label
  BY <1>1, <1>2, PlannedOK
<1> HIDE DEF C, N
<1>6. /\ JobOK(j) /\ j.pc = "executing" /\ j.failed = FALSE /\ j.relabel = job[a].relabel
      /\ j.creates = C /\ j.renames = N
  <2>1. NoJob \in Job /\ NoJob.failed = FALSE
    BY NoJobOK DEF JobOK, NoJob
  <2>2. /\ j \in Job /\ j.creates = C /\ j.renames = N /\ j.failed = FALSE
        /\ j.pc = "executing" /\ j.relabel = job[a].relabel
    BY <1>1, <1>4, <1>5, <2>1 DEF Job
  <2> QED
    BY <1>5, <2>2 DEF JobOK
<1> HIDE DEF j
<1>7. /\ JobsInv' /\ job'[a] = j /\ \A b \in Adopters \ {a} : job'[b] = job[b]
  BY <1>3, <1>6, JobChanges
<1> QED
  BY <1>1, <1>6, <1>7 DEF C, N, S

\* What a create, done or failed, does to the runs.
LEMMA CreatedJob ==
    ASSUME JobsInv, NEW a \in Adopters, job[a].pc = "executing", job[a].creates # <<>>,
           NEW x \in BOOLEAN, Created(a, x)
    PROVE  /\ JobsInv' /\ \A b \in Adopters \ {a} : job'[b] = job[b]
           /\ job'[a].pc = "executing" /\ job'[a].failed = (job[a].failed \/ x)
           /\ job'[a].relabel = job[a].relabel
           /\ job'[a].creates = Tail(job[a].creates) /\ job'[a].renames = job[a].renames
<1> DEFINE j == [job[a] EXCEPT !.creates = Tail(job[a].creates), !.failed = job[a].failed \/ x]
<1>1. JobOK(job[a]) /\ job \in [Adopters -> Job]
  BY DEF JobsInv
<1>2. job' = [job EXCEPT ![a] = j]
  BY <1>1 DEF Created
<1>3. Tail(job[a].creates) \in Seq(Ref)
  BY <1>1 DEF Job
<1>4. /\ j \in Job /\ j.pc = "executing" /\ j.failed = (job[a].failed \/ x)
      /\ j.relabel = job[a].relabel
      /\ j.creates = Tail(job[a].creates) /\ j.renames = job[a].renames
  BY <1>1, <1>3 DEF Job
<1>5. JobOK(j)
  BY <1>1, <1>4 DEF JobOK
<1> HIDE DEF j
<1>6. /\ JobsInv' /\ job'[a] = j /\ \A b \in Adopters \ {a} : job'[b] = job[b]
  BY <1>2, <1>5, JobChanges
<1> QED
  BY <1>4, <1>6

\* What a rename, done or failed, does to the runs.
LEMMA RenamedJob ==
    ASSUME JobsInv, NEW a \in Adopters, job[a].pc = "executing", job[a].renames # <<>>,
           NEW x \in BOOLEAN, Renamed(a, x)
    PROVE  /\ JobsInv' /\ \A b \in Adopters \ {a} : job'[b] = job[b]
           /\ job'[a].pc = "executing" /\ job'[a].failed = (job[a].failed \/ x)
           /\ job'[a].relabel = job[a].relabel
           /\ job'[a].renames = Tail(job[a].renames) /\ job'[a].creates = job[a].creates
<1> DEFINE j == [job[a] EXCEPT !.renames = Tail(job[a].renames), !.failed = job[a].failed \/ x]
<1>1. JobOK(job[a]) /\ job \in [Adopters -> Job]
  BY DEF JobsInv
<1>2. job' = [job EXCEPT ![a] = j]
  BY <1>1 DEF Renamed
<1>3. /\ Tail(job[a].renames) \in Seq(Renaming)
      /\ \A k \in DOMAIN Tail(job[a].renames) :
            k + 1 \in DOMAIN job[a].renames /\ Tail(job[a].renames)[k] = job[a].renames[k + 1]
  <2>1. job[a].renames \in Seq(Renaming)
    BY <1>1 DEF Job
  <2> QED
    BY <2>1, TailIs
<1>4. /\ j \in Job /\ j.pc = "executing" /\ j.failed = (job[a].failed \/ x)
      /\ j.relabel = job[a].relabel
      /\ j.renames = Tail(job[a].renames) /\ j.creates = job[a].creates
  BY <1>1, <1>3 DEF Job
<1>5. JobOK(j)
  BY <1>1, <1>3, <1>4 DEF JobOK
<1> HIDE DEF j
<1>6. /\ JobsInv' /\ job'[a] = j /\ \A b \in Adopters \ {a} : job'[b] = job[b]
  BY <1>2, <1>5, JobChanges
<1> QED
  BY <1>4, <1>6

-----------------------------------------------------------------------------
(* What is left of a plan, when the Spaces are S and the directories D.    *)

\* The context of the hook is what the Space still says.
Fresh(S, c) == \A i \in DOMAIN S : c.id = S[i].id /\ c.cwd # NoPath => S[i].path = c.cwd

\* Each folder to be created exists, has no Space, and comes once, in order.
Lacking(S, D, C) ==
    /\ \A k \in DOMAIN C : /\ C[k].path \in D /\ SpacesAt(S, C[k].path) = {}
                           /\ \E i \in DOMAIN Refs : C[k] = Refs[i]
    /\ \A k, l \in DOMAIN C : k < l => Place(C[k].path) < Place(C[l].path)

\* Each label to be given is the file's for the path of the Space.
Aimed(S, N) ==
    \A k \in DOMAIN N : \E i \in DOMAIN Refs, m \in DOMAIN S :
        Refs[i].name = N[k].label /\ S[m].id = N[k].id /\ S[m].path = Refs[i].path

\* Each folder that exists has its Space, or will be created.
Complete(S, D, C) ==
    \A i \in DOMAIN Refs : Refs[i].path \in D =>
        SpacesAt(S, Refs[i].path) # {} \/ \E k \in DOMAIN C : C[k] = Refs[i]

\* Each Space has the file's label, or will be renamed.
Named(S, D, N) ==
    \A i \in DOMAIN Refs :
        Refs[i].path \in D /\ SpacesAt(S, Refs[i].path) # {} /\ Refs[i].name # NoName =>
            \/ LabelOf(FirstAt(S, Refs[i].path)) = Refs[i].name
            \/ \E k \in DOMAIN N : N[k] = RenameTo(S, Refs[i])

\* The Spaces are those of existing folders, in the order of the file and
\* before all that is still to be created.
InOrder(S, D, C) ==
    /\ \A m \in DOMAIN S : \E i \in DOMAIN Refs : Refs[i].path \in D /\ S[m].path = Refs[i].path
    /\ \A m, l \in DOMAIN S : m < l => Place(S[m].path) < Place(S[l].path)
    /\ \A m \in DOMAIN S, k \in DOMAIN C : Place(S[m].path) < Place(C[k].path)

\* What a run can rely on while nobody disturbs it.
Promise(a) ==
    /\ job[a].pc = "planning" => Fresh(spaces, job[a].context)
    /\ job[a].pc = "executing" =>
         /\ Lacking(spaces, dirs, job[a].creates)
         /\ Aimed(spaces, job[a].renames)
         /\ ~job[a].failed =>
              /\ Complete(spaces, dirs, job[a].creates)
              /\ job[a].relabel => Named(spaces, dirs, job[a].renames)
              /\ a \in fromEmpty => InOrder(spaces, dirs, job[a].creates)

PlansInv == \A a \in Adopters : a \notin disturbed => Promise(a)

\* A run starts with a fresh context, ...
LEMMA StartsFresh ==
    ASSUME NEW S \in Seq(Space), \A i, j \in DOMAIN S : S[i].id = S[j].id => i = j,
           NEW c \in Contexts(S)
    PROVE  Fresh(S, c)
<1>1. CASE c = NoContext
  BY <1>1 DEF NoContext, Fresh
<1>2. CASE c # NoContext
  <2>1. PICK n \in DOMAIN S : c.id = S[n].id /\ c.cwd = S[n].path
    BY <1>2, ContextsAre
  <2> QED
    BY <2>1 DEF Fresh
<1> QED
  BY <1>1, <1>2

\* ... with which it sees the Spaces as they are, ...
LEMMA FreshSees ==
    ASSUME spaces \in Seq(Space), NEW c, Fresh(spaces, c)
    PROVE  Reduced(c) = spaces
<1>1. ASSUME NEW i \in DOMAIN spaces
      PROVE  (IF c.id = spaces[i].id /\ c.cwd # NoPath
              THEN [spaces[i] EXCEPT !.path = c.cwd] ELSE spaces[i]) = spaces[i]
  <2>1. spaces[i] \in Space
    OBVIOUS
  <2> QED
    BY <2>1 DEF Space, Fresh
<1>2. spaces = [i \in DOMAIN spaces |-> spaces[i]]
  OBVIOUS
<1> QED
  BY <1>1, <1>2 DEF Reduced

\* ... and plans all that is missing.
LEMMA PlanPromises ==
    ASSUME NEW S \in Seq(Space), NEW relabel \in BOOLEAN
    PROVE  /\ Lacking(S, dirs, Creates(S))
           /\ Aimed(S, Renames(S, relabel))
           /\ Complete(S, dirs, Creates(S))
           /\ relabel => Named(S, dirs, Renames(S, relabel))
           /\ S = <<>> => InOrder(S, dirs, Creates(S))
<1> DEFINE C == Creates(S)
           N == Renames(S, relabel)
<1>1. /\ \A k \in DOMAIN C :
            /\ IsDir(C[k].path) /\ SpacesAt(S, C[k].path) = {}
            /\ \E i \in DOMAIN Refs : C[k] = Refs[i]
      /\ \A k, l \in DOMAIN C : k < l => Place(C[k].path) < Place(C[l].path)
      /\ \A i \in DOMAIN Refs :
            IsDir(Refs[i].path) /\ SpacesAt(S, Refs[i].path) = {} => \E k \in DOMAIN C : C[k] = Refs[i]
  BY CreatesOf
<1>2. /\ \A k \in DOMAIN N :
            relabel /\ \E i \in DOMAIN Refs : Mislabelled(S, Refs[i]) /\ N[k] = RenameTo(S, Refs[i])
      /\ relabel => \A i \in DOMAIN Refs :
            Mislabelled(S, Refs[i]) => \E k \in DOMAIN N : N[k] = RenameTo(S, Refs[i])
  BY RenamesOf
<1> HIDE DEF C, N
<1>3. Lacking(S, dirs, C)
  BY <1>1 DEF Lacking, IsDir
<1>4. Aimed(S, N)
  <2> SUFFICES ASSUME NEW k \in DOMAIN N
               PROVE  \E i \in DOMAIN Refs, m \in DOMAIN S :
                         Refs[i].name = N[k].label /\ S[m].id = N[k].id /\ S[m].path = Refs[i].path
    BY DEF Aimed
  <2>1. PICK i \in DOMAIN Refs : Mislabelled(S, Refs[i]) /\ N[k] = RenameTo(S, Refs[i])
    BY <1>2
  <2>2. DOMAIN S \subseteq Nat /\ SpacesAt(S, Refs[i].path) # {}
    BY <2>1 DEF Mislabelled
  <2>3. PICK m \in SpacesAt(S, Refs[i].path) : FirstAt(S, Refs[i].path) = S[m]
    BY <2>2, FirstAtIs
  <2>4. m \in DOMAIN S /\ S[m].path = Refs[i].path
    BY DEF SpacesAt
  <2>5. Refs[i].name = N[k].label /\ S[m].id = N[k].id
    BY <2>1, <2>3 DEF RenameTo
  <2> QED
    BY <2>4, <2>5
<1>5. Complete(S, dirs, C)
  BY <1>1 DEF Complete, IsDir
<1>6. relabel => Named(S, dirs, N)
  BY <1>2 DEF Named, Mislabelled, IsDir
<1>7. S = <<>> => InOrder(S, dirs, C)
  BY DEF InOrder
<1> QED
  BY <1>3, <1>4, <1>5, <1>6, <1>7 DEF C, N

-----------------------------------------------------------------------------
(* How the plan shrinks.                                                   *)

\* The folders to be created are different ones.
LEMMA LackingApart ==
    ASSUME NEW S, NEW D, NEW C \in Seq(Ref), Lacking(S, D, C)
    PROVE  /\ \A k \in DOMAIN C : Place(C[k].path) \in Nat
           /\ \A k, l \in DOMAIN C : k < l => C[k].path # C[l].path
<1>1. ASSUME NEW k \in DOMAIN C
      PROVE  Place(C[k].path) \in Nat
  <2>1. PICK i \in DOMAIN Refs : C[k] = Refs[i]
    BY DEF Lacking
  <2>2. Place(C[k].path) = i /\ i \in Nat
    BY <2>1, PlaceIs, RefsAre
  <2> QED
    BY <2>2
<1>2. \A k, l \in DOMAIN C : k < l => Place(C[k].path) < Place(C[l].path)
  BY DEF Lacking
<1>3. ASSUME NEW k \in DOMAIN C, NEW l \in DOMAIN C, k < l
      PROVE  C[k].path # C[l].path
  <2>1. Place(C[k].path) < Place(C[l].path) /\ Place(C[k].path) \in Nat /\ Place(C[l].path) \in Nat
    BY <1>1, <1>2, <1>3
  <2> QED
    BY <2>1
<1> QED
  BY <1>1, <1>3

\* What is still to be done stays so when the first of it is dropped.
LEMMA DropKeeps ==
    ASSUME NEW S, NEW D, NEW C \in Seq(Ref), C # <<>>, Lacking(S, D, C)
    PROVE  Lacking(S, D, Tail(C))
<1>1. /\ \A k \in DOMAIN Tail(C) : k + 1 \in DOMAIN C /\ Tail(C)[k] = C[k + 1]
      /\ \A k, l \in DOMAIN Tail(C) : k < l => k + 1 < l + 1
  BY TailIs
<1>2. \A k \in DOMAIN Tail(C) : /\ Tail(C)[k].path \in D /\ SpacesAt(S, Tail(C)[k].path) = {}
                                /\ \E i \in DOMAIN Refs : Tail(C)[k] = Refs[i]
  BY <1>1 DEF Lacking
<1>3. ASSUME NEW k \in DOMAIN Tail(C), NEW l \in DOMAIN Tail(C), k < l
      PROVE  Place(Tail(C)[k].path) < Place(Tail(C)[l].path)
  <2>1. /\ k + 1 \in DOMAIN C /\ Tail(C)[k] = C[k + 1] /\ l + 1 \in DOMAIN C
        /\ Tail(C)[l] = C[l + 1] /\ k + 1 < l + 1
    BY <1>1, <1>3
  <2>2. Place(C[k + 1].path) < Place(C[l + 1].path)
    BY <2>1 DEF Lacking
  <2> QED
    BY <2>1, <2>2
<1> QED
  BY <1>2, <1>3 DEF Lacking

\* A plan that is aimed right is so after its first rename is dropped.
LEMMA DropAimed ==
    ASSUME NEW S, NEW E, NEW N \in Seq(E), N # <<>>, Aimed(S, N)
    PROVE  Aimed(S, Tail(N))
<1>1. \A k \in DOMAIN Tail(N) : k + 1 \in DOMAIN N /\ Tail(N)[k] = N[k + 1]
  BY TailIs
<1> QED
  BY <1>1 DEF Aimed

\* A list of Spaces with one more at the end.
LEMMA GrownIs ==
    ASSUME NEW S \in Seq(Space), NEW e \in Space
    PROVE  LET T == Append(S, e)
               n == Len(S) + 1
           IN  /\ T \in Seq(Space) /\ n \in Nat /\ DOMAIN T = DOMAIN S \cup {n} /\ T[n] = e
               /\ DOMAIN S \subseteq Nat /\ DOMAIN T \subseteq Nat
               /\ \A m \in DOMAIN S : T[m] = S[m] /\ m < n
               /\ \A p : SpacesAt(T, p) = SpacesAt(S, p) \cup (IF e.path = p THEN {n} ELSE {})
<1> DEFINE T == Append(S, e)
           n == Len(S) + 1
<1>1. /\ T \in Seq(Space) /\ n \in Nat /\ DOMAIN T = DOMAIN S \cup {n} /\ T[n] = e
      /\ DOMAIN S \subseteq Nat /\ DOMAIN T \subseteq Nat
      /\ \A m \in DOMAIN S : T[m] = S[m] /\ m < n
  OBVIOUS
<1> HIDE DEF T, n
<1>2. \A p : SpacesAt(T, p) = SpacesAt(S, p) \cup (IF e.path = p THEN {n} ELSE {})
  BY <1>1 DEF SpacesAt
<1> QED
  BY <1>1, <1>2 DEF T, n

\* A Space for the first of the folders.
LEMMA CreateKeeps ==
    ASSUME NEW S \in Seq(Space), NEW D, NEW C \in Seq(Ref), C # <<>>, Lacking(S, D, C),
           NEW e \in Space, e.path = C[1].path, e.label = C[1].name, NEW N
    PROVE  /\ Lacking(Append(S, e), D, Tail(C))
           /\ Aimed(S, N) => Aimed(Append(S, e), N)
           /\ Complete(S, D, C) => Complete(Append(S, e), D, Tail(C))
           /\ Named(S, D, N) => Named(Append(S, e), D, N)
           /\ InOrder(S, D, C) => InOrder(Append(S, e), D, Tail(C))
<1> DEFINE T == Append(S, e)
           n == Len(S) + 1
           C2 == Tail(C)
<1>1. /\ T \in Seq(Space) /\ n \in Nat /\ DOMAIN T = DOMAIN S \cup {n} /\ T[n] = e
      /\ DOMAIN S \subseteq Nat /\ DOMAIN T \subseteq Nat
      /\ \A m \in DOMAIN S : T[m] = S[m] /\ m < n
      /\ \A p : SpacesAt(T, p) = SpacesAt(S, p) \cup (IF e.path = p THEN {n} ELSE {})
  BY GrownIs
<1>2. /\ C2 \in Seq(Ref) /\ 1 \in DOMAIN C
      /\ \A k \in DOMAIN C2 : k + 1 \in DOMAIN C /\ C2[k] = C[k + 1] /\ 1 < k + 1
      /\ \A k \in DOMAIN C : k = 1 \/ (k - 1 \in DOMAIN C2 /\ C2[k - 1] = C[k])
  BY TailIs
<1>3. Lacking(S, D, C2)
  BY DropKeeps
<1>4. /\ \A k \in DOMAIN C : Place(C[k].path) \in Nat
      /\ \A k, l \in DOMAIN C : k < l => C[k].path # C[l].path
  BY LackingApart
<1> HIDE DEF T, n, C2
<1>5. \A k \in DOMAIN C2 : C2[k].path # e.path
  BY <1>2, <1>4
<1>6. Lacking(T, D, C2)
  <2>1. \A k \in DOMAIN C2 : SpacesAt(T, C2[k].path) = {}
    BY <1>1, <1>3, <1>5, ZenonT(40) DEF Lacking
  <2> QED
    BY <1>3, <2>1 DEF Lacking
<1>7. Aimed(S, N) => Aimed(T, N)
  BY <1>1, SMTT(20) DEF Aimed
<1>8. ASSUME Complete(S, D, C)
      PROVE  Complete(T, D, C2)
  <2> SUFFICES ASSUME NEW i \in DOMAIN Refs, Refs[i].path \in D, SpacesAt(T, Refs[i].path) = {}
               PROVE  \E k \in DOMAIN C2 : C2[k] = Refs[i]
    BY DEF Complete
  <2>1. SpacesAt(S, Refs[i].path) = {} /\ Refs[i].path # e.path
    BY <1>1
  <2>2. PICK k \in DOMAIN C : C[k] = Refs[i]
    BY <1>8, <2>1 DEF Complete
  <2>3. k # 1
    BY <2>1, <2>2
  <2> QED
    BY <1>2, <2>2, <2>3
<1>9. ASSUME Named(S, D, N)
      PROVE  Named(T, D, N)
  <2> SUFFICES ASSUME NEW i \in DOMAIN Refs, Refs[i].path \in D,
                      SpacesAt(T, Refs[i].path) # {}, Refs[i].name # NoName
               PROVE  \/ LabelOf(FirstAt(T, Refs[i].path)) = Refs[i].name
                      \/ \E k \in DOMAIN N : N[k] = RenameTo(T, Refs[i])
    BY DEF Named
  <2> DEFINE p == Refs[i].path
  <2>1. CASE SpacesAt(S, p) # {}
    <3>1. PICK m \in SpacesAt(S, p) : FirstAt(S, p) = S[m] /\ \A j \in SpacesAt(S, p) : m <= j
      BY <1>1, <2>1, FirstAtIs
    <3>2. m \in DOMAIN S /\ m \in SpacesAt(T, p)
      BY <1>1 DEF SpacesAt
    <3>3. \A j \in SpacesAt(T, p) : m <= j
      BY <1>1, <3>1, <3>2
    <3>4. FirstAt(T, p) = T[m]
      <4>1. DOMAIN T \subseteq Nat /\ m \in SpacesAt(T, p)
        BY <1>1, <3>2
      <4> HIDE DEF p
      <4> QED
        BY ONLY <3>3, <4>1, FirstAtWhere
    <3>5. FirstAt(T, p) = FirstAt(S, p)
      BY <1>1, <3>1, <3>2, <3>4
    <3> QED
      BY <1>9, <2>1, <3>5 DEF Named, RenameTo
  <2>2. CASE SpacesAt(S, p) = {}
    <3>1. e.path = p /\ SpacesAt(T, p) = {n}
      BY <1>1, <2>2
    <3>2. PICK m \in SpacesAt(T, p) : FirstAt(T, p) = T[m]
      <4> HIDE DEF p
      <4> QED
        BY <1>1, <3>1, FirstAtIs
    <3>3. FirstAt(T, p) = e
      BY <1>1, <3>1, <3>2
    <3>4. PICK j \in DOMAIN Refs : C[1] = Refs[j]
      BY <1>2 DEF Lacking
    <3>5. j = i
      BY <3>1, <3>4, RefsAre
    <3>6. e.label = Refs[i].name
      BY <3>4, <3>5
    <3> QED
      BY <3>3, <3>6 DEF LabelOf
  <2> QED
    BY <2>1, <2>2
<1>10. ASSUME InOrder(S, D, C)
       PROVE  InOrder(T, D, C2)
  <2>1. PICK j \in DOMAIN Refs : C[1] = Refs[j]
    BY <1>2 DEF Lacking
  <2>2. e.path \in D /\ e.path = Refs[j].path
    BY <1>2, <2>1 DEF Lacking
  <2>3. ASSUME NEW m \in DOMAIN T
        PROVE  \E i \in DOMAIN Refs : Refs[i].path \in D /\ T[m].path = Refs[i].path
    BY <1>1, <1>10, <2>2 DEF InOrder
  <2>4. ASSUME NEW m \in DOMAIN T, NEW l \in DOMAIN T, m < l
        PROVE  Place(T[m].path) < Place(T[l].path)
    <3>1. m \in DOMAIN S
      BY <1>1, <2>4
    <3>2. CASE l \in DOMAIN S
      BY <1>1, <1>10, <2>4, <3>1, <3>2 DEF InOrder
    <3>3. CASE l = n
      <4>1. Place(S[m].path) < Place(C[1].path)
        BY <1>2, <1>10, <3>1 DEF InOrder
      <4> QED
        BY <1>1, <3>1, <3>3, <4>1
    <3> QED
      BY <1>1, <3>2, <3>3
  <2>5. ASSUME NEW m \in DOMAIN T, NEW k \in DOMAIN C2
        PROVE  Place(T[m].path) < Place(C2[k].path)
    <3>1. k + 1 \in DOMAIN C /\ C2[k] = C[k + 1] /\ 1 < k + 1
      BY <1>2
    <3>2. CASE m \in DOMAIN S
      <4>1. Place(S[m].path) < Place(C[k + 1].path)
        BY <1>10, <3>1, <3>2 DEF InOrder
      <4> QED
        BY <1>1, <3>1, <3>2, <4>1
    <3>3. CASE m = n
      <4>1. Place(C[1].path) < Place(C[k + 1].path)
        BY <1>2, <3>1 DEF Lacking
      <4> QED
        BY <1>1, <3>1, <3>3, <4>1
    <3> QED
      BY <1>1, <3>2, <3>3
  <2> QED
    BY <2>3, <2>4, <2>5 DEF InOrder
<1> QED
  BY <1>6, <1>7, <1>8, <1>9, <1>10 DEF T, C2

\* The first of the labels.
LEMMA RenameKeeps ==
    ASSUME NEW S \in Seq(Space), \A i, j \in DOMAIN S : S[i].id = S[j].id => i = j,
           NEW D, NEW C, NEW N \in Seq(Renaming), N # <<>>, Aimed(S, N),
           NEW T, T = [i \in DOMAIN S |-> IF S[i].id = N[1].id
                                          THEN [S[i] EXCEPT !.label = N[1].label] ELSE S[i]]
    PROVE  /\ Lacking(S, D, C) => Lacking(T, D, C)
           /\ Aimed(T, Tail(N))
           /\ Complete(S, D, C) => Complete(T, D, C)
           /\ Named(S, D, N) => Named(T, D, Tail(N))
           /\ InOrder(S, D, C) => InOrder(T, D, C)
<1> DEFINE N2 == Tail(N)
<1>1. \A i \in DOMAIN S : S[i] \in Space /\ i \in Nat
  OBVIOUS
<1>2. /\ DOMAIN T = DOMAIN S
      /\ \A i \in DOMAIN S : /\ T[i].id = S[i].id /\ T[i].path = S[i].path
                             /\ S[i].id = N[1].id => T[i].label = N[1].label
                             /\ S[i].id # N[1].id => T[i] = S[i]
  BY <1>1 DEF Space
<1>3. \A p : SpacesAt(T, p) = SpacesAt(S, p)
  BY <1>2 DEF SpacesAt
<1>4. /\ 1 \in DOMAIN N
      /\ \A k \in DOMAIN N : k = 1 \/ (k - 1 \in DOMAIN N2 /\ N2[k - 1] = N[k])
  BY TailIs
<1>5. Aimed(S, N2)
  BY DropAimed
<1> HIDE DEF N2
<1>6. Lacking(S, D, C) => Lacking(T, D, C)
  BY <1>3 DEF Lacking
<1>7. Aimed(T, N2)
  BY <1>2, <1>5 DEF Aimed
<1>8. Complete(S, D, C) => Complete(T, D, C)
  BY <1>3 DEF Complete
<1>9. ASSUME Named(S, D, N)
      PROVE  Named(T, D, N2)
  <2> SUFFICES ASSUME NEW i \in DOMAIN Refs, Refs[i].path \in D,
                      SpacesAt(T, Refs[i].path) # {}, Refs[i].name # NoName
               PROVE  \/ LabelOf(FirstAt(T, Refs[i].path)) = Refs[i].name
                      \/ \E k \in DOMAIN N2 : N2[k] = RenameTo(T, Refs[i])
    BY DEF Named
  <2> DEFINE p == Refs[i].path
  <2>1. SpacesAt(S, p) # {} /\ DOMAIN S \subseteq Nat /\ DOMAIN T \subseteq Nat
    BY <1>1, <1>2, <1>3
  <2>2. PICK m \in SpacesAt(S, p) : FirstAt(S, p) = S[m] /\ \A j \in SpacesAt(S, p) : m <= j
    BY <2>1, FirstAtIs
  <2>3. m \in DOMAIN S /\ S[m].path = p
    BY DEF SpacesAt
  <2>4. FirstAt(T, p) = T[m]
    <3>1. m \in SpacesAt(T, p) /\ \A j \in SpacesAt(T, p) : m <= j
      BY <1>3, <2>2
    <3> HIDE DEF p
    <3> QED
      BY <2>1, <3>1, FirstAtWhere, ZenonT(40)
  <2>5. CASE S[m].id = N[1].id
    <3>1. PICK j \in DOMAIN Refs, l \in DOMAIN S :
             Refs[j].name = N[1].label /\ S[l].id = N[1].id /\ S[l].path = Refs[j].path
      BY <1>4 DEF Aimed
    <3>2. l = m
      BY <2>3, <2>5, <3>1
    <3>3. j = i
      BY <2>3, <3>1, <3>2, RefsAre
    <3>4. T[m].label = Refs[i].name
      BY <1>2, <2>3, <2>5, <3>1, <3>3
    <3> QED
      BY <2>4, <3>4 DEF LabelOf
  <2>6. CASE S[m].id # N[1].id
    <3>1. T[m] = S[m]
      BY <1>2, <2>3, <2>6
    <3>2. \/ LabelOf(S[m]) = Refs[i].name
          \/ \E k \in DOMAIN N : N[k] = RenameTo(S, Refs[i])
      BY <1>9, <2>1, <2>2 DEF Named
    <3>3. RenameTo(S, Refs[i]) = RenameTo(T, Refs[i]) /\ RenameTo(S, Refs[i]).id = S[m].id
      BY <2>2, <2>4, <3>1 DEF RenameTo
    <3>4. ASSUME NEW k \in DOMAIN N, N[k] = RenameTo(S, Refs[i])
          PROVE  \E q \in DOMAIN N2 : N2[q] = RenameTo(T, Refs[i])
      <4>1. k # 1
        BY <2>6, <3>3, <3>4
      <4> QED
        BY <1>4, <3>3, <3>4, <4>1
    <3> QED
      BY <2>4, <3>1, <3>2, <3>4
  <2> QED
    BY <2>5, <2>6
<1>10. InOrder(S, D, C) => InOrder(T, D, C)
  BY <1>2 DEF InOrder
<1> QED
  BY <1>6, <1>7, <1>8, <1>9, <1>10 DEF N2

-----------------------------------------------------------------------------
(* The steps.                                                              *)

IInv == SpacesInv /\ JobsInv /\ PlansInv

\* What a create does to the Spaces.
LEMMA CreateIs ==
    ASSUME IInv, NEW a \in Adopters, Create(a)
    PROVE  /\ SpacesInv' /\ dirs' = dirs
           /\ \E e \in Space :
                /\ spaces' = Append(spaces, e) /\ e.label = job[a].creates[1].name
                /\ IsDir(job[a].creates[1].path) => e.path = job[a].creates[1].path
<1> DEFINE C == job[a].creates
<1>1. PICK id \in Ids : NewSpace(id, Head(C).path, Head(C).name)
  BY DEF Create
<1>2. C \in Seq(Ref) /\ C # <<>>
  BY DEF IInv, JobsInv, Job, Create
<1>3. Head(C) = C[1] /\ C[1] \in Ref
  BY <1>2
<1> HIDE DEF C
<1>4. C[1].path \in Dirs /\ C[1].name \in Labels \cup {NoName}
  BY <1>3 DEF Ref
<1>5. dirs' = dirs
  BY <1>1 DEF NewSpace
<1>6. NewSpace(id, C[1].path, C[1].name)
  BY <1>1, <1>3
<1>7. /\ spaces' \in Seq(Space)
      /\ \A i, j \in DOMAIN spaces' : spaces'[i].id = spaces'[j].id => i = j
      /\ Open(spaces') \subseteq spent'
  BY <1>4, <1>5, <1>6, NewSpaceSafe DEF IInv
<1>8. SpacesInv'
  BY <1>5, <1>7 DEF IInv, SpacesInv
<1> DEFINE e == [id |-> id, label |-> C[1].name,
                 path |-> IF IsDir(C[1].path) THEN C[1].path ELSE Home]
<1>9. e \in Space /\ e.label = C[1].name /\ (IsDir(C[1].path) => e.path = C[1].path)
  BY <1>4, HerdrAssumption DEF Space
<1>10. spaces' = Append(spaces, e)
  BY <1>6 DEF NewSpace
<1> QED
  BY <1>5, <1>8, <1>9, <1>10 DEF C

\* What a rename does to the Spaces.
LEMMA RenameIs ==
    ASSUME IInv, NEW a \in Adopters, job[a].pc = "executing", job[a].renames # <<>>,
           RenameSpace(Head(job[a].renames).id, Head(job[a].renames).label)
    PROVE  /\ SpacesInv' /\ dirs' = dirs
           /\ spaces' = [i \in DOMAIN spaces |->
                            IF spaces[i].id = job[a].renames[1].id
                            THEN [spaces[i] EXCEPT !.label = job[a].renames[1].label]
                            ELSE spaces[i]]
<1> DEFINE N == job[a].renames
<1>1. N \in Seq(Renaming) /\ N # <<>>
  BY DEF IInv, JobsInv, Job
<1>2. Head(N) = N[1] /\ N[1] \in Renaming
  BY <1>1
<1> HIDE DEF N
<1>3. N[1].label \in Labels \cup {NoName}
  BY <1>2 DEF Renaming
<1>4. RenameSpace(N[1].id, N[1].label)
  BY <1>2 DEF N
<1>5. /\ spaces' \in Seq(Space)
      /\ \A i, j \in DOMAIN spaces' : spaces'[i].id = spaces'[j].id => i = j
      /\ Open(spaces') \subseteq spent'
  BY <1>3, <1>4, RenameSpaceSafe DEF IInv
<1>6. dirs' = dirs
  BY <1>4 DEF RenameSpace
<1>7. SpacesInv'
  BY <1>5, <1>6 DEF IInv, SpacesInv
<1> QED
  BY <1>4, <1>6, <1>7 DEF RenameSpace, N

\* A step that leaves the Spaces alone concerns only its own run, ...
LEMMA OthersKeep ==
    ASSUME PlansInv, NEW a \in Adopters, \A b \in Adopters \ {a} : job'[b] = job[b],
           UNCHANGED <<spaces, dirs>>,
           \A b \in Adopters \ {a} : /\ b \in disturbed' <=> b \in disturbed
                                     /\ b \in fromEmpty' <=> b \in fromEmpty,
           a \notin disturbed' => Promise(a)'
    PROVE  PlansInv'
<1>1. ASSUME NEW b \in Adopters \ {a}, b \notin disturbed'
      PROVE  Promise(b)'
  <2>1. Promise(b)
    BY <1>1 DEF PlansInv
  <2>2. job'[b] = job[b] /\ (b \in fromEmpty' <=> b \in fromEmpty)
    OBVIOUS
  <2> QED
    BY <2>1, <2>2 DEF Promise
<1> QED
  BY <1>1 DEF PlansInv

\* ... and one that changes them disturbs all others that are in flight.
LEMMA OthersDisturbed ==
    ASSUME NEW a \in Adopters, \A b \in Adopters \ {a} : job'[b] = job[b], Disturbs(a),
           a \notin disturbed' => Promise(a)'
    PROVE  PlansInv'
<1>1. ASSUME NEW b \in Adopters \ {a}, b \notin disturbed'
      PROVE  Promise(b)'
  <2>1. job[b].pc = "idle"
    BY <1>1 DEF Disturbs, InFlight
  <2>2. job'[b].pc = "idle"
    BY <2>1
  <2> QED
    BY <2>2 DEF Promise
<1> QED
  BY <1>1 DEF PlansInv

\* IInv is inductive: a start.
LEMMA StartSafe ==
    ASSUME IInv, NEW a \in Adopters, Start(a)
    PROVE  IInv'
<1>1. /\ JobsInv' /\ \A b \in Adopters \ {a} : job'[b] = job[b]
      /\ job'[a].pc = "planning" /\ job'[a].context \in Contexts(spaces)
  BY StartJob DEF IInv
<1>2. UNCHANGED herdr /\ disturbed' = disturbed \ {a} /\ UNCHANGED fromEmpty
  BY DEF Start
<1>3. UNCHANGED <<spaces, dirs, spent>>
  BY <1>2 DEF herdr
<1>4. Fresh(spaces, job'[a].context)
  BY <1>1, StartsFresh DEF IInv, SpacesInv
<1>5. Promise(a)'
  BY <1>1, <1>3, <1>4 DEF Promise
<1>6. PlansInv'
  BY <1>1, <1>2, <1>3, <1>5, OthersKeep DEF IInv
<1> QED
  BY <1>1, <1>3, <1>6 DEF IInv, SpacesInv, Open

\* IInv is inductive: a plan.
LEMMA PlanSafe ==
    ASSUME IInv, NEW a \in Adopters, Plan(a)
    PROVE  IInv'
<1>1. /\ JobsInv' /\ \A b \in Adopters \ {a} : job'[b] = job[b]
      /\ job'[a].pc = "executing" /\ job'[a].failed = FALSE
      /\ job'[a].relabel = job[a].relabel /\ job[a].relabel \in BOOLEAN
      /\ job'[a].creates = Creates(Reduced(job[a].context))
      /\ job'[a].renames = Renames(Reduced(job[a].context), job[a].relabel)
  BY PlanJob DEF IInv
<1>2. /\ UNCHANGED herdr /\ UNCHANGED disturbed
      /\ fromEmpty' = IF Reduced(job[a].context) = <<>> THEN fromEmpty \cup {a}
                                                       ELSE fromEmpty \ {a}
      /\ job[a].pc = "planning"
  BY DEF Plan
<1>3. UNCHANGED <<spaces, dirs, spent>>
  BY <1>2 DEF herdr
<1>4. ASSUME a \notin disturbed'
      PROVE  Promise(a)'
  <2>1. Fresh(spaces, job[a].context) /\ spaces \in Seq(Space)
    BY <1>2, <1>4 DEF IInv, PlansInv, Promise, SpacesInv
  <2>2. Reduced(job[a].context) = spaces
    BY <2>1, FreshSees
  <2>3. /\ job'[a].creates = Creates(spaces)
        /\ job'[a].renames = Renames(spaces, job[a].relabel)
        /\ a \in fromEmpty' => spaces = <<>>
    BY <1>1, <1>2, <2>2
  <2>4. /\ Lacking(spaces, dirs, job'[a].creates)
        /\ Aimed(spaces, job'[a].renames)
        /\ Complete(spaces, dirs, job'[a].creates)
        /\ job[a].relabel => Named(spaces, dirs, job'[a].renames)
        /\ spaces = <<>> => InOrder(spaces, dirs, job'[a].creates)
    BY <1>1, <2>1, <2>3, PlanPromises
  <2> QED
    BY <1>1, <1>3, <2>3, <2>4 DEF Promise
<1>5. PlansInv'
  BY <1>1, <1>2, <1>3, <1>4, OthersKeep DEF IInv
<1> QED
  BY <1>1, <1>3, <1>5 DEF IInv, SpacesInv, Open

\* IInv is inductive: a create.
LEMMA CreateSafe ==
    ASSUME IInv, NEW a \in Adopters, Create(a)
    PROVE  IInv'
<1> DEFINE C == job[a].creates
           N == job[a].renames
<1>1. PICK e \in Space : /\ spaces' = Append(spaces, e) /\ e.label = C[1].name
                         /\ IsDir(C[1].path) => e.path = C[1].path
  BY CreateIs
<1>2. SpacesInv' /\ dirs' = dirs
  BY CreateIs
<1>3. job[a].pc = "executing" /\ C # <<>> /\ C \in Seq(Ref) /\ Disturbs(a) /\ UNCHANGED fromEmpty
  BY DEF Create, IInv, JobsInv, Job
<1>4. PICK x \in BOOLEAN : Created(a, x)
  BY DEF Create
<1>5. /\ JobsInv' /\ \A b \in Adopters \ {a} : job'[b] = job[b]
      /\ job'[a].pc = "executing" /\ job'[a].failed = (job[a].failed \/ x)
      /\ job'[a].relabel = job[a].relabel
      /\ job'[a].creates = Tail(C) /\ job'[a].renames = N
  BY <1>3, <1>4, CreatedJob DEF IInv
<1>6. ASSUME a \notin disturbed'
      PROVE  Promise(a)'
  <2>1. Promise(a)
    BY <1>3, <1>6 DEF IInv, PlansInv, Disturbs
  <2>2. /\ Lacking(spaces, dirs, C) /\ Aimed(spaces, N)
        /\ ~job[a].failed =>
             /\ Complete(spaces, dirs, C)
             /\ job[a].relabel => Named(spaces, dirs, N)
             /\ a \in fromEmpty => InOrder(spaces, dirs, C)
    BY <1>3, <2>1 DEF Promise
  <2>3. spaces \in Seq(Space) /\ 1 \in DOMAIN C
    BY <1>3 DEF IInv, SpacesInv
  <2> HIDE DEF C, N
  <2>4. e.path = C[1].path
    BY <1>1, <2>2, <2>3 DEF Lacking, IsDir
  <2>5. /\ Lacking(spaces', dirs, Tail(C))
        /\ Aimed(spaces, N) => Aimed(spaces', N)
        /\ Complete(spaces, dirs, C) => Complete(spaces', dirs, Tail(C))
        /\ Named(spaces, dirs, N) => Named(spaces', dirs, N)
        /\ InOrder(spaces, dirs, C) => InOrder(spaces', dirs, Tail(C))
    <3>1. e.label = C[1].name /\ C # <<>> /\ C \in Seq(Ref) /\ Lacking(spaces, dirs, C)
      BY <1>1, <1>3, <2>2
    <3>2. /\ Lacking(Append(spaces, e), dirs, Tail(C))
          /\ Aimed(spaces, N) => Aimed(Append(spaces, e), N)
          /\ Complete(spaces, dirs, C) => Complete(Append(spaces, e), dirs, Tail(C))
          /\ Named(spaces, dirs, N) => Named(Append(spaces, e), dirs, N)
          /\ InOrder(spaces, dirs, C) => InOrder(Append(spaces, e), dirs, Tail(C))
      BY <2>3, <2>4, <3>1, CreateKeeps
    <3> QED
      BY <1>1, <3>2
  <2> QED
    BY <1>2, <1>3, <1>5, <2>2, <2>5 DEF Promise
<1>7. PlansInv'
  BY <1>3, <1>5, <1>6, OthersDisturbed
<1> QED
  BY <1>2, <1>5, <1>7 DEF IInv

\* IInv is inductive: a create that fails, whether or not the Space was made.
LEMMA CreateFailsSafe ==
    ASSUME IInv, NEW a \in Adopters, CreateFails(a)
    PROVE  IInv'
<1> DEFINE C == job[a].creates
<1>1. /\ job[a].pc = "executing" /\ C # <<>> /\ C \in Seq(Ref) /\ Created(a, TRUE)
      /\ UNCHANGED <<herdr, disturbed, fromEmpty>>
  BY DEF CreateFails, IInv, JobsInv, Job
<1>2. /\ JobsInv' /\ \A b \in Adopters \ {a} : job'[b] = job[b]
      /\ job'[a].pc = "executing" /\ job'[a].failed = (job[a].failed \/ TRUE)
      /\ job'[a].creates = Tail(C) /\ job'[a].renames = job[a].renames
  BY <1>1, CreatedJob DEF IInv
<1>3. UNCHANGED <<spaces, dirs, spent>>
  BY <1>1 DEF herdr
<1>4. ASSUME a \notin disturbed'
      PROVE  Promise(a)'
  <2>1. Lacking(spaces, dirs, C) /\ Aimed(spaces, job[a].renames)
    BY <1>1, <1>4 DEF IInv, PlansInv, Promise
  <2> HIDE DEF C
  <2>2. Lacking(spaces, dirs, Tail(C))
    BY <1>1, <2>1, DropKeeps
  <2> QED
    BY <1>2, <1>3, <2>1, <2>2 DEF Promise
<1>5. PlansInv'
  BY <1>1, <1>2, <1>3, <1>4, OthersKeep DEF IInv
<1> QED
  BY <1>2, <1>3, <1>5 DEF IInv, SpacesInv, Open

\* IInv is inductive: a rename.
LEMMA RenameNextSafe ==
    ASSUME IInv, NEW a \in Adopters, RenameNext(a)
    PROVE  IInv'
<1> DEFINE C == job[a].creates
           N == job[a].renames
<1>1. /\ job[a].pc = "executing" /\ N # <<>> /\ N \in Seq(Renaming) /\ UNCHANGED fromEmpty
      /\ spaces \in Seq(Space)
      /\ \A i, j \in DOMAIN spaces : spaces[i].id = spaces[j].id => i = j
  BY DEF RenameNext, IInv, JobsInv, Job, SpacesInv
<1>2. CASE RenameSpace(Head(N).id, Head(N).label) /\ Renamed(a, FALSE) /\ Disturbs(a)
  <2>1. /\ JobsInv' /\ \A b \in Adopters \ {a} : job'[b] = job[b]
        /\ job'[a].pc = "executing" /\ job'[a].failed = (job[a].failed \/ FALSE)
        /\ job'[a].relabel = job[a].relabel
        /\ job'[a].renames = Tail(N) /\ job'[a].creates = C
    BY <1>1, <1>2, RenamedJob DEF IInv
  <2>2. /\ SpacesInv' /\ dirs' = dirs
        /\ spaces' = [i \in DOMAIN spaces |->
                         IF spaces[i].id = N[1].id
                         THEN [spaces[i] EXCEPT !.label = N[1].label] ELSE spaces[i]]
    BY <1>1, <1>2, RenameIs
  <2>3. ASSUME a \notin disturbed'
        PROVE  Promise(a)'
    <3>1. /\ Lacking(spaces, dirs, C) /\ Aimed(spaces, N)
          /\ ~job[a].failed =>
               /\ Complete(spaces, dirs, C)
               /\ job[a].relabel => Named(spaces, dirs, N)
               /\ a \in fromEmpty => InOrder(spaces, dirs, C)
      BY <1>1, <1>2, <2>3 DEF IInv, PlansInv, Promise, Disturbs
    <3> HIDE DEF C, N
    <3>2. /\ Lacking(spaces, dirs, C) => Lacking(spaces', dirs, C)
          /\ Aimed(spaces', Tail(N))
          /\ Complete(spaces, dirs, C) => Complete(spaces', dirs, C)
          /\ Named(spaces, dirs, N) => Named(spaces', dirs, Tail(N))
          /\ InOrder(spaces, dirs, C) => InOrder(spaces', dirs, C)
      BY <1>1, <2>2, <3>1, RenameKeeps
    <3> QED
      BY <1>1, <2>1, <2>2, <3>1, <3>2 DEF Promise
  <2>4. PlansInv'
    BY <1>2, <2>1, <2>3, OthersDisturbed
  <2> QED
    BY <2>1, <2>2, <2>4 DEF IInv
<1>3. CASE Renamed(a, TRUE) /\ UNCHANGED <<herdr, disturbed>>
  <2>1. /\ JobsInv' /\ \A b \in Adopters \ {a} : job'[b] = job[b]
        /\ job'[a].pc = "executing" /\ job'[a].failed = (job[a].failed \/ TRUE)
        /\ job'[a].renames = Tail(N) /\ job'[a].creates = C
    BY <1>1, <1>3, RenamedJob DEF IInv
  <2>2. UNCHANGED <<spaces, dirs, spent>>
    BY <1>3 DEF herdr
  <2>3. ASSUME a \notin disturbed'
        PROVE  Promise(a)'
    <3>1. Lacking(spaces, dirs, C) /\ Aimed(spaces, N)
      BY <1>1, <1>3, <2>3 DEF IInv, PlansInv, Promise
    <3> HIDE DEF N
    <3>2. Aimed(spaces, Tail(N))
      BY <1>1, <3>1, DropAimed
    <3> QED
      BY <2>1, <2>2, <3>1, <3>2 DEF Promise
  <2>4. PlansInv'
    BY <1>1, <1>3, <2>1, <2>2, <2>3, OthersKeep DEF IInv
  <2> QED
    BY <2>1, <2>2, <2>4 DEF IInv, SpacesInv, Open
<1> QED
  BY <1>2, <1>3 DEF RenameNext

\* The end of a run, however it comes.
LEMMA EndSafe ==
    ASSUME IInv, NEW a \in Adopters, Finish(a) \/ Aborts(a)
    PROVE  IInv'
<1>1. job' = [job EXCEPT ![a] = NoJob] /\ UNCHANGED <<herdr, disturbed, fromEmpty>>
  BY DEF Finish, Aborts
<1>2. /\ JobsInv' /\ job'[a] = NoJob /\ \A b \in Adopters \ {a} : job'[b] = job[b]
  BY <1>1, NoJobOK, JobChanges DEF IInv
<1>3. UNCHANGED <<spaces, dirs, spent>>
  BY <1>1 DEF herdr
<1>4. Promise(a)'
  BY <1>2, NoJobOK DEF Promise
<1>5. PlansInv'
  BY <1>1, <1>2, <1>3, <1>4, OthersKeep DEF IInv
<1> QED
  BY <1>2, <1>3, <1>5 DEF IInv, SpacesInv, Open

\* What the user does disturbs every run in flight.
LEMMA UserSafe ==
    ASSUME IInv, UserChange
    PROVE  IInv'
<1>1. SpacesInv'
  BY ChangeSafe DEF UserChange, IInv
<1>2. UNCHANGED job /\ disturbed' = disturbed \cup InFlight
  BY DEF UserChange
<1>3. JobsInv'
  BY <1>2 DEF IInv, JobsInv
<1>4. PlansInv'
  BY <1>2 DEF PlansInv, Promise, InFlight
<1> QED
  BY <1>1, <1>3, <1>4 DEF IInv

\* IInv holds at the start.
LEMMA InitSafe == Init => IInv
<1> SUFFICES ASSUME Init
             PROVE  IInv
  OBVIOUS
<1>1. PICK n \in 0 .. 1, id \in Ids, d \in Dirs :
         spaces = IF n = 0 THEN <<>> ELSE <<[id |-> id, label |-> NoName, path |-> d]>>
  BY DEF Init
<1>2. [id |-> id, label |-> NoName, path |-> d] \in Space
  BY DEF Space
<1>3. spaces \in Seq(Space) /\ \A i, j \in DOMAIN spaces : i = j
  BY <1>1, <1>2
<1>4. dirs \subseteq Dirs /\ spent = Open(spaces) /\ job = [a \in Adopters |-> NoJob]
  BY DEF Init
<1>5. SpacesInv
  BY <1>3, <1>4 DEF SpacesInv
<1>6. JobsInv /\ \A a \in Adopters : job[a].pc = "idle"
  BY <1>4, NoJobOK DEF JobsInv, JobOK
<1>7. PlansInv
  BY <1>6 DEF PlansInv, Promise
<1> QED
  BY <1>5, <1>6, <1>7 DEF IInv

\* IInv is inductive.
LEMMA NextSafe ==
    ASSUME IInv, [Next]_vars
    PROVE  IInv'
<1>1. CASE UNCHANGED vars
  BY <1>1 DEF vars, herdr, IInv, SpacesInv, JobsInv, PlansInv, Promise, Open
<1>2. ASSUME NEW a \in Adopters, Adopt(a)
      PROVE  IInv'
  BY <1>2, StartSafe, PlanSafe, CreateSafe, CreateFailsSafe, RenameNextSafe, EndSafe DEF Adopt
<1>3. CASE UserChange
  BY <1>3, UserSafe
<1> QED
  BY <1>1, <1>2, <1>3 DEF Next

\* The plan of a run that nobody disturbs holds until it has been carried out:
\* what is left of it is what the sidebar lacks (adopt.py, plan_adoption and
\* execute).
THEOREM PlansHold == Spec => []IInv
<1>1. Init => IInv
  BY InitSafe
<1>2. IInv /\ [Next]_vars => IInv'
  BY NextSafe
<1> QED
  BY <1>1, <1>2, PTL DEF Spec

-----------------------------------------------------------------------------
(* What a run promises its user.                                           *)

\* What a completed plan leaves.
LEMMA Completed ==
    ASSUME IInv, NEW a \in Adopters, Completes(a)
    PROVE  /\ Complete(spaces, dirs, <<>>)
           /\ job[a].relabel => Named(spaces, dirs, <<>>)
           /\ a \in fromEmpty => InOrder(spaces, dirs, <<>>)
<1>1. /\ job[a].pc = "executing" /\ job[a].creates = <<>> /\ job[a].renames = <<>>
      /\ ~job[a].failed /\ a \notin disturbed
  BY DEF Completes, Finish
<1> QED
  BY <1>1 DEF IInv, PlansInv, Promise

\* A run that exits 0 undisturbed leaves a Space for each folder that exists,
\* with the file's name when asked to relabel (adopt.py, execute).
THEOREM AdoptedCorrect == Spec => AdoptedAllFolders
<1>1. ASSUME IInv, [Next]_vars
      PROVE  [\A a \in Adopters : Completes(a) =>
                \A i \in DOMAIN Refs : IsDir(Refs[i].path) =>
                   /\ SpacesAt(spaces, Refs[i].path) # {}
                   /\ job[a].relabel /\ Refs[i].name # NoName =>
                        LabelOf(FirstAt(spaces, Refs[i].path)) = Refs[i].name]_vars
  <2> SUFFICES ASSUME NEW a \in Adopters, Completes(a), NEW i \in DOMAIN Refs,
                      IsDir(Refs[i].path)
               PROVE  /\ SpacesAt(spaces, Refs[i].path) # {}
                      /\ job[a].relabel /\ Refs[i].name # NoName =>
                           LabelOf(FirstAt(spaces, Refs[i].path)) = Refs[i].name
    OBVIOUS
  <2>1. Complete(spaces, dirs, <<>>) /\ (job[a].relabel => Named(spaces, dirs, <<>>))
    BY <1>1, Completed
  <2>2. SpacesAt(spaces, Refs[i].path) # {}
    BY <2>1 DEF Complete, IsDir
  <2> QED
    BY <2>1, <2>2 DEF Named, IsDir
<1> QED
  BY <1>1, PlansHold, PTL DEF Spec, AdoptedAllFolders

\* Only runs are remembered.
StartersOK == fromEmpty \subseteq Adopters

\* Those that started without Spaces are runs.
LEMMA StartersTyped == Spec => []StartersOK
<1>1. Init => StartersOK
  BY DEF Init, StartersOK
<1>2. StartersOK /\ [Next]_vars => StartersOK'
  BY DEF StartersOK, Next, Adopt, Start, Plan, Create, CreateFails, RenameNext, Finish, Aborts, UserChange, vars
<1> QED
  BY <1>1, <1>2, PTL DEF Spec

\* Started in a session without Spaces, an undisturbed run that exits 0 leaves
\* one Space for each folder that exists, in the order of the file (adopt.py,
\* plan_adoption and execute).
THEOREM SidebarCorrect == Spec => SidebarMatchesFile
<1>1. ASSUME IInv, StartersOK, [Next]_vars
      PROVE  [\A a \in fromEmpty : Completes(a) =>
                /\ {spaces[i].path : i \in DOMAIN spaces} = {Refs[i].path : i \in ExistingFolders}
                /\ \A i, j \in DOMAIN spaces :
                     i < j => Place(spaces[i].path) < Place(spaces[j].path)]_vars
  <2> SUFFICES ASSUME NEW a \in fromEmpty, Completes(a)
               PROVE  /\ {spaces[i].path : i \in DOMAIN spaces}
                           = {Refs[i].path : i \in ExistingFolders}
                      /\ \A i, j \in DOMAIN spaces :
                           i < j => Place(spaces[i].path) < Place(spaces[j].path)
    OBVIOUS
  <2>1. a \in Adopters
    BY <1>1 DEF StartersOK
  <2>2. Complete(spaces, dirs, <<>>) /\ InOrder(spaces, dirs, <<>>)
    BY <1>1, <2>1, Completed
  <2>3. \A i \in DOMAIN spaces : \E j \in ExistingFolders : spaces[i].path = Refs[j].path
    BY <2>2 DEF InOrder, ExistingFolders, IsDir
  <2>4. \A j \in ExistingFolders : \E i \in DOMAIN spaces : spaces[i].path = Refs[j].path
    BY <2>2 DEF Complete, ExistingFolders, IsDir, SpacesAt
  <2>5. {spaces[i].path : i \in DOMAIN spaces} = {Refs[i].path : i \in ExistingFolders}
    BY <2>3, <2>4
  <2> QED
    BY <2>2, <2>5 DEF InOrder
<1> QED
  BY <1>1, PlansHold, StartersTyped, PTL DEF Spec, SidebarMatchesFile

\* What the steps of a run, and those of others, do to the Spaces.
LEMMA WhoChanges ==
    ASSUME IInv, [Next]_vars, NEW a \in Adopters, job'[a] # job[a]
    PROVE  \/ Create(a)
           \/ RenameNext(a)
           \/ UNCHANGED spaces
<1>1. ~UserChange /\ vars' # vars
  BY DEF UserChange, vars
<1>2. PICK b \in Adopters : Adopt(b)
  BY <1>1 DEF Next
<1>3. job \in [Adopters -> Job]
  BY DEF IInv, JobsInv
<1>4. \A c \in Adopters \ {b} : job'[c] = job[c]
  BY <1>2, <1>3 DEF Adopt, Start, Plan, Create, CreateFails, RenameNext, Finish, Aborts,
                    Created, Renamed
<1>5. b = a
  BY <1>4
<1> QED
  BY <1>2, <1>5 DEF Adopt, Start, Plan, CreateFails, Finish, Aborts, herdr

\* A run only adds, and renames only when asked to, to names from the file, and
\* undisturbed only the Space of the folder that has the name (adopt.py,
\* execute).
THEOREM OnlyAddsCorrect == Spec => OnlyAdds
<1>1. ASSUME IInv, [Next]_vars
      PROVE  [\A a \in Adopters : job'[a] # job[a] =>
                /\ Len(spaces) <= Len(spaces')
                /\ \A i \in DOMAIN spaces :
                     /\ spaces'[i].id = spaces[i].id /\ spaces'[i].path = spaces[i].path
                     /\ spaces'[i].label # spaces[i].label =>
                          /\ job[a].relabel
                          /\ \E j \in DOMAIN Refs : /\ Refs[j].name = spaces'[i].label
                                                   /\ a \notin disturbed =>
                                                        Refs[j].path = spaces[i].path]_vars
  <2> SUFFICES ASSUME NEW a \in Adopters, job'[a] # job[a]
               PROVE  /\ Len(spaces) <= Len(spaces')
                      /\ \A i \in DOMAIN spaces :
                           /\ spaces'[i].id = spaces[i].id /\ spaces'[i].path = spaces[i].path
                           /\ spaces'[i].label # spaces[i].label =>
                                /\ job[a].relabel
                                /\ \E j \in DOMAIN Refs : /\ Refs[j].name = spaces'[i].label
                                                         /\ a \notin disturbed =>
                                                              Refs[j].path = spaces[i].path
    OBVIOUS
  <2>0. spaces \in Seq(Space) /\ Len(spaces) \in Nat
    BY <1>1 DEF IInv, SpacesInv
  <2>1. CASE UNCHANGED spaces
    BY <2>0, <2>1
  <2>2. CASE Create(a)
    <3>1. PICK e \in Space : spaces' = Append(spaces, e)
      BY <1>1, <2>2, CreateIs
    <3>2. Len(spaces') = Len(spaces) + 1 /\ \A i \in DOMAIN spaces : spaces'[i] = spaces[i]
      BY <2>0, <3>1
    <3> QED
      BY <2>0, <3>2
  <2>3. CASE RenameNext(a) /\ spaces' # spaces
    <3> DEFINE N == job[a].renames
    <3>1. /\ job[a].pc = "executing" /\ N # <<>>
          /\ RenameSpace(Head(N).id, Head(N).label)
      BY <2>3 DEF RenameNext, herdr
    <3>2. spaces' = [i \in DOMAIN spaces |->
                        IF spaces[i].id = N[1].id
                        THEN [spaces[i] EXCEPT !.label = N[1].label] ELSE spaces[i]]
      BY <1>1, <3>1, RenameIs
    <3>3. /\ JobOK(job[a]) /\ N \in Seq(Renaming) /\ 1 \in DOMAIN N
          /\ \A i, j \in DOMAIN spaces : spaces[i].id = spaces[j].id => i = j
      BY <1>1, <3>1 DEF IInv, JobsInv, Job, SpacesInv
    <3>4. /\ job[a].relabel
          /\ \E i \in DOMAIN Refs : Refs[i].name = N[1].label
      BY <3>3 DEF JobOK
    <3>5. a \notin disturbed => Aimed(spaces, N)
      BY <1>1, <3>1 DEF IInv, PlansInv, Promise
    <3> HIDE DEF N
    <3>6. DOMAIN spaces' = DOMAIN spaces /\ Len(spaces') = Len(spaces)
      <4>1. DOMAIN spaces = 1..Len(spaces)
        BY <2>0
      <4> QED
        BY <2>0, <3>2, <4>1
    <3>7. ASSUME NEW i \in DOMAIN spaces
          PROVE  /\ spaces'[i].id = spaces[i].id /\ spaces'[i].path = spaces[i].path
                 /\ spaces'[i].label # spaces[i].label =>
                      /\ job[a].relabel
                      /\ \E j \in DOMAIN Refs : /\ Refs[j].name = spaces'[i].label
                                               /\ a \notin disturbed =>
                                                    Refs[j].path = spaces[i].path
      <4>1. spaces[i] \in Space
        BY <2>0
      <4>2. CASE spaces[i].id # N[1].id
        BY <3>2, <4>2
      <4>3. CASE spaces[i].id = N[1].id
        <5>1. spaces'[i] = [spaces[i] EXCEPT !.label = N[1].label]
          BY <3>2, <4>3
        <5>2. /\ spaces'[i].id = spaces[i].id /\ spaces'[i].path = spaces[i].path
              /\ spaces'[i].label = N[1].label
          BY <4>1, <5>1 DEF Space
        <5>3. \E j \in DOMAIN Refs : /\ Refs[j].name = N[1].label
                                    /\ a \notin disturbed => Refs[j].path = spaces[i].path
          <6>1. CASE a \in disturbed
            BY <3>4, <6>1
          <6>2. CASE a \notin disturbed
            <7>1. PICK j \in DOMAIN Refs, m \in DOMAIN spaces :
                     Refs[j].name = N[1].label /\ spaces[m].id = N[1].id
                       /\ spaces[m].path = Refs[j].path
              BY <3>3, <3>5, <6>2 DEF Aimed
            <7>2. m = i
              BY <3>3, <4>3, <7>1
            <7> QED
              BY <7>1, <7>2
          <6> QED
            BY <6>1, <6>2
        <5> QED
          BY <3>4, <5>2, <5>3
      <4> QED
        BY <4>2, <4>3
    <3> QED
      BY <2>0, <3>6, <3>7
  <2> QED
    BY <1>1, <2>1, <2>2, <2>3, WhoChanges
<1> QED
  BY <1>1, PlansHold, PTL DEF Spec, OnlyAdds

\* An undisturbed run never makes a second Space for a directory, nor one at
\* $HOME for a directory that is not there (adopt.py, execute).
THEOREM OneSpaceCorrect == Spec => OneSpacePerFolder
<1>1. ASSUME IInv, [Next]_vars
      PROVE  [\A a \in Adopters \ disturbed :
                job[a].creates # <<>> /\ spaces' # spaces
                  /\ job'[a].creates = Tail(job[a].creates)
                  => LET path == Head(job[a].creates).path
                     IN  SpacesAt(spaces, path) = {} /\ Last(spaces').path = path]_vars
  <2> SUFFICES ASSUME NEW a \in Adopters \ disturbed, job[a].creates # <<>>, spaces' # spaces,
                      job'[a].creates = Tail(job[a].creates)
               PROVE  /\ SpacesAt(spaces, Head(job[a].creates).path) = {}
                      /\ Last(spaces').path = Head(job[a].creates).path
    OBVIOUS
  <2> DEFINE C == job[a].creates
  <2>1. C \in Seq(Ref) /\ C # <<>> /\ spaces \in Seq(Space)
    BY <1>1 DEF IInv, JobsInv, Job, SpacesInv
  <2>2. job'[a] # job[a]
    <3>1. Tail(C) # C
      <4> HIDE DEF C
      <4>1. Len(Tail(C)) = Len(C) - 1 /\ Len(C) \in Nat
        BY <2>1
      <4>2. Len(Tail(C)) # Len(C)
        BY <4>1
      <4> QED
        BY <4>2
    <3> QED
      BY <3>1
  <2>3. Create(a)
    BY <1>1, <2>1, <2>2, WhoChanges DEF RenameNext
  <2>4. PICK e \in Space : /\ spaces' = Append(spaces, e)
                           /\ IsDir(C[1].path) => e.path = C[1].path
    BY <1>1, <2>3, CreateIs
  <2>5. Lacking(spaces, dirs, C)
    BY <1>1, <2>3 DEF IInv, PlansInv, Promise, Create
  <2> HIDE DEF C
  <2>6. 1 \in DOMAIN C /\ Head(C) = C[1]
    BY <2>1
  <2>7. IsDir(C[1].path) /\ SpacesAt(spaces, C[1].path) = {}
    BY <2>5, <2>6 DEF Lacking, IsDir
  <2>8. Last(spaces') = e
    BY <2>1, <2>4 DEF Last
  <2> QED
    BY <2>4, <2>6, <2>7, <2>8 DEF C
<1> QED
  BY <1>1, PlansHold, PTL DEF Spec, OneSpacePerFolder
==============================================================================
