------------------------------ MODULE SyncProofs ------------------------------
(***************************************************************************)
(* Proofs about Sync for any number of runs, Spaces, directories and pins. *)
(*                                                                         *)
(* 1. What the user saved last is in the file, unless the save fell        *)
(*    between a run's read and its os.replace.                             *)
(* 2. What the loops of compute_folders build, by induction on the number  *)
(*    of candidates: the folders that the explorer should show.            *)
(* 3. The Spaces, the memory of the runs and the file: no list is empty,   *)
(*    and the first pinned folder stays first.                             *)
(* 4. The run that nothing disturbed: it leaves a right file, and writes   *)
(*    nothing when the file is right.                                      *)
(***************************************************************************)
EXTENDS Sync, WellFoundedInduction, TLAPS

\* The file alone is not inductive: the next os.replace decides what is in it.
\* As long as no save has fallen in a window, a run about to replace the file
\* holds the user's last save, which is not a deletion.
WritersHoldTheLastSave ==
    ~windowEdit => \A r \in Runs : run[r].pc = "replace" => run[r].rest = saved

SavesInv ==
    /\ DOMAIN run = Runs
    /\ EditsLostOnlyInWindow
    /\ WritersHoldTheLastSave

\* A step that leaves the file and the user's saves alone, after which a run
\* is not about to replace the file.
LEMMA QuietStep ==
    ASSUME SavesInv, NEW r \in Runs, NEW m, m.pc # "replace",
           run' = [run EXCEPT ![r] = m], UNCHANGED <<file, saved, windowEdit>>
    PROVE  SavesInv'
BY DEF SavesInv, EditsLostOnlyInWindow, WritersHoldTheLastSave, Version

\* SavesInv is inductive: a launch.
LEMMA LaunchSafe ==
    ASSUME SavesInv, NEW r \in Runs, NEW S, Launched(r, S),
           UNCHANGED <<file, saved, windowEdit>>
    PROVE  SavesInv'
BY QuietStep DEF Launched, Memory

\* SavesInv is inductive: the end of a run.
LEMMA EndSafe ==
    ASSUME SavesInv, NEW r \in Runs, Ended(r), UNCHANGED <<file, saved, windowEdit>>
    PROVE  SavesInv'
BY QuietStep DEF Ended, Idle, Memory

\* The run holds the last save because the file does; a window opens.
LEMMA ReadSafe ==
    ASSUME SavesInv, NEW r \in Runs, ReadFile(r)
    PROVE  SavesInv'
<1>1. CASE Ended(r)
  BY <1>1, EndSafe DEF ReadFile
<1>2. CASE ~Ended(r)
  <2>1. /\ file.exists
        /\ run' = [run EXCEPT ![r] = Memory("replace", NoContext, run[r].entries, file.rest)]
        /\ UNCHANGED <<file, saved, windowEdit>>
    BY <1>2 DEF ReadFile
  <2> QED
    BY <2>1 DEF SavesInv, Memory, EditsLostOnlyInWindow, WritersHoldTheLastSave, Version
<1> QED
  BY <1>1, <1>2

\* The file becomes what the run holds.
LEMMA ReplaceSafe ==
    ASSUME SavesInv, NEW r \in Runs, Replace(r)
    PROVE  SavesInv'
<1>1. /\ file'.exists /\ file'.rest = run[r].rest
      /\ run[r].pc = "replace"
      /\ UNCHANGED <<saved, windowEdit>>
  BY DEF Replace, Spliced, history
<1>2. DOMAIN run' = Runs /\ \A s \in Runs : run'[s] = IF s = r THEN Idle ELSE run[s]
  BY DEF Replace, Ended, SavesInv
<1> QED
  BY <1>1, <1>2 DEF SavesInv, Idle, Memory, EditsLostOnlyInWindow, WritersHoldTheLastSave, Version

\* SavesInv is inductive: a step of a run.
LEMMA RunSafe ==
    ASSUME SavesInv, NEW r \in Runs, Run(r)
    PROVE  SavesInv'
<1>1. CASE Launch(r)
  BY <1>1, LaunchSafe DEF Launch
<1>2. CASE Compute(r)
  <2>1. CASE Ended(r)
    BY <1>2, <2>1, EndSafe DEF Compute
  <2>2. CASE ~Ended(r)
    BY <1>2, <2>2, QuietStep DEF Compute, Memory
  <2> QED
    BY <2>1, <2>2
<1>3. CASE ReadFile(r)
  BY <1>3, ReadSafe
<1>4. CASE Replace(r)
  BY <1>4, ReplaceSafe
<1>5. CASE Fail(r)
  BY <1>5, EndSafe DEF Fail
<1> QED
  BY <1>1, <1>2, <1>3, <1>4, <1>5 DEF Run

\* SavesInv is inductive: changes of Spaces and directories.
LEMMA HerdrSafe ==
    ASSUME SavesInv, SpacesChange \/ QuietChange
    PROVE  SavesInv'
<1>1. UNCHANGED <<file, saved, windowEdit>>
  BY DEF SpacesChange, QuietChange, Changed
<1>2. CASE UNCHANGED run
  BY <1>1, <1>2 DEF SavesInv, EditsLostOnlyInWindow, WritersHoldTheLastSave, Version
<1>3. CASE \E r \in Runs : Launched(r, spaces')
  BY <1>1, <1>3, LaunchSafe
<1> QED
  BY <1>2, <1>3 DEF SpacesChange, QuietChange

\* A save is in the file at once; if it falls in a window, the rest is moot.
LEMMA SaveSafe ==
    ASSUME SavesInv, NEW f, Edited(f)
    PROVE  SavesInv'
<1>1. EditsLostOnlyInWindow'
  BY DEF Edited, EditsLostOnlyInWindow, Version
<1>2. WritersHoldTheLastSave'
  BY DEF Edited, WritersHoldTheLastSave
<1> QED
  BY <1>1, <1>2 DEF SavesInv, Edited

\* SavesInv is inductive.
LEMMA NextSavesInv ==
    ASSUME SavesInv, [Next]_vars
    PROVE  SavesInv'
<1>1. CASE \E r \in Runs : Run(r)
  BY <1>1, RunSafe
<1>2. CASE SpacesChange \/ QuietChange
  BY <1>2, HerdrSafe
<1>3. CASE UserEdits
  BY <1>3, SaveSafe DEF UserEdits, EditRest, AddFolder, DeleteFile, RestoreFile
<1>4. CASE UNCHANGED vars
  BY <1>4 DEF vars, history, SavesInv, EditsLostOnlyInWindow,
              WritersHoldTheLastSave, Version
<1> QED
  BY <1>1, <1>2, <1>3, <1>4 DEF Next

\* For any number of concurrent hook runs: a save of the workspace file is only
\* lost when it falls between a run's read_text and its os.replace (write.py).
THEOREM EditsCorrect == Spec => []EditsLostOnlyInWindow
<1>1. Init => SavesInv
  BY DEF Init, SavesInv, Memory, Idle, Version, EditsLostOnlyInWindow, WritersHoldTheLastSave
<1>2. SavesInv /\ [Next]_vars => SavesInv'
  BY NextSavesInv
<1>3. SavesInv => EditsLostOnlyInWindow
  BY DEF SavesInv
<1> QED
  BY <1>1, <1>2, <1>3, PTL DEF Spec

-----------------------------------------------------------------------------
(* Induction, and what a fold over a list computes.                        *)

\* The natural numbers are the only set of naturals closed under successor.
LEMMA NatSetInduction ==
    ASSUME NEW T, 0 \in T, \A n \in Nat : n \in T => n + 1 \in T
    PROVE  Nat \subseteq T
<1> DEFINE R == OpToRel(<, Nat)
           B == {n \in Nat : n \notin T}
<1>1. IsWellFoundedOn(R, Nat)
  BY NatLessThanWellFounded
<1>2. SUFFICES ASSUME B # {}
               PROVE  FALSE
  OBVIOUS
<1>3. PICK x \in B : \A y \in B : ~(<<y, x>> \in R)
  <2> HIDE DEF R
  <2> QED
    BY <1>1, <1>2, WFMin
<1>4. x - 1 \in Nat /\ x # 0
  OBVIOUS
<1>5. <<x - 1, x>> \in R
  BY <1>4 DEF OpToRel
<1>6. x - 1 \notin B
  BY <1>3, <1>5
<1> QED
  BY <1>4, <1>6

\* A bounded set of positive numbers has a greatest element, which is its Max.
LEMMA MaxOfInterval ==
    ASSUME NEW n \in Nat, NEW s \in SUBSET (1..n), s # {}
    PROVE  Max(s) \in s /\ \A y \in s : y <= Max(s)
<1> DEFINE T == {k \in Nat : \A t \in SUBSET (1..k) : t # {} => \E x \in t : \A y \in t : x >= y}
<1>1. 0 \in T
  <2>1. \A t \in SUBSET (1..0) : t = {}
    OBVIOUS
  <2> QED
    BY <2>1
<1>2. ASSUME NEW k \in Nat, k \in T
      PROVE  k + 1 \in T
  <2> SUFFICES ASSUME NEW t \in SUBSET (1..(k + 1)), t # {}
               PROVE  \E x \in t : \A y \in t : x >= y
    OBVIOUS
  <2>1. CASE k + 1 \in t
    BY <2>1
  <2>2. CASE k + 1 \notin t
    <3>1. t \in SUBSET (1..k)
      BY <2>2
    <3> QED
      BY <3>1, <1>2
  <2> QED
    BY <2>1, <2>2
<1>3. Nat \subseteq T
  <2> HIDE DEF T
  <2> QED
    BY <1>1, <1>2, NatSetInduction
<1>4. PICK x \in s : \A y \in s : x >= y
  BY <1>3
<1>5. Max(s) \in s /\ \A y \in s : Max(s) >= y
  BY <1>4 DEF Max
<1> QED
  BY <1>5

\* A set of positive numbers has a least element: its First.
LEMMA FirstIsLeast ==
    ASSUME NEW s \in SUBSET Nat, s # {}
    PROVE  First(s) \in s /\ \A y \in s : First(s) <= y
<1> DEFINE R == OpToRel(<, Nat)
<1>1. IsWellFoundedOn(R, Nat)
  BY NatLessThanWellFounded
<1>2. PICK x \in s : \A y \in s : ~(<<y, x>> \in R)
  <2> HIDE DEF R
  <2> QED
    BY <1>1, WFMin
<1>3. ASSUME NEW y \in s
      PROVE  x <= y
  <2>1. y < x => <<y, x>> \in R
    BY DEF OpToRel
  <2> HIDE DEF R
  <2> QED
    BY <1>2, <2>1
<1>4. First(s) \in s /\ \A y \in s : First(s) <= y
  BY <1>3 DEF First
<1> QED
  BY <1>4

\* The body of the loops of compute_folders.
Keep(es, e, D) ==
    IF e.path \notin D \/ \E i \in DOMAIN es : es[i].path = e.path
    THEN es ELSE Append(es, e)

\* The function that the fold over the first k candidates iterates.
IsFold(g, k, C, D) ==
    g = [s \in SUBSET (1..k) |->
            IF s = {} THEN <<>> ELSE Keep(g[s \ {Max(s)}], C[Max(s)], D)]

\* The recursive function by which a fold is defined exists.
LEMMA FoldExists ==
    ASSUME NEW C, NEW D
    PROVE  \A k \in Nat : \E g : IsFold(g, k, C, D)
<1> DEFINE T == {k \in Nat : \E g : IsFold(g, k, C, D)}
<1>1. 0 \in T
  <2> DEFINE g == [s \in SUBSET (1..0) |-> <<>>]
  <2>1. \A s \in SUBSET (1..0) : s = {}
    OBVIOUS
  <2>2. IsFold(g, 0, C, D)
    BY <2>1 DEF IsFold
  <2> QED
    BY <2>2
<1>2. ASSUME NEW k \in Nat, k \in T
      PROVE  k + 1 \in T
  <2>1. PICK g : IsFold(g, k, C, D)
    BY <1>2
  <2> DEFINE h == [s \in SUBSET (1..(k + 1)) |->
                      IF s = {} THEN <<>> ELSE Keep(g[s \ {Max(s)}], C[Max(s)], D)]
  <2>2. \A t \in SUBSET (1..k) : h[t] = g[t]
    <3> SUFFICES ASSUME NEW t \in SUBSET (1..k)
                 PROVE  h[t] = g[t]
      OBVIOUS
    <3>1. t \in SUBSET (1..(k + 1))
      OBVIOUS
    <3>2. g[t] = IF t = {} THEN <<>> ELSE Keep(g[t \ {Max(t)}], C[Max(t)], D)
      BY <2>1 DEF IsFold
    <3> QED
      BY <3>1, <3>2
  <2>3. \A s \in SUBSET (1..(k + 1)) : s # {} => s \ {Max(s)} \in SUBSET (1..k)
    <3> HIDE DEF h
    <3> SUFFICES ASSUME NEW s \in SUBSET (1..(k + 1)), s # {}, NEW y \in s, y # Max(s)
                 PROVE  y \in 1..k
      OBVIOUS
    <3>1. k + 1 \in Nat
      OBVIOUS
    <3>2. Max(s) \in s /\ y <= Max(s)
      BY <3>1, MaxOfInterval
    <3>3. y \in 1..(k + 1) /\ Max(s) \in 1..(k + 1)
      BY <3>2
    <3> QED
      BY <3>2, <3>3
  <2>4. \A s \in SUBSET (1..(k + 1)) : s # {} => h[s \ {Max(s)}] = g[s \ {Max(s)}]
    <3> HIDE DEF h
    <3> QED
      BY <2>2, <2>3
  <2>5. IsFold(h, k + 1, C, D)
    <3> DEFINE q == h
    <3>1. h = [s \in SUBSET (1..(k + 1)) |->
                  IF s = {} THEN <<>> ELSE Keep(q[s \ {Max(s)}], C[Max(s)], D)]
      <4> HIDE DEF q
      <4>1. \A s \in SUBSET (1..(k + 1)) : s # {} => q[s \ {Max(s)}] = g[s \ {Max(s)}]
        BY <2>4 DEF q
      <4> QED
        BY <4>1
    <3> QED
      BY <3>1 DEF IsFold
  <2> QED
    BY <2>5
<1>3. Nat \subseteq T
  <2> HIDE DEF T
  <2> QED
    BY <1>1, <1>2, NatSetInduction
<1> QED
  BY <1>3

\* compute_folders goes through the candidates one by one.
LEMMA FoldSteps ==
    ASSUME NEW S, NEW E, Candidates(S) \in Seq(E)
    PROVE  LET C == Candidates(S)
           IN  \E acc : /\ acc[0] = <<>>
                        /\ \A k \in 0..(Len(C) - 1) : acc[k + 1] = Keep(acc[k], C[k + 1], dirs)
                        /\ ComputeFolders(S) = acc[Len(C)]
<1> DEFINE C == Candidates(S)
           n == Len(C)
           g == CHOOSE g : IsFold(g, n, C, dirs)
<1>0. n \in Nat /\ DOMAIN C = 1..n
  OBVIOUS
<1>1. IsFold(g, n, C, dirs)
  BY <1>0, FoldExists
<1>2. ComputeFolders(S) = g[1..n]
  <2> HIDE DEF C
  <2>1. C = Candidates(S)
    BY DEF C
  <2> QED
    BY <1>0, <2>1 DEF ComputeFolders, FoldLeft, MapThenFoldSet, IsFold, Keep, IsDir
<1> HIDE DEF g, n
<1> DEFINE acc == [k \in 0..n |-> g[1..k]]
<1>3. acc[0] = <<>>
  BY <1>0, <1>1 DEF IsFold
<1>4. ASSUME NEW k \in 0..(n - 1)
      PROVE  acc[k + 1] = Keep(acc[k], C[k + 1], dirs)
  <2>1. /\ k + 1 \in 0..n /\ k \in 0..n /\ k \in Nat /\ k + 1 \in Nat
        /\ k + 1 \in 1..(k + 1) /\ 1..(k + 1) \in SUBSET (1..n)
    BY <1>0
  <2>2. Max(1..(k + 1)) = k + 1
    <3>1. 1..(k + 1) # {}
      BY <2>1
    <3>2. Max(1..(k + 1)) \in 1..(k + 1) /\ k + 1 <= Max(1..(k + 1))
      BY <2>1, <3>1, MaxOfInterval
    <3> QED
      BY <2>1, <3>2
  <2>3. (1..(k + 1)) \ {k + 1} = 1..k
    BY <2>1
  <2>4. g[1..(k + 1)] = Keep(g[1..k], C[k + 1], dirs)
    BY <1>1, <2>1, <2>2, <2>3 DEF IsFold
  <2> QED
    BY <2>1, <2>4
<1>5. ComputeFolders(S) = acc[n]
  BY <1>0, <1>2
<1> QED
  <2> HIDE DEF acc
  <2> QED
    BY <1>3, <1>4, <1>5 DEF n

\* A candidate before which no other one names the same path.
IsFirst(C, j) == \A l \in 1..(j - 1) : C[l].path # C[j].path

\* The list es holds what the first k of the candidates C leave, with the
\* directories D: each path in D that one of them names, as the first one that
\* names it does, in the order in which they are named first.
Kept(es, k, C, D, E) ==
    /\ es \in Seq(E)
    /\ \A i \in DOMAIN es :
          \E j \in 1..k : es[i] = C[j] /\ IsFirst(C, j) /\ C[j].path \in D
    /\ \A j \in 1..k : C[j].path \in D => \E i \in DOMAIN es : es[i].path = C[j].path
    /\ \A i1, i2 \in DOMAIN es : i1 < i2 =>
          \A j1, j2 \in 1..k :
             IsFirst(C, j1) /\ IsFirst(C, j2)
               /\ C[j1].path = es[i1].path /\ C[j2].path = es[i2].path => j1 < j2

\* A path has one first candidate.
LEMMA FirstIsUnique ==
    ASSUME NEW C, NEW i \in Nat \ {0}, NEW j \in Nat \ {0}, IsFirst(C, i), IsFirst(C, j),
           C[i].path = C[j].path
    PROVE  i = j
<1>1. ~(i < j)
  <2> SUFFICES ASSUME i < j
               PROVE  FALSE
    OBVIOUS
  <2>1. i \in 1..(j - 1)
    OBVIOUS
  <2> QED
    BY <2>1 DEF IsFirst
<1>2. ~(j < i)
  <2> SUFFICES ASSUME j < i
               PROVE  FALSE
    OBVIOUS
  <2>1. j \in 1..(i - 1)
    OBVIOUS
  <2> QED
    BY <2>1 DEF IsFirst
<1> QED
  BY <1>1, <1>2

\* One more candidate is listed, or left out as one that is there already.
LEMMA KeptStep ==
    ASSUME NEW E, NEW C \in Seq(E), NEW D, NEW k \in 0..(Len(C) - 1), NEW es,
           Kept(es, k, C, D, E)
    PROVE  Kept(Keep(es, C[k + 1], D), k + 1, C, D, E)
<1> DEFINE e == C[k + 1]
<1>0. /\ e \in E /\ k \in Nat /\ k + 1 \in Nat /\ 1..k \subseteq 1..(k + 1)
      /\ k + 1 \in 1..(k + 1) /\ 1..(k + 1) = 1..k \cup {k + 1} /\ k + 1 \notin 1..k
  OBVIOUS
<1>1. /\ es \in Seq(E)
      /\ \A i \in DOMAIN es :
            \E j \in 1..k : es[i] = C[j] /\ IsFirst(C, j) /\ C[j].path \in D
      /\ \A j \in 1..k : C[j].path \in D => \E i \in DOMAIN es : es[i].path = C[j].path
      /\ \A i1, i2 \in DOMAIN es : i1 < i2 =>
            \A j1, j2 \in 1..k :
               IsFirst(C, j1) /\ IsFirst(C, j2)
                 /\ C[j1].path = es[i1].path /\ C[j2].path = es[i2].path => j1 < j2
  BY DEF Kept
<1>2. CASE e.path \notin D \/ \E i \in DOMAIN es : es[i].path = e.path
  <2>1. Keep(es, e, D) = es
    BY <1>2 DEF Keep
  <2>2. \A i \in DOMAIN es :
           \E j \in 1..(k + 1) : es[i] = C[j] /\ IsFirst(C, j) /\ C[j].path \in D
    BY <1>0, <1>1
  <2>3. \A j \in 1..(k + 1) : C[j].path \in D => \E i \in DOMAIN es : es[i].path = C[j].path
    BY <1>0, <1>1, <1>2
  <2>4. ASSUME NEW i1 \in DOMAIN es, NEW i2 \in DOMAIN es, i1 < i2,
               NEW j1 \in 1..(k + 1), NEW j2 \in 1..(k + 1), IsFirst(C, j1), IsFirst(C, j2),
               C[j1].path = es[i1].path, C[j2].path = es[i2].path
        PROVE  j1 < j2
    <3>1. PICK m1 \in 1..k : es[i1] = C[m1] /\ IsFirst(C, m1)
      BY <1>1
    <3>2. PICK m2 \in 1..k : es[i2] = C[m2] /\ IsFirst(C, m2)
      BY <1>1
    <3>3. m1 = j1
      <4>1. m1 \in Nat \ {0} /\ j1 \in Nat \ {0} /\ C[m1].path = C[j1].path
        BY <1>0, <2>4, <3>1
      <4> QED
        BY <2>4, <3>1, <4>1, FirstIsUnique
    <3>4. m2 = j2
      <4>1. m2 \in Nat \ {0} /\ j2 \in Nat \ {0} /\ C[m2].path = C[j2].path
        BY <1>0, <2>4, <3>2
      <4> QED
        BY <2>4, <3>2, <4>1, FirstIsUnique
    <3> QED
      BY <1>1, <2>4, <3>3, <3>4
  <2> HIDE DEF e
  <2> QED
    BY <1>1, <2>1, <2>2, <2>3, <2>4 DEF Kept, e
<1>3. CASE e.path \in D /\ \A i \in DOMAIN es : es[i].path # e.path
  <2> DEFINE new == Append(es, e)
             m == Len(es) + 1
  <2>1. Keep(es, e, D) = new
    BY <1>3 DEF Keep
  <2>2. /\ new \in Seq(E) /\ DOMAIN new = DOMAIN es \cup {m} /\ new[m] = e
        /\ \A i \in DOMAIN es : new[i] = es[i] /\ i \in Int /\ i < m
        /\ m \in Nat /\ m \notin DOMAIN es
    BY <1>0, <1>1
  <2>3. IsFirst(C, k + 1)
    <3> SUFFICES ASSUME NEW l \in 1..k
                 PROVE  C[l].path # C[k + 1].path
      BY <1>0 DEF IsFirst
    <3> QED
      BY <1>1, <1>3
  <2> HIDE DEF new, m
  <2>4. \A i \in DOMAIN new :
           \E j \in 1..(k + 1) : new[i] = C[j] /\ IsFirst(C, j) /\ C[j].path \in D
    BY <1>0, <1>1, <1>3, <2>2, <2>3
  <2>5. ASSUME NEW j \in 1..(k + 1), C[j].path \in D
        PROVE  \E i \in DOMAIN new : new[i].path = C[j].path
    <3>1. CASE j \in 1..k
      <4>1. PICK i \in DOMAIN es : es[i].path = C[j].path
        BY <1>1, <2>5, <3>1
      <4>2. i \in DOMAIN new /\ new[i] = es[i]
        BY <2>2
      <4> QED
        BY <4>1, <4>2
    <3>2. CASE j = k + 1
      BY <2>2, <3>2
    <3> QED
      BY <1>0, <3>1, <3>2
  <2>6. ASSUME NEW i1 \in DOMAIN new, NEW i2 \in DOMAIN new, i1 < i2,
               NEW j1 \in 1..(k + 1), NEW j2 \in 1..(k + 1), IsFirst(C, j1), IsFirst(C, j2),
               C[j1].path = new[i1].path, C[j2].path = new[i2].path
        PROVE  j1 < j2
    <3>0. j1 \in Nat \ {0} /\ j2 \in Nat \ {0}
      BY <1>0
    <3>1. i1 \in DOMAIN es
      BY <2>2, <2>6
    <3>2. PICK m1 \in 1..k : es[i1] = C[m1] /\ IsFirst(C, m1)
      BY <1>1, <3>1
    <3>3. m1 = j1
      <4>1. m1 \in Nat \ {0} /\ C[m1].path = C[j1].path
        BY <1>0, <2>2, <2>6, <3>1, <3>2
      <4> QED
        BY <2>6, <3>0, <3>2, <4>1, FirstIsUnique
    <3>4. CASE i2 \in DOMAIN es
      <4>1. PICK m2 \in 1..k : es[i2] = C[m2] /\ IsFirst(C, m2)
        BY <1>1, <3>4
      <4>2. m2 = j2
        <5>1. m2 \in Nat \ {0} /\ C[m2].path = C[j2].path
          BY <1>0, <2>2, <2>6, <3>4, <4>1
        <5> QED
          BY <2>6, <3>0, <4>1, <5>1, FirstIsUnique
      <4>3. new[i1] = es[i1] /\ new[i2] = es[i2]
        BY <2>2, <3>1, <3>4
      <4>4. j1 \in 1..k /\ j2 \in 1..k
        BY <3>3, <4>2
      <4>5. C[j1].path = es[i1].path /\ C[j2].path = es[i2].path
        BY <2>6, <4>3
      <4> QED
        BY <1>1, <2>6, <3>1, <3>4, <4>4, <4>5
    <3>5. CASE i2 = m
      <4>1. j2 = k + 1
        <5>1. k + 1 \in Nat \ {0} /\ C[k + 1].path = C[j2].path
          BY <1>0, <2>2, <2>6, <3>5
        <5> QED
          BY <2>3, <2>6, <3>0, <5>1, FirstIsUnique
      <4> QED
        BY <1>0, <3>3, <4>1
    <3> QED
      BY <2>2, <3>4, <3>5
  <2> HIDE DEF e
  <2>7. Kept(new, k + 1, C, D, E)
    BY <2>2, <2>4, <2>5, <2>6 DEF Kept
  <2> QED
    BY <2>1, <2>7 DEF e
<1> QED
  BY <1>2, <1>3

-----------------------------------------------------------------------------
(* compute_folders                                                         *)

Space == [id : Ids, label : Labels \cup {NoName}, path : Dirs \cup {NoPath}]
Candidate == [path : Dirs \cup {NoPath}, name : Labels \cup {NoName}]
Shown == [path : Dirs, name : Labels \cup {NoName}]

\* The candidates are the pinned folders and then the Spaces.
LEMMA CandidatesAre ==
    ASSUME NEW S \in Seq(Space)
    PROVE  LET C == Candidates(S)
           IN  /\ C \in Seq(Candidate)
               /\ Len(C) = Len(Pinned) + Len(S)
               /\ Len(Pinned) \in Nat /\ Len(S) \in Nat
               /\ \A i \in 1..Len(Pinned) :
                     Pinned[i] \in Dirs /\ C[i].path = Pinned[i] /\ C[i].name = NoName
               /\ \A i \in 1..Len(S) :
                     /\ C[Len(Pinned) + i].path = ChosenPath(S[i])
                     /\ C[Len(Pinned) + i].name = FolderName(S[i].label, S[i].path)
<1> DEFINE A == [i \in DOMAIN Pinned |-> [path |-> Pinned[i], name |-> NoName]]
           B == [i \in DOMAIN S |-> [path |-> ChosenPath(S[i]),
                                     name |-> FolderName(S[i].label, S[i].path)]]
<1>1. Pinned \in Seq(Dirs) /\ Len(Pinned) \in Nat /\ DOMAIN Pinned = 1..Len(Pinned)
  BY SyncAssumption
<1>2. Len(S) \in Nat /\ DOMAIN S = 1..Len(S)
  OBVIOUS
<1>3. \A i \in DOMAIN Pinned : Pinned[i] \in Dirs /\ A[i] \in Candidate
  BY <1>1 DEF Candidate
<1>4. \A i \in DOMAIN S : B[i] \in Candidate
  <2> SUFFICES ASSUME NEW i \in DOMAIN S
               PROVE  B[i] \in Candidate
    OBVIOUS
  <2>1. S[i] \in Space
    OBVIOUS
  <2>2. S[i].label \in Labels \cup {NoName} /\ S[i].path \in Dirs \cup {NoPath}
    BY <2>1 DEF Space
  <2>3. ChosenPath(S[i]) \in Dirs \cup {NoPath}
    BY <2>2 DEF ChosenPath
  <2>4. FolderName(S[i].label, S[i].path) \in Labels \cup {NoName}
    BY <2>2 DEF FolderName
  <2> QED
    BY <2>3, <2>4 DEF Candidate
<1>5. A \in Seq(Candidate) /\ Len(A) = Len(Pinned)
  BY <1>1, <1>3
<1>6. B \in Seq(Candidate) /\ Len(B) = Len(S)
  BY <1>2, <1>4
<1>7. Candidates(S) = A \o B
  BY DEF Candidates
<1>8. \A i \in 1..Len(Pinned) : A[i].path = Pinned[i] /\ A[i].name = NoName
  BY <1>1
<1>9. \A i \in 1..Len(S) : /\ B[i].path = ChosenPath(S[i])
                           /\ B[i].name = FolderName(S[i].label, S[i].path)
  BY <1>2
<1> HIDE DEF A, B
<1>10. /\ A \o B \in Seq(Candidate)
       /\ Len(A \o B) = Len(Pinned) + Len(S)
       /\ \A i \in 1..Len(Pinned) : (A \o B)[i] = A[i]
       /\ \A i \in 1..Len(S) : (A \o B)[Len(Pinned) + i] = B[i]
  <2>1. A \o B \in Seq(Candidate) /\ Len(A \o B) = Len(Pinned) + Len(S)
    BY <1>5, <1>6, SMTT(20)
  <2>2. \A i \in 1..Len(Pinned) : (A \o B)[i] = A[i]
    BY <1>1, <1>2, <1>5, <1>6
  <2>3. ASSUME NEW i \in 1..Len(S)
        PROVE  (A \o B)[Len(Pinned) + i] = B[i]
    <3>1. Len(Pinned) + i \in 1..(Len(A) + Len(B)) /\ ~(Len(Pinned) + i <= Len(A))
      BY <1>1, <1>2, <1>5, <1>6
    <3>2. (Len(Pinned) + i) - Len(A) = i
      BY <1>1, <1>2, <1>5
    <3> QED
      BY <1>5, <1>6, <3>1, <3>2
  <2> QED
    BY <2>1, <2>2, <2>3
<1> QED
  BY <1>1, <1>2, <1>3, <1>7, <1>8, <1>9, <1>10

\* The fold keeps the first candidate of each directory that exists.
LEMMA ComputeKeeps ==
    ASSUME NEW S \in Seq(Space)
    PROVE  Kept(ComputeFolders(S), Len(Candidates(S)), Candidates(S), dirs, Candidate)
<1> DEFINE C == Candidates(S)
           n == Len(C)
<1>1. C \in Seq(Candidate) /\ n \in Nat
  BY CandidatesAre
<1> HIDE DEF C
<1>2. PICK acc : /\ acc[0] = <<>>
                 /\ \A k \in 0..(n - 1) : acc[k + 1] = Keep(acc[k], C[k + 1], dirs)
                 /\ ComputeFolders(S) = acc[n]
  BY <1>1, FoldSteps DEF C
<1> DEFINE T == {k \in Nat : k <= n => Kept(acc[k], k, C, dirs, Candidate)}
<1>3. 0 \in T
  <2>1. Kept(<<>>, 0, C, dirs, Candidate)
    BY DEF Kept
  <2> QED
    BY <1>2, <2>1
<1>4. ASSUME NEW k \in Nat, k \in T
      PROVE  k + 1 \in T
  <2> SUFFICES ASSUME k + 1 <= n
               PROVE  Kept(acc[k + 1], k + 1, C, dirs, Candidate)
    OBVIOUS
  <2>1. k \in 0..(n - 1) /\ Kept(acc[k], k, C, dirs, Candidate)
    BY <1>1, <1>4
  <2>2. Kept(Keep(acc[k], C[k + 1], dirs), k + 1, C, dirs, Candidate)
    BY <1>1, <2>1, KeptStep
  <2> QED
    BY <1>2, <2>1, <2>2
<1>5. Nat \subseteq T
  <2> HIDE DEF T
  <2> QED
    BY <1>3, <1>4, NatSetInduction
<1> QED
  BY <1>1, <1>2, <1>5 DEF C

\* It is a list of existing directories.
LEMMA ComputeTyped ==
    ASSUME NEW S \in Seq(Space), dirs \subseteq Dirs
    PROVE  ComputeFolders(S) \in Seq(Shown)
<1> DEFINE es == ComputeFolders(S)
           C == Candidates(S)
<1>1. /\ es \in Seq(Candidate)
      /\ \A i \in DOMAIN es : \E j \in 1..Len(C) : es[i] = C[j] /\ C[j].path \in dirs
  BY ComputeKeeps DEF Kept
<1> HIDE DEF es
<1>2. ASSUME NEW i \in DOMAIN es
      PROVE  es[i] \in Shown
  <2>1. es[i] \in Candidate /\ es[i].path \in Dirs
    BY <1>1
  <2> QED
    BY <2>1 DEF Candidate, Shown
<1>3. es \in Seq(Shown)
  BY <1>1, <1>2
<1> QED
  BY <1>3 DEF es

\* The first pinned folder comes first as long as its directory exists.
LEMMA PinComesFirst ==
    ASSUME NEW S \in Seq(Space), Pinned # <<>>, Pinned[1] \in dirs
    PROVE  /\ DOMAIN ComputeFolders(S) # {}
           /\ ComputeFolders(S)[1].path = Pinned[1]
<1> DEFINE es == ComputeFolders(S)
           C == Candidates(S)
           n == Len(C)
<1>1. /\ n \in Nat /\ 1 \in 1..n
      /\ C[1].path = Pinned[1]
  <2>1. Len(Pinned) \in Nat /\ 1 \in 1..Len(Pinned)
    BY SyncAssumption
  <2>2. C[1].path = Pinned[1] /\ n = Len(Pinned) + Len(S) /\ Len(S) \in Nat
    BY <2>1, CandidatesAre
  <2> HIDE DEF C
  <2> QED
    BY <2>1, <2>2
<1>2. Kept(es, n, C, dirs, Candidate)
  BY ComputeKeeps
<1> HIDE DEF es, C, n
<1>3. IsFirst(C, 1)
  BY DEF IsFirst
<1>4. PICK i \in DOMAIN es : es[i].path = Pinned[1]
  BY <1>1, <1>2 DEF Kept
<1>5. es \in Seq(Candidate) /\ 1 \in DOMAIN es
  BY <1>2, <1>4 DEF Kept
<1>6. PICK j \in 1..n : es[1] = C[j] /\ IsFirst(C, j)
  BY <1>2, <1>5 DEF Kept
<1>7. ~(1 < i)
  <2> SUFFICES ASSUME 1 < i
               PROVE  FALSE
    OBVIOUS
  <2>1. j < 1
    BY <1>1, <1>2, <1>3, <1>4, <1>5, <1>6 DEF Kept
  <2> QED
    BY <1>1, <1>6, <2>1
<1>8. i = 1
  BY <1>4, <1>5, <1>7
<1> QED
  BY <1>4, <1>5, <1>8 DEF es

\* The rank of a path that is shown is the place of the first candidate that
\* names it, and that candidate has the name that the path should have.
LEMMA RankIsPlace ==
    ASSUME spaces \in Seq(Space), dirs \subseteq Dirs,
           NEW j \in 1..Len(Candidates(spaces)), IsFirst(Candidates(spaces), j),
           Candidates(spaces)[j].path \in dirs
    PROVE  LET e == Candidates(spaces)[j]
           IN  /\ e.path \in Wanted
               /\ Rank(e.path) = j
               /\ e.name = IF IsPinned(e.path) THEN NoName
                           ELSE FolderName(spaces[First(Sources(e.path))].label, e.path)
<1> DEFINE C == Candidates(spaces)
           p == C[j].path
<1>1. /\ Len(C) = Len(Pinned) + Len(spaces) /\ Len(Pinned) \in Nat /\ Len(spaces) \in Nat
      /\ \A i \in 1..Len(Pinned) : C[i].path = Pinned[i] /\ C[i].name = NoName
      /\ \A i \in 1..Len(spaces) :
            /\ C[Len(Pinned) + i].path = ChosenPath(spaces[i])
            /\ C[Len(Pinned) + i].name = FolderName(spaces[i].label, spaces[i].path)
  BY CandidatesAre
<1>2. DOMAIN Pinned = 1..Len(Pinned) /\ DOMAIN spaces = 1..Len(spaces)
  BY SyncAssumption
<1>3. p \in dirs /\ p # NoPath
  BY HerdrAssumption
<1>4. \A l \in 1..(j - 1) : C[l].path # p
  BY DEF IsFirst
<1> HIDE DEF C
<1>5. \A i \in 1..Len(Pinned) : C[i].path = Pinned[i]
  BY <1>1
<1>6. CASE j \in 1..Len(Pinned)
  <2> DEFINE P == {i \in DOMAIN Pinned : Pinned[i] = p}
  <2>1. j \in P /\ P \in SUBSET Nat /\ P # {}
    BY <1>1, <1>2, <1>5, <1>6
  <2>2. First(P) \in P /\ First(P) <= j
    BY <2>1, FirstIsLeast
  <2>3. First(P) = j
    BY <1>1, <1>2, <1>4, <1>5, <1>6, <2>2
  <2>4. IsPinned(p)
    BY <2>1 DEF IsPinned
  <2>5. Rank(p) = j
    BY <2>3, <2>4 DEF Rank
  <2>6. C[j].name = NoName
    BY <1>1, <1>6
  <2>7. p \in Wanted
    BY <1>3, <2>4 DEF Wanted
  <2> HIDE DEF p
  <2> QED
    BY <2>4, <2>5, <2>6, <2>7 DEF p, C
<1>7. CASE j \notin 1..Len(Pinned)
  <2> DEFINE i == j - Len(Pinned)
             f == First(Sources(p))
  <2>1. i \in 1..Len(spaces) /\ j = Len(Pinned) + i
    BY <1>1, <1>7 DEF C
  <2>2. ~IsPinned(p)
    BY <1>1, <1>2, <1>4, <1>5, <2>1 DEF IsPinned
  <2>3. ChosenPath(spaces[i]) = p
    BY <1>1, <2>1
  <2>4. i \in Sources(p)
    BY <1>2, <1>3, <2>1, <2>3 DEF Sources, ChosenSpaces, ChosenPath
  <2>5. Sources(p) \in SUBSET Nat
    BY <1>2 DEF Sources, ChosenSpaces
  <2>6. f \in Sources(p) /\ f <= i
    BY <2>4, <2>5, FirstIsLeast
  <2>7. f \in 1..Len(spaces) /\ ChosenPath(spaces[f]) = p
    BY <1>2, <2>6 DEF Sources, ChosenSpaces, ChosenPath
  <2>8. C[Len(Pinned) + f].path = p
    BY <1>1, <2>7
  <2>9. f = i
    <3> HIDE DEF f, i
    <3>1. f \in Nat /\ i \in Nat /\ f <= i
      BY <1>1, <2>1, <2>6, <2>7
    <3>2. ~(f < i)
      <4> SUFFICES ASSUME f < i
                   PROVE  FALSE
        OBVIOUS
      <4>1. Len(Pinned) + f \in 1..(j - 1)
        BY <1>1, <2>1, <2>7, <3>1
      <4> QED
        BY <1>4, <2>8, <4>1
    <3> QED
      BY <3>1, <3>2
  <2>10. Rank(p) = j
    BY <2>1, <2>2, <2>9 DEF Rank
  <2>11. spaces[i].path = p
    BY <1>3, <2>3 DEF ChosenPath
  <2>12. C[j].name = FolderName(spaces[f].label, p)
    BY <1>1, <2>1, <2>9, <2>11
  <2>13. p \in Wanted
    BY <1>3, <2>4 DEF Wanted
  <2> HIDE DEF p
  <2> QED
    BY <2>2, <2>10, <2>12, <2>13 DEF p, C
<1> QED
  BY <1>6, <1>7

\* Every directory that should be shown has a first candidate.
LEMMA WantedIsNamed ==
    ASSUME spaces \in Seq(Space), dirs \subseteq Dirs, NEW d \in Wanted
    PROVE  \E j \in 1..Len(Candidates(spaces)) : Candidates(spaces)[j].path = d
<1> DEFINE C == Candidates(spaces)
<1>1. /\ Len(C) = Len(Pinned) + Len(spaces) /\ Len(Pinned) \in Nat /\ Len(spaces) \in Nat
      /\ \A i \in 1..Len(Pinned) : C[i].path = Pinned[i] /\ C[i].name = NoName
      /\ \A i \in 1..Len(spaces) :
            /\ C[Len(Pinned) + i].path = ChosenPath(spaces[i])
            /\ C[Len(Pinned) + i].name = FolderName(spaces[i].label, spaces[i].path)
  BY CandidatesAre
<1>2. DOMAIN Pinned = 1..Len(Pinned) /\ DOMAIN spaces = 1..Len(spaces)
  BY SyncAssumption
<1> HIDE DEF C
<1>3. CASE IsPinned(d)
  <2>1. PICK i \in 1..Len(Pinned) : Pinned[i] = d
    BY <1>2, <1>3 DEF IsPinned
  <2>2. i \in 1..Len(C) /\ C[i].path = d
    BY <1>1, <2>1
  <2> QED
    BY <2>2 DEF C
<1>4. CASE ~IsPinned(d)
  <2>1. PICK i \in Sources(d) : TRUE
    BY <1>4 DEF Wanted
  <2>2. i \in 1..Len(spaces) /\ ChosenPath(spaces[i]) = d
    BY <1>2 DEF Sources, ChosenSpaces, ChosenPath
  <2>3. Len(Pinned) + i \in 1..Len(C) /\ C[Len(Pinned) + i].path = d
    BY <1>1, <2>2
  <2> QED
    BY <2>3 DEF C
<1> QED
  BY <1>3, <1>4

\* compute_folders gives what the explorer should show, for any Spaces, pins
\* and directories.
THEOREM ComputeShows ==
    ASSUME spaces \in Seq(Space), dirs \subseteq Dirs
    PROVE  ShowsTheSpaces(ComputeFolders(spaces))
<1> DEFINE es == ComputeFolders(spaces)
           C == Candidates(spaces)
           n == Len(C)
<1>1. Kept(es, n, C, dirs, Candidate)
  BY ComputeKeeps
<1>2. \A j \in 1..n : IsFirst(C, j) /\ C[j].path \in dirs =>
         /\ C[j].path \in Wanted
         /\ Rank(C[j].path) = j
         /\ C[j].name = IF IsPinned(C[j].path) THEN NoName
                        ELSE FolderName(spaces[First(Sources(C[j].path))].label, C[j].path)
  BY RankIsPlace
<1>3. \A d \in Wanted : d \in dirs /\ \E j \in 1..n : C[j].path = d
  BY WantedIsNamed DEF Wanted
<1> HIDE DEF es, C, n
<1>4. ASSUME NEW i \in DOMAIN es
      PROVE  \E j \in 1..n : /\ es[i] = C[j] /\ IsFirst(C, j)
                             /\ es[i].path \in Wanted /\ Rank(es[i].path) = j
                             /\ es[i].name = IF IsPinned(es[i].path) THEN NoName
                                ELSE FolderName(spaces[First(Sources(es[i].path))].label, es[i].path)
  <2>1. PICK j \in 1..n : es[i] = C[j] /\ IsFirst(C, j) /\ C[j].path \in dirs
    BY <1>1 DEF Kept
  <2> QED
    BY <1>2, <2>1
<1>5. {es[i].path : i \in DOMAIN es} = Wanted
  <2>1. \A i \in DOMAIN es : es[i].path \in Wanted
    BY <1>4
  <2>2. \A d \in Wanted : \E i \in DOMAIN es : es[i].path = d
    BY <1>1, <1>3 DEF Kept
  <2> QED
    BY <2>1, <2>2
<1>6. ASSUME NEW i1 \in DOMAIN es, NEW i2 \in DOMAIN es, i1 < i2
      PROVE  Rank(es[i1].path) < Rank(es[i2].path)
  <2>1. PICK j1 \in 1..n : es[i1] = C[j1] /\ IsFirst(C, j1) /\ Rank(es[i1].path) = j1
    BY <1>4
  <2>2. PICK j2 \in 1..n : es[i2] = C[j2] /\ IsFirst(C, j2) /\ Rank(es[i2].path) = j2
    BY <1>4
  <2>3. j1 < j2
    BY <1>1, <1>6, <2>1, <2>2, ZenonT(40) DEF Kept
  <2> QED
    BY <2>1, <2>2, <2>3
<1>7. \A i \in DOMAIN es :
         es[i].name = IF IsPinned(es[i].path) THEN NoName
                      ELSE FolderName(spaces[First(Sources(es[i].path))].label, es[i].path)
  BY <1>4
<1>8. ShowsTheSpaces(es)
  BY <1>5, <1>6, <1>7 DEF ShowsTheSpaces
<1> QED
  BY <1>8 DEF es

-----------------------------------------------------------------------------
(* The Spaces.                                                             *)

\* Every Space has an id of its own, which is never used again, and the first
\* pinned folder is there unless the history says that it was not.
SpacesInv ==
    /\ spaces \in Seq(Space) /\ dirs \subseteq Dirs
    /\ \A i, j \in DOMAIN spaces : spaces[i].id = spaces[j].id => i = j
    /\ Open(spaces) \subseteq spent
    /\ ~pinGone /\ Pinned # <<>> => Pinned[1] \in dirs

\* RemoveAt, position by position.
LEMMA RemoveAtKeeps ==
    ASSUME NEW E, NEW s \in Seq(E), NEW i \in DOMAIN s
    PROVE  /\ RemoveAt(s, i) \in Seq(E)
           /\ Len(RemoveAt(s, i)) = Len(s) - 1
           /\ \A k \in 1..(Len(s) - 1) :
                 RemoveAt(s, i)[k] = s[IF k < i THEN k ELSE k + 1]
<1> DEFINE a == SubSeq(s, 1, i - 1)
           b == SubSeq(s, i + 1, Len(s))
<1>1. Len(s) \in Nat /\ i \in 1..Len(s)
  OBVIOUS
<1>2. a \in Seq(E) /\ Len(a) = i - 1 /\ \A k \in 1..(i - 1) : a[k] = s[k]
  BY <1>1
<1>3. b \in Seq(E) /\ Len(b) = Len(s) - i /\ \A k \in 1..(Len(s) - i) : b[k] = s[i + k]
  BY <1>1
<1>4. RemoveAt(s, i) = a \o b
  BY DEF RemoveAt
<1> HIDE DEF a, b
<1>5. a \o b \in Seq(E) /\ Len(a \o b) = Len(s) - 1
  BY <1>1, <1>2, <1>3
<1>6. ASSUME NEW k \in 1..(Len(s) - 1)
      PROVE  (a \o b)[k] = s[IF k < i THEN k ELSE k + 1]
  <2>1. CASE k < i
    BY <1>1, <1>2, <1>3, <2>1
  <2>2. CASE ~(k < i)
    <3>1. k - (i - 1) \in 1..(Len(s) - i) /\ i + (k - (i - 1)) = k + 1
      BY <1>1, <2>2
    <3>2. (a \o b)[k] = b[k - (i - 1)]
      BY <1>1, <1>2, <1>3, <2>2, SMTT(20)
    <3> QED
      BY <1>3, <2>2, <3>1, <3>2
  <2> QED
    BY <2>1, <2>2
<1> QED
  BY <1>4, <1>5, <1>6

\* A list that takes its Spaces, but for labels and paths, from different
\* places of a list with unique ids has unique ids.
LEMMA IdsStayUnique ==
    ASSUME NEW s \in Seq(Space), NEW t \in Seq(Space), NEW at \in [DOMAIN t -> DOMAIN s],
           \A i, j \in DOMAIN s : s[i].id = s[j].id => i = j,
           \A i, j \in DOMAIN t : at[i] = at[j] => i = j,
           \A i \in DOMAIN t : t[i].id = s[at[i]].id
    PROVE  /\ \A i, j \in DOMAIN t : t[i].id = t[j].id => i = j
           /\ Open(t) \subseteq Open(s)
<1>1. \A i, j \in DOMAIN t : t[i].id = t[j].id => i = j
  OBVIOUS
<1>2. Open(t) \subseteq Open(s)
  BY DEF Open
<1> QED
  BY <1>1, <1>2

\* A new Space gets an id that none has had.
LEMMA NewSpaceSafe ==
    ASSUME SpacesInv, NEW id, NEW d, NEW l \in Labels \cup {NoName}, NewSpace(id, d, l),
           UNCHANGED dirs
    PROVE  /\ spaces' \in Seq(Space)
           /\ \A i, j \in DOMAIN spaces' : spaces'[i].id = spaces'[j].id => i = j
           /\ Open(spaces') \subseteq spent'
<1> DEFINE e == [id |-> id, label |-> l, path |-> IF IsDir(d) THEN d ELSE Home]
           m == Len(spaces) + 1
<1>1. id \in Ids /\ id \notin Open(spaces) /\ spent' = spent \cup {id}
  BY DEF NewSpace, SpacesInv
<1>2. e \in Space /\ e.id = id
  BY <1>1, HerdrAssumption DEF Space, IsDir, SpacesInv
<1>3. spaces' = Append(spaces, e)
  BY DEF NewSpace
<1> HIDE DEF e
<1>4. /\ spaces' \in Seq(Space) /\ DOMAIN spaces' = DOMAIN spaces \cup {m} /\ spaces'[m] = e
      /\ m \notin DOMAIN spaces
      /\ \A i \in DOMAIN spaces : spaces'[i] = spaces[i]
  BY <1>2, <1>3 DEF SpacesInv
<1> HIDE DEF m
<1>5. \A i \in DOMAIN spaces : spaces[i].id # id /\ spaces[i].id \in spent
  BY <1>1 DEF Open, SpacesInv
<1>6. \A i, j \in DOMAIN spaces' : spaces'[i].id = spaces'[j].id => i = j
  BY <1>2, <1>4, <1>5 DEF SpacesInv
<1>7. Open(spaces') \subseteq spent'
  BY <1>1, <1>2, <1>4, <1>5 DEF Open
<1> QED
  BY <1>4, <1>6, <1>7

\* To close a Space keeps the ids of the others.
LEMMA CloseSpaceSafe ==
    ASSUME SpacesInv, NEW id, CloseSpace(id)
    PROVE  /\ spaces' \in Seq(Space)
           /\ \A i, j \in DOMAIN spaces' : spaces'[i].id = spaces'[j].id => i = j
           /\ Open(spaces') \subseteq spent'
<1>1. PICK n \in DOMAIN spaces : spaces' = RemoveAt(spaces, n)
  BY DEF CloseSpace
<1> DEFINE at == [k \in 1..(Len(spaces) - 1) |-> IF k < n THEN k ELSE k + 1]
<1>2. spaces \in Seq(Space) /\ \A i, j \in DOMAIN spaces : spaces[i].id = spaces[j].id => i = j
  BY DEF SpacesInv
<1>3. /\ spaces' \in Seq(Space)
      /\ DOMAIN spaces' = 1..(Len(spaces) - 1)
      /\ \A k \in 1..(Len(spaces) - 1) : spaces'[k] = spaces[IF k < n THEN k ELSE k + 1]
  BY <1>1, <1>2, RemoveAtKeeps
<1>4. /\ \A i \in DOMAIN spaces' : spaces'[i].id = spaces[at[i]].id
      /\ at \in [DOMAIN spaces' -> DOMAIN spaces]
      /\ \A i, j \in DOMAIN spaces' : at[i] = at[j] => i = j
  BY <1>2, <1>3, SMTT(20)
<1> HIDE DEF at
<1>5. /\ \A i, j \in DOMAIN spaces' : spaces'[i].id = spaces'[j].id => i = j
      /\ Open(spaces') \subseteq Open(spaces)
  BY <1>2, <1>3, <1>4, IdsStayUnique
<1> QED
  BY <1>3, <1>5 DEF CloseSpace, SpacesInv

\* A concatenation, position by position.
LEMMA ConcatIs ==
    ASSUME NEW E, NEW a \in Seq(E), NEW b \in Seq(E)
    PROVE  /\ a \o b \in Seq(E)
           /\ Len(a \o b) = Len(a) + Len(b)
           /\ \A k \in 1..Len(a) : (a \o b)[k] = a[k]
           /\ \A k \in 1..(Len(a) + Len(b)) : ~(k <= Len(a)) => (a \o b)[k] = b[k - Len(a)]
OBVIOUS

\* A list with one of its elements moved to the front.
Moved(s, n) == <<s[n]>> \o RemoveAt(s, n)

\* Moved, position by position.
LEMMA MovedIs ==
    ASSUME NEW E, NEW s \in Seq(E), NEW n \in DOMAIN s
    PROVE  /\ Moved(s, n) \in Seq(E)
           /\ Len(Moved(s, n)) = Len(s)
           /\ \A k \in 1..Len(s) : Moved(s, n)[k] = s[IF k = 1 THEN n ELSE IF k - 1 < n THEN k - 1 ELSE k]
<1> DEFINE r == RemoveAt(s, n)
           h == <<s[n]>>
           t == h \o r
<1>1. Len(s) \in Nat /\ n \in 1..Len(s) /\ DOMAIN s = 1..Len(s)
  OBVIOUS
<1>2. /\ r \in Seq(E)
      /\ Len(r) = Len(s) - 1
      /\ \A k \in 1..(Len(s) - 1) : r[k] = s[IF k < n THEN k ELSE k + 1]
  <2> HIDE DEF r
  <2> QED
    BY RemoveAtKeeps DEF r
<1>3. h \in Seq(E) /\ Len(h) = 1 /\ h[1] = s[n]
  OBVIOUS
<1>4. Moved(s, n) = t
  BY DEF Moved
<1> HIDE DEF r, h
<1>5. t \in Seq(E) /\ Len(t) = Len(s)
  <2>1. t \in Seq(E) /\ Len(t) = Len(h) + Len(r)
    <3>1. h \in Seq(E) /\ r \in Seq(E)
      BY <1>2, <1>3
    <3> QED
      BY <3>1, ConcatIs
  <2> QED
    BY <1>1, <1>2, <1>3, <2>1
<1>6. ASSUME NEW k \in 1..Len(s)
      PROVE  t[k] = s[IF k = 1 THEN n ELSE IF k - 1 < n THEN k - 1 ELSE k]
  <2>0. /\ \A i \in 1..Len(h) : t[i] = h[i]
        /\ \A i \in 1..(Len(h) + Len(r)) : ~(i <= Len(h)) => t[i] = r[i - Len(h)]
    <3>1. h \in Seq(E) /\ r \in Seq(E)
      BY <1>2, <1>3
    <3> QED
      BY <3>1, ConcatIs
  <2>1. CASE k = 1
    <3>1. 1 \in 1..Len(h)
      BY <1>3
    <3> QED
      BY <1>3, <2>0, <2>1, <3>1
  <2>2. CASE k # 1
    <3>1. k - 1 \in 1..(Len(s) - 1) /\ (k - 1) + 1 = k /\ k - Len(h) = k - 1
      BY <1>1, <1>3, <2>2
    <3>2. t[k] = r[k - Len(h)]
      <4>1. k \in 1..(Len(h) + Len(r)) /\ ~(k <= Len(h))
        BY <1>1, <1>2, <1>3, <2>2
      <4> QED
        BY <2>0, <4>1
    <3>3. r[k - 1] = s[IF k - 1 < n THEN k - 1 ELSE k]
      BY <1>2, <3>1
    <3> QED
      BY <2>2, <3>1, <3>2, <3>3
  <2> QED
    BY <2>1, <2>2
<1> QED
  BY <1>4, <1>5, <1>6

\* Where the elements come from: from different places.
LEMMA MovedFrom ==
    ASSUME NEW m \in Nat, NEW n \in 1..m
    PROVE  LET at == [k \in 1..m |-> IF k = 1 THEN n ELSE IF k - 1 < n THEN k - 1 ELSE k]
           IN  at \in [1..m -> 1..m] /\ \A i, j \in 1..m : at[i] = at[j] => i = j
OBVIOUS

\* To move a Space keeps the ids.
LEMMA MoveToFrontSafe ==
    ASSUME SpacesInv, NEW n, MoveToFront(n)
    PROVE  /\ spaces' \in Seq(Space)
           /\ \A i, j \in DOMAIN spaces' : spaces'[i].id = spaces'[j].id => i = j
           /\ Open(spaces') \subseteq spent'
<1> DEFINE m == Len(spaces)
           at == [k \in 1..m |-> IF k = 1 THEN n ELSE IF k - 1 < n THEN k - 1 ELSE k]
<1>1. n \in DOMAIN spaces /\ spaces' = Moved(spaces, n)
  BY DEF MoveToFront, Moved
<1>2. /\ spaces \in Seq(Space) /\ DOMAIN spaces = 1..m /\ m \in Nat
      /\ \A i, j \in DOMAIN spaces : spaces[i].id = spaces[j].id => i = j
  BY DEF SpacesInv
<1>3. /\ spaces' \in Seq(Space) /\ Len(spaces') = m
      /\ \A k \in 1..m : spaces'[k] = spaces[IF k = 1 THEN n ELSE IF k - 1 < n THEN k - 1 ELSE k]
  <2>1. spaces \in Seq(Space) /\ n \in DOMAIN spaces
    BY <1>1, <1>2
  <2>2. /\ Moved(spaces, n) \in Seq(Space) /\ Len(Moved(spaces, n)) = Len(spaces)
        /\ \A k \in 1..Len(spaces) : Moved(spaces, n)[k]
              = spaces[IF k = 1 THEN n ELSE IF k - 1 < n THEN k - 1 ELSE k]
    BY ONLY <2>1, MovedIs
  <2> QED
    BY ONLY <1>1, <2>2
<1> HIDE DEF m
<1>4. DOMAIN spaces' = DOMAIN spaces
  BY <1>2, <1>3
<1>5. \A i \in DOMAIN spaces' : spaces'[i].id = spaces[at[i]].id
  BY <1>2, <1>3, <1>4
<1>6. at \in [1..m -> 1..m] /\ \A i, j \in 1..m : at[i] = at[j] => i = j
  BY <1>1, <1>2, MovedFrom
<1> HIDE DEF at
<1>7. /\ \A i, j \in DOMAIN spaces' : spaces'[i].id = spaces'[j].id => i = j
      /\ Open(spaces') \subseteq Open(spaces)
  <2>1. at \in [DOMAIN spaces' -> DOMAIN spaces]
    BY <1>2, <1>4, <1>6
  <2>2. \A i, j \in DOMAIN spaces' : at[i] = at[j] => i = j
    BY <1>2, <1>4, <1>6
  <2> QED
    BY <1>2, <1>3, <1>5, <2>1, <2>2, IdsStayUnique
<1> QED
  BY <1>3, <1>7 DEF MoveToFront, SpacesInv

\* A new label, or a new path.
LEMMA RelabelSafe ==
    ASSUME SpacesInv, NEW f, spaces' = [i \in DOMAIN spaces |-> f[i]], UNCHANGED spent,
           \A i \in DOMAIN spaces : f[i] \in Space /\ f[i].id = spaces[i].id
    PROVE  /\ spaces' \in Seq(Space)
           /\ \A i, j \in DOMAIN spaces' : spaces'[i].id = spaces'[j].id => i = j
           /\ Open(spaces') \subseteq spent'
<1>1. spaces' \in Seq(Space) /\ DOMAIN spaces' = DOMAIN spaces
  BY DEF SpacesInv
<1>2. \A i \in DOMAIN spaces : spaces'[i].id = spaces[i].id
  OBVIOUS
<1> QED
  BY <1>1, <1>2 DEF SpacesInv, Open

\* A Space with another label or path is a Space of the same id.
LEMMA ChangedSpace ==
    ASSUME NEW s \in Space
    PROVE  /\ \A l \in Labels : LET t == [s EXCEPT !.label = l] IN t \in Space /\ t.id = s.id
           /\ \A p \in Dirs \cup {NoPath} :
                 LET t == [s EXCEPT !.path = p] IN t \in Space /\ t.id = s.id
BY DEF Space

\* To rename a Space keeps the ids.
LEMMA RenameSpaceSafe ==
    ASSUME SpacesInv, NEW id, NEW l \in Labels, RenameSpace(id, l)
    PROVE  /\ spaces' \in Seq(Space)
           /\ \A i, j \in DOMAIN spaces' : spaces'[i].id = spaces'[j].id => i = j
           /\ Open(spaces') \subseteq spent'
<1> DEFINE f == [i \in DOMAIN spaces |->
                    IF spaces[i].id = id THEN [spaces[i] EXCEPT !.label = l] ELSE spaces[i]]
<1>1. \A i \in DOMAIN spaces : f[i] \in Space /\ f[i].id = spaces[i].id
  <2>1. \A i \in DOMAIN spaces : spaces[i] \in Space
    BY DEF SpacesInv
  <2> QED
    BY <2>1, ChangedSpace
<1>2. spaces' = [i \in DOMAIN spaces |-> f[i]] /\ UNCHANGED spent
  BY DEF RenameSpace
<1> HIDE DEF f
<1> QED
  BY <1>1, <1>2, RelabelSafe

\* To change the directory of a Space keeps the ids.
LEMMA CdSafe ==
    ASSUME SpacesInv, NEW id, NEW p, Cd(id, p)
    PROVE  /\ spaces' \in Seq(Space)
           /\ \A i, j \in DOMAIN spaces' : spaces'[i].id = spaces'[j].id => i = j
           /\ Open(spaces') \subseteq spent'
<1> DEFINE f == [i \in DOMAIN spaces |->
                    IF spaces[i].id = id THEN [spaces[i] EXCEPT !.path = p] ELSE spaces[i]]
<1>1. p \in Dirs \cup {NoPath}
  BY DEF Cd, SpacesInv
<1>2. \A i \in DOMAIN spaces : f[i] \in Space /\ f[i].id = spaces[i].id
  <2>1. \A i \in DOMAIN spaces : spaces[i] \in Space
    BY DEF SpacesInv
  <2> QED
    BY <1>1, <2>1, ChangedSpace
<1>3. spaces' = [i \in DOMAIN spaces |-> f[i]] /\ UNCHANGED spent
  BY DEF Cd
<1> HIDE DEF f
<1> QED
  BY <1>2, <1>3, RelabelSafe

\* No change that a user makes breaks SpacesInv.
LEMMA ChangeSafe ==
    ASSUME SpacesInv, EventfulChange \/ SilentChange, Changed
    PROVE  SpacesInv'
<1>1. ~pinGone' /\ Pinned # <<>> => Pinned[1] \in dirs'
  BY DEF Changed
<1>2. CASE EventfulChange
  <2>1. dirs' \subseteq Dirs
    BY <1>2 DEF EventfulChange, NewSpace, CloseSpace, RenameSpace, MoveToFront, FocusSpace,
                SpacesInv
  <2>2. CASE \E id \in Ids, d \in dirs, l \in Labels \cup {NoName} : NewSpace(id, d, l)
    <3>1. PICK id \in Ids, d \in dirs, l \in Labels \cup {NoName} : NewSpace(id, d, l)
      BY <2>2
    <3>2. UNCHANGED dirs
      BY <3>1 DEF NewSpace
    <3> QED
      BY <1>1, <2>1, <3>1, <3>2, NewSpaceSafe DEF SpacesInv
  <2>3. CASE \E id \in Ids : CloseSpace(id)
    BY <1>1, <2>1, <2>3, CloseSpaceSafe DEF SpacesInv
  <2>4. CASE \E id \in Ids : FocusSpace(id)
    BY <1>1, <2>1, <2>4 DEF FocusSpace, SpacesInv, Open
  <2>5. CASE \E id \in Ids, l \in Labels : RenameSpace(id, l)
    BY <1>1, <2>1, <2>5, RenameSpaceSafe DEF SpacesInv
  <2>6. CASE \E i \in DOMAIN spaces : MoveToFront(i)
    BY <1>1, <2>1, <2>6, MoveToFrontSafe DEF SpacesInv
  <2> QED
    BY <1>2, <2>2, <2>3, <2>4, <2>5, <2>6 DEF EventfulChange
<1>3. CASE SilentChange
  <2>1. CASE \E id \in Ids, p \in Dirs \cup {NoPath} : Cd(id, p)
    <3>1. dirs' \subseteq Dirs
      BY <2>1 DEF Cd, SpacesInv
    <3> QED
      BY <1>1, <2>1, <3>1, CdSafe DEF SpacesInv
  <2>2. CASE \E d \in Dirs : DirsChange(d)
    <3>1. dirs' \subseteq Dirs /\ UNCHANGED <<spaces, spent>>
      BY <2>2 DEF DirsChange, SpacesInv
    <3> QED
      BY <1>1, <3>1 DEF SpacesInv, Open
  <2> QED
    BY <1>3, <2>1, <2>2 DEF SilentChange
<1> QED
  BY <1>2, <1>3

-----------------------------------------------------------------------------
(* The runs and the file.                                                  *)

\* What a run remembers: a directory or none, and, once it has computed its
\* folders, a list with at least one, the first pinned one in front unless it
\* has been missing.
MemoryOK(m, gone) ==
    /\ m.pc \in {"idle", "launched", "read", "replace"}
    /\ m.context.cwd \in Dirs \cup {NoPath}
    /\ m.pc \in {"read", "replace"} =>
         /\ m.entries \in Seq(Shown)
         /\ m.entries # <<>>
         /\ ~gone /\ Pinned # <<>> => m.entries[1].path = Pinned[1]

ListsInv ==
    /\ DOMAIN run = Runs
    /\ \A r \in Runs : MemoryOK(run[r], pinGone)
    /\ DOMAIN file = {"exists", "folders", "rest"}
    /\ file.folders \in {NoMember, NoRoot} \cup (Seq(Folder) \ {<<>>})

\* A snapshot is a list of Spaces.
LEMMA ReducedIs ==
    ASSUME spaces \in Seq(Space), NEW c, c.cwd \in Dirs \cup {NoPath}
    PROVE  Reduced(c) \in Seq(Space)
<1> DEFINE f == [i \in DOMAIN spaces |->
                    IF c.id = spaces[i].id /\ c.cwd # NoPath
                    THEN [spaces[i] EXCEPT !.path = c.cwd] ELSE spaces[i]]
<1>1. \A i \in DOMAIN spaces : f[i] \in Space
  <2>1. \A i \in DOMAIN spaces : spaces[i] \in Space
    OBVIOUS
  <2> QED
    BY <2>1, ChangedSpace
<1>2. DOMAIN spaces = 1..Len(spaces) /\ Len(spaces) \in Nat /\ DOMAIN f = DOMAIN spaces
  OBVIOUS
<1>3. Reduced(c) = f /\ f = [i \in DOMAIN spaces |-> f[i]]
  BY DEF Reduced
<1> HIDE DEF f
<1>4. f \in Seq(Space)
  BY <1>1, <1>2, <1>3
<1> QED
  BY <1>3, <1>4

\* The hook context is that of a Space, or none.
LEMMA ContextsAre ==
    ASSUME NEW S \in Seq(Space), NEW c \in Contexts(S)
    PROVE  /\ c.cwd \in Dirs \cup {NoPath}
           /\ c = NoContext \/ \E i \in DOMAIN S : c.id = S[i].id /\ c.cwd = S[i].path
<1>1. CASE c = NoContext
  BY <1>1 DEF NoContext
<1>2. CASE c # NoContext
  <2>1. PICK i \in DOMAIN S : c = [id |-> S[i].id, cwd |-> S[i].path]
    BY <1>2 DEF Contexts
  <2>2. S[i].path \in Dirs \cup {NoPath}
    <3>1. S[i] \in Space
      OBVIOUS
    <3> QED
      BY <3>1 DEF Space
  <2> QED
    BY <2>1, <2>2
<1> QED
  BY <1>1, <1>2

\* The lists that are written: absolute paths of what was computed.
LEMMA RenderedIs ==
    ASSUME NEW es \in Seq(Shown), es # <<>>
    PROVE  /\ Rendered(es) \in Seq(Folder) \ {<<>>}
           /\ DOMAIN Rendered(es) = DOMAIN es
           /\ \A i \in DOMAIN es : /\ Rendered(es)[i].path = es[i].path
                                   /\ Rendered(es)[i].name = es[i].name
           /\ 1 \in DOMAIN es
<1> DEFINE f == Rendered(es)
<1>1. DOMAIN es = 1..Len(es) /\ Len(es) \in Nat /\ 1 \in DOMAIN es
  OBVIOUS
<1>2. /\ DOMAIN f = DOMAIN es
      /\ \A i \in DOMAIN es : f[i].path = es[i].path /\ f[i].name = es[i].name
  BY DEF Rendered
<1>3. \A i \in DOMAIN es : f[i] \in Folder
  <2>1. \A i \in DOMAIN es : es[i] \in Shown
    OBVIOUS
  <2>2. \A i \in DOMAIN es : es[i].path \in Dirs /\ es[i].name \in Labels \cup {NoName}
    BY <2>1 DEF Shown
  <2> QED
    BY <2>2 DEF Rendered, Folder
<1>4. f = [i \in DOMAIN es |-> f[i]]
  BY DEF Rendered
<1> HIDE DEF f
<1>5. f \in Seq(Folder)
  BY <1>1, <1>2, <1>3, <1>4
<1>6. f # <<>>
  BY <1>1, <1>2
<1> QED
  BY <1>1, <1>2, <1>5, <1>6 DEF f

\* Where only run r moves on and neither the file nor the history of the pin.
LEMMA MemorySafe ==
    ASSUME ListsInv, NEW r \in Runs, NEW m, run' = [run EXCEPT ![r] = m], MemoryOK(m, pinGone'),
           pinGone => pinGone', UNCHANGED file
    PROVE  ListsInv'
<1>1. DOMAIN run' = Runs /\ \A s \in Runs : run'[s] = IF s = r THEN m ELSE run[s]
  BY DEF ListsInv
<1>2. \A s \in Runs : MemoryOK(run[s], pinGone)
  BY DEF ListsInv
<1>3. \A s \in Runs : MemoryOK(run'[s], pinGone')
  <2> SUFFICES ASSUME NEW s \in Runs
               PROVE  MemoryOK(run'[s], pinGone')
    OBVIOUS
  <2>1. CASE s = r
    <3>1. run'[s] = m
      BY <1>1, <2>1
    <3> QED
      BY <3>1 DEF MemoryOK
  <2>2. CASE s # r
    BY <1>1, <1>2, <2>2 DEF MemoryOK
  <2> QED
    BY <2>1, <2>2
<1> QED
  BY <1>1, <1>3 DEF ListsInv

\* ListsInv is inductive: the end of a run.
LEMMA EndKeepsLists ==
    ASSUME ListsInv, NEW r \in Runs, Ended(r), pinGone => pinGone', UNCHANGED file
    PROVE  ListsInv'
<1>1. MemoryOK(Idle, pinGone')
  BY DEF MemoryOK, Idle, Memory, NoContext
<1> QED
  BY <1>1, MemorySafe DEF Ended

\* ListsInv is inductive: a launch.
LEMMA LaunchKeepsLists ==
    ASSUME ListsInv, NEW r \in Runs, NEW S \in Seq(Space), Launched(r, S),
           pinGone => pinGone', UNCHANGED file
    PROVE  ListsInv'
<1>1. PICK c \in Contexts(S) : run' = [run EXCEPT ![r] = Memory("launched", c, <<>>, 0)]
  BY DEF Launched
<1>2. c.cwd \in Dirs \cup {NoPath}
  BY ContextsAre
<1>3. MemoryOK(Memory("launched", c, <<>>, 0), pinGone')
  BY <1>2 DEF MemoryOK, Memory
<1> QED
  BY <1>1, <1>3, MemorySafe

\* The folders that a run computes are what the rest of it needs.
LEMMA ComputeKeepsLists ==
    ASSUME SpacesInv, ListsInv, NEW r \in Runs, Compute(r)
    PROVE  ListsInv'
<1> DEFINE es == ComputeFolders(Reduced(run[r].context))
           m == Memory("read", NoContext, es, 0)
<1>1. UNCHANGED <<pinGone, file>>
  BY DEF Compute
<1>2. CASE Ended(r)
  BY <1>1, <1>2, EndKeepsLists
<1>3. CASE ~Ended(r)
  <2>1. es # <<>> /\ run' = [run EXCEPT ![r] = m]
    BY <1>3 DEF Compute
  <2>2. Reduced(run[r].context) \in Seq(Space)
    <3>1. run[r].context.cwd \in Dirs \cup {NoPath}
      BY DEF ListsInv, MemoryOK
    <3> QED
      BY <3>1, ReducedIs DEF SpacesInv
  <2>3. es \in Seq(Shown)
    BY <2>2, ComputeTyped DEF SpacesInv
  <2>4. ~pinGone /\ Pinned # <<>> => es[1].path = Pinned[1]
    BY <2>2, PinComesFirst DEF SpacesInv
  <2> HIDE DEF es
  <2>5. MemoryOK(m, pinGone')
    BY <1>1, <2>1, <2>3, <2>4 DEF MemoryOK, Memory, NoContext
  <2> HIDE DEF m
  <2> QED
    BY <1>1, <2>1, <2>5, MemorySafe
<1> QED
  BY <1>2, <1>3

\* ListsInv is inductive: the read of the file.
LEMMA ReadKeepsLists ==
    ASSUME ListsInv, NEW r \in Runs, ReadFile(r)
    PROVE  ListsInv'
<1>1. UNCHANGED <<pinGone, file>>
  BY DEF ReadFile
<1>2. CASE Ended(r)
  BY <1>1, <1>2, EndKeepsLists
<1>3. CASE ~Ended(r)
  <2> DEFINE m == Memory("replace", NoContext, run[r].entries, file.rest)
  <2>1. run' = [run EXCEPT ![r] = m] /\ run[r].pc = "read"
    BY <1>3 DEF ReadFile
  <2>2. MemoryOK(run[r], pinGone)
    BY DEF ListsInv
  <2>3. MemoryOK(m, pinGone')
    BY <1>1, <2>1, <2>2 DEF MemoryOK, Memory, NoContext
  <2> HIDE DEF m
  <2> QED
    BY <1>1, <2>1, <2>3, MemorySafe
<1> QED
  BY <1>2, <1>3

\* ListsInv is inductive: os.replace, after which the file lists a folder, the pin first.
LEMMA ReplaceKeepsLists ==
    ASSUME ListsInv, NEW r \in Runs, Replace(r)
    PROVE  /\ ListsInv'
           /\ file'.folders \in Seq(Folder) \ {<<>>}
           /\ ~pinGone /\ Pinned # <<>> => file'.folders[1].path = Pinned[1]
<1> DEFINE es == run[r].entries
<1>1. /\ run' = [run EXCEPT ![r] = Idle] /\ UNCHANGED pinGone
      /\ file'.folders = Rendered(es) /\ run[r].pc = "replace"
      /\ DOMAIN file' = {"exists", "folders", "rest"}
  BY DEF Replace, Ended, Spliced, history
<1>2. /\ es \in Seq(Shown) /\ es # <<>>
      /\ ~pinGone /\ Pinned # <<>> => es[1].path = Pinned[1]
  BY <1>1 DEF ListsInv, MemoryOK
<1> HIDE DEF es
<1>3. /\ Rendered(es) \in Seq(Folder) \ {<<>>}
      /\ 1 \in DOMAIN es => Rendered(es)[1].path = es[1].path
      /\ 1 \in DOMAIN es
  BY <1>2, RenderedIs
<1>4. DOMAIN run' = Runs /\ \A s \in Runs : run'[s] = IF s = r THEN Idle ELSE run[s]
  BY <1>1 DEF ListsInv
<1>5. MemoryOK(Idle, pinGone')
  BY DEF MemoryOK, Idle, Memory, NoContext
<1>6. \A s \in Runs : MemoryOK(run'[s], pinGone')
  BY <1>1, <1>4, <1>5 DEF ListsInv
<1> QED
  BY <1>1, <1>2, <1>3, <1>4, <1>6 DEF ListsInv

\* The user leaves a list that is not empty, and the first folder where it is.
LEMMA EditKeepsLists ==
    ASSUME ListsInv, UserEdits
    PROVE  /\ ListsInv' /\ UNCHANGED <<run, pinGone>>
           /\ IsAtIndexZero(file) /\ file'.exists => IsAtIndexZero(file')
<1>1. UNCHANGED <<run, pinGone>>
  BY DEF UserEdits, EditRest, AddFolder, DeleteFile, RestoreFile, Edited
<1>2. CASE EditRest
  <2>1. /\ DOMAIN file' = {"exists", "folders", "rest"}
        /\ file'.folders = file.folders /\ file'.exists = file.exists
    BY <1>2 DEF EditRest, Edited, ListsInv
  <2> QED
    BY <1>1, <2>1 DEF ListsInv, IsAtIndexZero
<1>3. CASE DeleteFile \/ RestoreFile
  <2>1. /\ DOMAIN file' = {"exists", "folders", "rest"}
        /\ file'.folders = NoMember
        /\ ~file.exists \/ ~file'.exists
    BY <1>3 DEF DeleteFile, RestoreFile, Edited, NoFile
  <2> QED
    BY <1>1, <2>1 DEF ListsInv, IsAtIndexZero
<1>4. CASE \E d \in Dirs : AddFolder(d)
  <2>1. PICK d \in Dirs : AddFolder(d)
    BY <1>4
  <2> DEFINE e == [path |-> d, name |-> NoName, relative |-> TRUE]
             f == file.folders
  <2>2. f \in Seq(Folder) \ {<<>>} /\ f \notin {NoMember, NoRoot}
    BY <2>1 DEF AddFolder, ListsInv
  <2>3. /\ DOMAIN file' = {"exists", "folders", "rest"}
        /\ file'.folders = Append(f, e) /\ e \in Folder
    BY <2>1 DEF AddFolder, Edited, Folder
  <2> HIDE DEF e, f
  <2>4. Append(f, e) \in Seq(Folder) /\ Append(f, e) # <<>> /\ Append(f, e)[1] = f[1]
    BY <2>2, <2>3
  <2>5. file'.folders \notin {NoMember, NoRoot}
    BY <2>3, <2>4, SyncAssumption
  <2> QED
    BY <1>1, <2>2, <2>3, <2>4, <2>5 DEF ListsInv, IsAtIndexZero, f
<1> QED
  BY <1>2, <1>3, <1>4 DEF UserEdits

\* All but a run's os.replace and the user leave the file as it is.
LEMMA FileChanges ==
    ASSUME [Next]_vars, ~UserEdits, ~\E r \in Runs : Replace(r)
    PROVE  UNCHANGED file
BY DEF Next, Run, Launch, Compute, ReadFile, Fail, SpacesChange, QuietChange, Changed, vars

\* SpacesInv is inductive.
LEMMA NextSpacesInv ==
    ASSUME SpacesInv, [Next]_vars
    PROVE  SpacesInv'
<1>1. CASE SpacesChange \/ QuietChange
  BY <1>1, ChangeSafe DEF SpacesChange, QuietChange
<1>2. CASE UNCHANGED <<herdr, pinGone>>
  BY <1>2 DEF herdr, SpacesInv, Open
<1> QED
  BY <1>1, <1>2 DEF Next, Run, Launch, Compute, ReadFile, Replace, Fail, UserEdits, EditRest,
                    AddFolder, DeleteFile, RestoreFile, Edited, vars, history

\* ListsInv is inductive.
LEMMA NextListsInv ==
    ASSUME SpacesInv, ListsInv, [Next]_vars
    PROVE  ListsInv'
<1>1. SpacesInv'
  BY NextSpacesInv
<1>2. ASSUME NEW r \in Runs, Run(r)
      PROVE  ListsInv'
  <2>1. CASE Launch(r)
    BY <2>1, LaunchKeepsLists DEF Launch, SpacesInv
  <2>2. CASE Compute(r)
    BY <2>2, ComputeKeepsLists
  <2>3. CASE ReadFile(r)
    BY <2>3, ReadKeepsLists
  <2>4. CASE Replace(r)
    BY <2>4, ReplaceKeepsLists
  <2>5. CASE Fail(r)
    BY <2>5, EndKeepsLists DEF Fail
  <2> QED
    BY <1>2, <2>1, <2>2, <2>3, <2>4, <2>5 DEF Run
<1>3. CASE SpacesChange \/ QuietChange
  <2>1. UNCHANGED file /\ (pinGone => pinGone')
    BY <1>3 DEF SpacesChange, QuietChange, Changed
  <2>2. CASE UNCHANGED run
    BY <2>1, <2>2 DEF ListsInv, MemoryOK
  <2>3. CASE \E r \in Runs : Launched(r, spaces')
    BY <1>1, <2>1, <2>3, LaunchKeepsLists DEF SpacesInv
  <2> QED
    BY <1>3, <2>2, <2>3 DEF SpacesChange, QuietChange
<1>4. CASE UserEdits
  BY <1>4, EditKeepsLists
<1>5. CASE UNCHANGED vars
  BY <1>5 DEF vars, history, ListsInv, MemoryOK
<1> QED
  BY <1>2, <1>3, <1>4, <1>5 DEF Next

\* SpacesInv and ListsInv hold at the start.
LEMMA InitLists ==
    ASSUME Init
    PROVE  SpacesInv /\ ListsInv
<1>1. PICK id \in Ids, d \in Dirs : spaces = <<[id |-> id, label |-> NoName, path |-> d]>>
  BY DEF Init
<1>2. SpacesInv
  <2>1. [id |-> id, label |-> NoName, path |-> d] \in Space
    BY DEF Space
  <2>2. spaces \in Seq(Space) /\ DOMAIN spaces = {1}
    BY <1>1, <2>1
  <2>3. Pinned # <<>> => Pinned[1] \in Dirs
    BY SyncAssumption
  <2> QED
    BY <2>2, <2>3 DEF Init, SpacesInv
<1>3. ListsInv
  <2>1. file.folders \in {NoMember, NoRoot} /\ DOMAIN file = {"exists", "folders", "rest"}
    <3>1. CASE file = NoFile
      BY <3>1 DEF NoFile
    <3>2. CASE file \in [exists : {TRUE}, folders : {NoMember, NoRoot}, rest : {0}]
      BY <3>2
    <3> QED
      BY <3>1, <3>2 DEF Init
  <2>2. MemoryOK(Idle, pinGone)
    BY DEF MemoryOK, Idle, Memory, NoContext
  <2> QED
    BY <2>1, <2>2 DEF Init, ListsInv
<1> QED
  BY <1>2, <1>3

\* What a run has computed and what the file holds are lists of folders, never empty,
\* with the pinned folder first as long as its directory is there (folders.py).
THEOREM ListsInvariance == Spec => [](SpacesInv /\ ListsInv)
<1>1. Init => SpacesInv /\ ListsInv
  BY InitLists
<1>2. (SpacesInv /\ ListsInv) /\ [Next]_vars => (SpacesInv /\ ListsInv)'
  BY NextSpacesInv, NextListsInv
<1> QED
  BY <1>1, <1>2, PTL DEF Spec

\* For any number of runs, Spaces and pins, and whatever the runs race with: no
\* run leaves a workspace file with an empty list of folders, which would blank
\* the explorer (main.py, run_sync).
THEOREM ExplorerCorrect == Spec => []ExplorerNeverBlank
<1>1. SpacesInv /\ ListsInv => ExplorerNeverBlank
  <2>1. <<>> \in Seq(Folder)
    OBVIOUS
  <2> QED
    BY <2>1, SyncAssumption DEF ListsInv, ExplorerNeverBlank
<1> QED
  BY <1>1, ListsInvariance, PTL

\* Once the first pinned folder is folders[0], every later write and edit keeps
\* it there as long as its directory exists (main.py, warn_unpinned_active).
THEOREM PinCorrect == Spec => PinStaysAtIndexZero
<1>1. /\ SpacesInv /\ ListsInv
      /\ [Next]_vars
      => (IsAtIndexZero(file) /\ file'.exists /\ ~pinGone' => IsAtIndexZero(file'))
  <2> SUFFICES ASSUME SpacesInv, ListsInv, [Next]_vars,
                      IsAtIndexZero(file), file'.exists, ~pinGone'
               PROVE  IsAtIndexZero(file')
    OBVIOUS
  <2>1. CASE UserEdits
    BY <2>1, EditKeepsLists
  <2>2. ASSUME NEW r \in Runs, Replace(r)
        PROVE  IsAtIndexZero(file')
    <3>1. /\ file'.folders \in Seq(Folder) \ {<<>>}
          /\ ~pinGone /\ Pinned # <<>> => file'.folders[1].path = Pinned[1]
          /\ UNCHANGED pinGone
      BY <2>2, ReplaceKeepsLists DEF Replace, history
    <3> QED
      BY <3>1, SyncAssumption DEF IsAtIndexZero
  <2>3. CASE UNCHANGED file
    BY <2>3 DEF IsAtIndexZero
  <2> QED
    BY <2>1, <2>2, <2>3, FileChanges
<1> QED
  BY <1>1, ListsInvariance, PTL DEF Spec, PinStaysAtIndexZero

-----------------------------------------------------------------------------
(* The run that nothing disturbed.                                         *)

\* What the trusted run sees and makes of it: it is the only one in flight, its
\* context says what the Spaces say, its folders are what the explorer should
\* show, and when it has ended the file shows them.
Sees(m) ==
    /\ m.pc = "launched" => Reduced(m.context) = spaces
    /\ m.pc \in {"read", "replace"} => ShowsTheSpaces(m.entries)

TrustedInv ==
    trusted =>
      /\ \A r1, r2 \in Runs : run[r1].pc # "idle" /\ run[r2].pc # "idle" => r1 = r2
      /\ \A r \in Runs : Sees(run[r])
      /\ (\A r \in Runs : run[r].pc = "idle") => Wanted = {} \/ ShowsTheSpaces(file.folders)

\* A list shows the Spaces by its paths and names.
LEMMA ShowsTheSame ==
    ASSUME NEW f, NEW g, DOMAIN f = DOMAIN g,
           \A i \in DOMAIN f : f[i].path = g[i].path /\ f[i].name = g[i].name,
           ShowsTheSpaces(f)
    PROVE  ShowsTheSpaces(g)
<1>1. {g[i].path : i \in DOMAIN g} = {f[i].path : i \in DOMAIN f}
  OBVIOUS
<1> QED
  BY <1>1 DEF ShowsTheSpaces

\* What the file shows depends on the Spaces, the directories and the mode alone.
LEMMA StillShows ==
    ASSUME UNCHANGED <<herdr, mode>>
    PROVE  /\ \A f : ShowsTheSpaces(f) => ShowsTheSpaces(f)'
           /\ \A c : Reduced(c)' = Reduced(c)
           /\ UNCHANGED <<Wanted, spaces>>
<1>1. UNCHANGED <<spaces, focused, dirs, mode>>
  BY DEF herdr
<1>2. ChosenSpaces' = ChosenSpaces
  BY <1>1 DEF ChosenSpaces
<1>3. \A p : Sources(p)' = Sources(p)
  BY <1>1, <1>2 DEF Sources
<1>4. \A p : Rank(p)' = Rank(p)
  BY <1>3 DEF Rank
<1>5. Wanted' = Wanted
  BY <1>1, <1>3 DEF Wanted
<1>6. \A f : ShowsTheSpaces(f) => ShowsTheSpaces(f)'
  <2> SUFFICES ASSUME NEW f, ShowsTheSpaces(f)
               PROVE  ShowsTheSpaces(f)'
    OBVIOUS
  <2> QED
    BY <1>1, <1>3, <1>4, <1>5 DEF ShowsTheSpaces
<1>7. \A c : Reduced(c)' = Reduced(c)
  BY <1>1 DEF Reduced
<1> QED
  BY <1>1, <1>5, <1>6, <1>7

\* What a run with the context c reads when the Spaces are S; the context of a
\* run that is launched now says what the Spaces say.
ReducedOf(S, c) ==
    [i \in DOMAIN S |->
        IF c.id = S[i].id /\ c.cwd # NoPath THEN [S[i] EXCEPT !.path = c.cwd] ELSE S[i]]

\* The context of an event that is not outdated changes nothing in the snapshot.
LEMMA FreshContext ==
    ASSUME NEW S \in Seq(Space), NEW c \in Contexts(S),
           \A i, j \in DOMAIN S : S[i].id = S[j].id => i = j
    PROVE  ReducedOf(S, c) = S
<1>1. \A i \in DOMAIN S : S[i] \in Space
  OBVIOUS
<1>2. ASSUME NEW i \in DOMAIN S, c.id = S[i].id, c.cwd # NoPath
      PROVE  [S[i] EXCEPT !.path = c.cwd] = S[i]
  <2>1. c # NoContext
    BY <1>1, <1>2, HerdrAssumption DEF NoContext, Space
  <2>2. PICK j \in DOMAIN S : c.id = S[j].id /\ c.cwd = S[j].path
    BY <2>1, ContextsAre
  <2>3. c.cwd = S[i].path
    BY <1>2, <2>2
  <2>4. \A s \in Space : [s EXCEPT !.path = s.path] = s
    BY DEF Space
  <2> QED
    BY <1>1, <2>3, <2>4
<1>3. ReducedOf(S, c) = [i \in DOMAIN S |-> S[i]]
  BY <1>2 DEF ReducedOf
<1>4. S = [i \in DOMAIN S |-> S[i]]
  OBVIOUS
<1> QED
  BY <1>3, <1>4

\* A run that starts alone is trusted.
LEMMA LaunchTrusts ==
    ASSUME SpacesInv', ListsInv, NEW r \in Runs, Launched(r, spaces')
    PROVE  TrustedInv'
<1>1. PICK c \in Contexts(spaces') : run' = [run EXCEPT ![r] = Memory("launched", c, <<>>, 0)]
  BY DEF Launched
<1>2. \A s \in Runs : run'[s] = IF s = r THEN Memory("launched", c, <<>>, 0) ELSE run[s]
  BY <1>1 DEF ListsInv
<1>3. SUFFICES ASSUME trusted'
               PROVE  TrustedInv'
  BY DEF TrustedInv
<1>4. \A s \in Runs : run[s].pc = "idle"
  BY <1>3 DEF Launched, InFlight
<1>5. (Reduced(c) = spaces)'
  <2>1. /\ spaces' \in Seq(Space)
        /\ \A i, j \in DOMAIN spaces' : spaces'[i].id = spaces'[j].id => i = j
    BY DEF SpacesInv
  <2>2. ReducedOf(spaces', c) = spaces'
    BY <1>1, <2>1, FreshContext
  <2> QED
    BY <2>2 DEF Reduced, ReducedOf
<1>6. run'[r].pc = "launched" /\ run'[r].context = c
  BY <1>2 DEF Memory
<1>7. \A s \in Runs : s # r => run'[s].pc = "idle"
  BY <1>2, <1>4
<1>8. \A s \in Runs : Sees(run[s])'
  <2> SUFFICES ASSUME NEW s \in Runs
               PROVE  Sees(run[s])'
    OBVIOUS
  <2>1. CASE s = r
    BY <1>5, <1>6, <2>1 DEF Sees
  <2>2. CASE s # r
    BY <1>7, <2>2 DEF Sees
  <2> QED
    BY <2>1, <2>2
<1> QED
  BY <1>6, <1>7, <1>8 DEF TrustedInv

\* A step of one run r, after which it is at m, leaves what the others see.
LEMMA SeesStill ==
    ASSUME ListsInv, TrustedInv, trusted, NEW r \in Runs, NEW m,
           run' = [run EXCEPT ![r] = m], UNCHANGED <<herdr, mode>>
    PROVE  /\ run'[r] = m
           /\ \A s \in Runs : s # r => run'[s] = run[s] /\ Sees(run[s])'
<1>1. \A s \in Runs : run'[s] = IF s = r THEN m ELSE run[s]
  BY DEF ListsInv
<1>2. \A s \in Runs : Sees(run[s])
  BY DEF TrustedInv
<1>3. ASSUME NEW s \in Runs, s # r
      PROVE  Sees(run[s])'
  BY <1>1, <1>2, <1>3, StillShows DEF Sees
<1> QED
  BY <1>1, <1>3

\* The trusted run moves on.
LEMMA MoveTrusts ==
    ASSUME ListsInv, TrustedInv, trusted' => trusted, NEW r \in Runs, NEW m,
           run[r].pc # "idle", m.pc # "idle",
           run' = [run EXCEPT ![r] = m], UNCHANGED <<herdr, mode>>,
           trusted' /\ run'[r] = m => Sees(run[r])'
    PROVE  TrustedInv'
<1> SUFFICES ASSUME trusted'
             PROVE  TrustedInv'
  BY DEF TrustedInv
<1>1. /\ run'[r] = m
      /\ \A s \in Runs : s # r => run'[s] = run[s] /\ Sees(run[s])'
  BY SeesStill
<1>2. \A r1, r2 \in Runs : run'[r1].pc # "idle" /\ run'[r2].pc # "idle" => r1 = r2
  BY <1>1 DEF TrustedInv
<1>3. \A s \in Runs : Sees(run[s])'
  BY <1>1
<1>4. ~\A s \in Runs : run'[s].pc = "idle"
  BY <1>1
<1> QED
  BY <1>2, <1>3, <1>4 DEF TrustedInv

\* The trusted run ends: the file must be right.
LEMMA EndTrusts ==
    ASSUME ListsInv, TrustedInv, trusted' => trusted, NEW r \in Runs, Ended(r),
           UNCHANGED <<herdr, mode>>,
           trusted' => Wanted = {} \/ ShowsTheSpaces(file'.folders)
    PROVE  TrustedInv'
<1> SUFFICES ASSUME trusted'
             PROVE  TrustedInv'
  BY DEF TrustedInv
<1>1. /\ run'[r] = Idle
      /\ \A s \in Runs : s # r => run'[s] = run[s] /\ Sees(run[s])'
  BY SeesStill DEF Ended
<1>2. \A r1, r2 \in Runs : run'[r1].pc # "idle" /\ run'[r2].pc # "idle" => r1 = r2
  BY <1>1 DEF TrustedInv, Idle, Memory
<1>3. \A s \in Runs : Sees(run[s])'
  <2> SUFFICES ASSUME NEW s \in Runs
               PROVE  Sees(run[s])'
    OBVIOUS
  <2>1. CASE s = r
    BY <1>1, <2>1 DEF Sees, Idle, Memory
  <2>2. CASE s # r
    BY <1>1, <2>2
  <2> QED
    BY <2>1, <2>2
<1>4. Wanted' = {} \/ ShowsTheSpaces(file.folders)'
  <2>1. CASE Wanted = {}
    BY <2>1, StillShows
  <2>2. CASE ShowsTheSpaces(file'.folders)
    BY <2>2, StillShows
  <2> QED
    BY <2>1, <2>2
<1> QED
  BY <1>2, <1>3, <1>4 DEF TrustedInv

\* Its folders are the ones to show; without any, there is nothing to show.
LEMMA ComputeTrusts ==
    ASSUME SpacesInv, ListsInv, TrustedInv, NEW r \in Runs, Compute(r)
    PROVE  TrustedInv'
<1> DEFINE es == ComputeFolders(Reduced(run[r].context))
           m == Memory("read", NoContext, es, 0)
<1>1. /\ UNCHANGED <<herdr, mode, file>> /\ (trusted' => trusted) /\ run[r].pc = "launched"
  BY DEF Compute
<1>2. trusted => ShowsTheSpaces(es)
  <2>1. trusted => Reduced(run[r].context) = spaces
    BY <1>1 DEF TrustedInv, Sees
  <2> QED
    BY <2>1, ComputeShows DEF SpacesInv
<1>3. CASE Ended(r)
  <2>1. trusted' => es = <<>>
    BY <1>3 DEF Compute, Ended, Idle, Memory, ListsInv
  <2> HIDE DEF es
  <2>2. trusted' => Wanted = {}
    BY <1>1, <1>2, <2>1 DEF ShowsTheSpaces
  <2> QED
    BY <1>1, <1>3, <2>2, EndTrusts
<1>4. CASE ~Ended(r)
  <2>1. run' = [run EXCEPT ![r] = m]
    BY <1>4 DEF Compute
  <2>2. m.pc = "read" /\ m.entries = es
    BY DEF Memory
  <2> HIDE DEF es, m
  <2>3. trusted' /\ run'[r] = m => Sees(run[r])'
    BY <1>1, <1>2, <2>2, StillShows DEF Sees
  <2> QED
    BY <1>1, <2>1, <2>2, <2>3, MoveTrusts
<1> QED
  BY <1>3, <1>4

\* TrustedInv is inductive: the read of the file.
LEMMA ReadTrusts ==
    ASSUME ListsInv, TrustedInv, NEW r \in Runs, ReadFile(r)
    PROVE  TrustedInv'
<1> DEFINE es == run[r].entries
           m == Memory("replace", NoContext, es, file.rest)
<1>1. /\ UNCHANGED <<herdr, mode, file>> /\ (trusted' => trusted) /\ run[r].pc = "read"
  BY DEF ReadFile
<1>2. trusted => ShowsTheSpaces(es)
  BY <1>1 DEF TrustedInv, Sees
<1>3. CASE Ended(r)
  <2>1. trusted' => IsUnchanged(file.folders, es)
    BY <1>3 DEF ReadFile, Ended, Idle, Memory, ListsInv
  <2>2. IsUnchanged(file.folders, es) =>
           /\ DOMAIN es = DOMAIN file.folders
           /\ \A i \in DOMAIN es : /\ es[i].path = file.folders[i].path
                                   /\ es[i].name = file.folders[i].name
    BY DEF IsUnchanged, Resolved
  <2> HIDE DEF es
  <2>3. trusted' => ShowsTheSpaces(file'.folders)
    BY <1>1, <1>2, <2>1, <2>2, ShowsTheSame
  <2> QED
    BY <1>1, <1>3, <2>3, EndTrusts
<1>4. CASE ~Ended(r)
  <2>1. run' = [run EXCEPT ![r] = m]
    BY <1>4 DEF ReadFile
  <2>2. m.pc = "replace" /\ m.entries = es
    BY DEF Memory
  <2> HIDE DEF es, m
  <2>3. trusted' /\ run'[r] = m => Sees(run[r])'
    BY <1>1, <1>2, <2>2, StillShows DEF Sees
  <2> QED
    BY <1>1, <2>1, <2>2, <2>3, MoveTrusts
<1> QED
  BY <1>3, <1>4

\* TrustedInv is inductive: os.replace.
LEMMA ReplaceTrusts ==
    ASSUME ListsInv, TrustedInv, NEW r \in Runs, Replace(r)
    PROVE  TrustedInv'
<1> DEFINE es == run[r].entries
<1>1. /\ UNCHANGED <<herdr, mode, trusted>> /\ run[r].pc = "replace" /\ Ended(r)
      /\ file'.folders = Rendered(es)
  BY DEF Replace, Spliced, history
<1>2. trusted => ShowsTheSpaces(es)
  BY <1>1 DEF TrustedInv, Sees
<1>3. es \in Seq(Shown) /\ es # <<>>
  BY <1>1 DEF ListsInv, MemoryOK
<1> HIDE DEF es
<1>4. trusted' => ShowsTheSpaces(file'.folders)
  BY <1>1, <1>2, <1>3, RenderedIs, ShowsTheSame
<1> QED
  BY <1>1, <1>4, EndTrusts

\* TrustedInv is inductive.
LEMMA NextTrustedInv ==
    ASSUME SpacesInv, ListsInv, TrustedInv, [Next]_vars
    PROVE  TrustedInv'
<1>1. SpacesInv'
  BY NextSpacesInv
<1>2. CASE ~trusted'
  BY <1>2 DEF TrustedInv
<1>3. ASSUME NEW r \in Runs, Run(r), trusted'
      PROVE  TrustedInv'
  <2>1. CASE Launch(r)
    BY <1>1, <2>1, LaunchTrusts DEF Launch, Launched, herdr
  <2>2. CASE Compute(r)
    BY <2>2, ComputeTrusts
  <2>3. CASE ReadFile(r)
    BY <2>3, ReadTrusts
  <2>4. CASE Replace(r)
    BY <2>4, ReplaceTrusts
  <2> QED
    BY <1>3, <2>1, <2>2, <2>3, <2>4 DEF Run, Fail
<1>4. CASE SpacesChange /\ trusted'
  BY <1>1, <1>4, LaunchTrusts DEF SpacesChange
<1>5. CASE QuietChange
  BY <1>2, <1>5 DEF QuietChange
<1>6. CASE UNCHANGED <<herdr, mode, run, trusted>> /\ file'.folders = file.folders
  <2>1. TrustedInv' = TrustedInv
    BY <1>6, StillShows DEF TrustedInv, Sees
  <2> QED
    BY <2>1
<1>7. CASE UserEdits /\ trusted'
  <2>1. EditRest
    BY <1>7 DEF UserEdits, AddFolder, DeleteFile, RestoreFile
  <2>2. UNCHANGED <<herdr, mode, run, trusted>> /\ file'.folders = file.folders
    BY <2>1 DEF EditRest, Edited, ListsInv
  <2> QED
    BY <1>6, <2>2
<1>8. CASE UNCHANGED vars
  BY <1>6, <1>8 DEF vars, history
<1> QED
  BY <1>2, <1>3, <1>4, <1>5, <1>7, <1>8 DEF Next

\* While a run is trusted, that started alone and saw no change, it is the only one, and
\* what it has computed shows the Spaces; so does the file when it is over (main.py).
THEOREM TrustedInvariance == Spec => [](SpacesInv /\ ListsInv /\ TrustedInv)
<1>1. Init => SpacesInv /\ ListsInv /\ TrustedInv
  BY InitLists DEF Init, TrustedInv
<1>2. (SpacesInv /\ ListsInv /\ TrustedInv) /\ [Next]_vars => (SpacesInv /\ ListsInv /\ TrustedInv)'
  BY NextSpacesInv, NextListsInv, NextTrustedInv
<1> QED
  BY <1>1, <1>2, PTL DEF Spec

\* Whatever races and kills came before it: a run that starts alone and sees no
\* change leaves a file that shows the Spaces (README.md, "Writing").
THEOREM NextRunCorrect == Spec => []NextRunCorrects
<1>1. TrustedInv => NextRunCorrects
  BY DEF TrustedInv, NextRunCorrects, InFlight
<1> QED
  BY <1>1, TrustedInvariance, PTL

-----------------------------------------------------------------------------
(* A list of folders is determined by what it shows.                       *)

Sorted(W, rank, p) ==
    /\ \A i, j \in 1..Len(p) : i < j => rank[p[i]] < rank[p[j]]
    /\ \A w \in W : \E i \in 1..Len(p) : p[i] = w

\* Where the first k members are the same, the place at which q has the next
\* one of p is not among them.
LEMMA NextPlace ==
    ASSUME NEW W, NEW rank \in [W -> Int], NEW p \in Seq(W), NEW q \in Seq(W),
           Sorted(W, rank, p), Sorted(W, rank, q), NEW k \in Nat,
           k + 1 <= Len(p), \A i \in 1..k : i <= Len(p) /\ p[i] = q[i]
    PROVE  \E j \in 1..Len(q) : q[j] = p[k + 1] /\ k + 1 <= j
<1>0. Len(p) \in Nat /\ Len(q) \in Nat /\ k + 1 \in 1..Len(p)
  OBVIOUS
<1>1. p[k + 1] \in W
  BY <1>0
<1>2. PICK j \in 1..Len(q) : q[j] = p[k + 1]
  BY <1>1 DEF Sorted
<1>3. ~(j <= k)
  <2> SUFFICES ASSUME j <= k
               PROVE  FALSE
    OBVIOUS
  <2>1. j \in 1..k /\ j \in 1..Len(p) /\ j < k + 1
    BY <1>0
  <2>2. p[j] = q[j]
    BY <2>1
  <2>3. rank[p[j]] < rank[p[k + 1]]
    BY <1>0, <2>1 DEF Sorted
  <2>4. rank[p[k + 1]] \in Int
    BY <1>1
  <2> QED
    BY <1>2, <2>2, <2>3, <2>4
<1>4. k + 1 <= j
  BY <1>0, <1>3
<1> QED
  BY <1>2, <1>4

\* Two lists of the same members, both sorted by the same strict order, are
\* the same list.
LEMMA SortedOnce ==
    ASSUME NEW W, NEW rank \in [W -> Int], NEW p \in Seq(W), NEW q \in Seq(W),
           Sorted(W, rank, p), Sorted(W, rank, q)
    PROVE  p = q
<1> DEFINE Same(k) == \A i \in 1..k : /\ i <= Len(p) <=> i <= Len(q)
                                      /\ i <= Len(p) => p[i] = q[i]
           T == {k \in Nat : Same(k)}
<1>0. /\ Len(p) \in Nat /\ DOMAIN p = 1..Len(p) /\ Len(q) \in Nat /\ DOMAIN q = 1..Len(q)
  OBVIOUS
<1>1. 0 \in T
  OBVIOUS
<1>2. ASSUME NEW k \in Nat, Same(k)
      PROVE  Same(k + 1)
  <2>1. 1..(k + 1) = 1..k \cup {k + 1}
    OBVIOUS
  <2>2. k + 1 <= Len(p) => \E j \in 1..Len(q) : q[j] = p[k + 1] /\ k + 1 <= j
    <3> SUFFICES ASSUME k + 1 <= Len(p)
                 PROVE  \E j \in 1..Len(q) : q[j] = p[k + 1] /\ k + 1 <= j
      OBVIOUS
    <3>1. \A i \in 1..k : i <= Len(p) /\ p[i] = q[i]
      BY <1>0, <1>2
    <3> QED
      BY <3>1, NextPlace
  <2>3. k + 1 <= Len(q) => \E j \in 1..Len(p) : p[j] = q[k + 1] /\ k + 1 <= j
    <3> SUFFICES ASSUME k + 1 <= Len(q)
                 PROVE  \E j \in 1..Len(p) : p[j] = q[k + 1] /\ k + 1 <= j
      OBVIOUS
    <3>1. \A i \in 1..k : i <= Len(q) /\ q[i] = p[i]
      BY <1>0, <1>2
    <3> QED
      BY <3>1, NextPlace
  <2>4. k + 1 <= Len(p) <=> k + 1 <= Len(q)
    BY <1>0, <2>2, <2>3
  <2>5. k + 1 <= Len(p) => p[k + 1] = q[k + 1]
    <3> SUFFICES ASSUME k + 1 <= Len(p), p[k + 1] # q[k + 1]
                 PROVE  FALSE
      OBVIOUS
    <3>1. PICK j \in 1..Len(q) : q[j] = p[k + 1] /\ k + 1 <= j
      BY <2>2
    <3>2. PICK m \in 1..Len(p) : p[m] = q[k + 1] /\ k + 1 <= m
      BY <2>3, <2>4
    <3>3. k + 1 < j /\ k + 1 < m /\ k + 1 \in 1..Len(p) /\ k + 1 \in 1..Len(q)
      <4>1. j # k + 1 /\ m # k + 1
        BY <3>1, <3>2
      <4>2. j \in Nat /\ m \in Nat /\ k + 1 \in Nat
        OBVIOUS
      <4>3. k + 1 < j /\ k + 1 < m
        BY <3>1, <3>2, <4>1, <4>2
      <4> QED
        BY <1>0, <2>4, <4>2, <4>3
    <3>4. rank[q[k + 1]] < rank[q[j]]
      BY <3>3 DEF Sorted
    <3>5. rank[p[k + 1]] < rank[p[m]]
      BY <3>3 DEF Sorted
    <3>6. rank[q[k + 1]] \in Int /\ rank[p[k + 1]] \in Int
      BY <3>3
    <3>7. rank[q[k + 1]] < rank[p[k + 1]] /\ rank[p[k + 1]] < rank[q[k + 1]]
      BY <3>1, <3>2, <3>4, <3>5
    <3> HIDE DEF Same, T
    <3> QED
      BY <3>6, <3>7
  <2> QED
    BY <1>2, <2>1, <2>4, <2>5
<1>3. ASSUME NEW k \in Nat, k \in T
      PROVE  k + 1 \in T
  <2>1. Same(k + 1)
    BY <1>2, <1>3
  <2> HIDE DEF Same
  <2> QED
    BY <2>1
<1>4. Nat \subseteq T
  <2> HIDE DEF T
  <2> QED
    BY <1>1, <1>3, NatSetInduction
<1>5. Same(Len(p)) /\ Same(Len(q))
  <2> HIDE DEF Same
  <2> QED
    BY <1>0, <1>4
<1>6. Len(p) = Len(q)
  <2>1. Len(p) # 0 => Len(p) \in 1..Len(p)
    BY <1>0
  <2>2. Len(q) # 0 => Len(q) \in 1..Len(q)
    BY <1>0
  <2>3. Len(p) # 0 => Len(p) <= Len(q)
    BY <1>0, <1>5, <2>1
  <2>4. Len(q) # 0 => Len(q) <= Len(p)
    BY <1>0, <1>5, <2>2
  <2>5. Len(p) <= Len(q) /\ Len(q) <= Len(p)
    BY <1>0, <2>3, <2>4
  <2>6. \A a, b \in Nat : a <= b /\ b <= a => a = b
    OBVIOUS
  <2> HIDE DEF Same, T
  <2> QED
    BY ONLY <1>0, <2>5, <2>6
<1>7. \A i \in 1..Len(p) : p[i] = q[i]
  BY <1>0, <1>5
<1> HIDE DEF T
<1> QED
  BY <1>0, <1>6, <1>7

\* The rank of a directory to show is a place in the candidates.
LEMMA RankTyped ==
    ASSUME spaces \in Seq(Space), NEW d \in Wanted
    PROVE  Rank(d) \in Int
<1>1. DOMAIN Pinned = 1..Len(Pinned) /\ Len(Pinned) \in Nat /\ DOMAIN spaces \in SUBSET Nat
  BY SyncAssumption
<1>2. CASE IsPinned(d)
  <2> DEFINE P == {i \in DOMAIN Pinned : Pinned[i] = d}
  <2>1. P \in SUBSET Nat /\ P # {}
    BY <1>1, <1>2 DEF IsPinned
  <2>2. First(P) \in P
    BY <2>1, FirstIsLeast
  <2> QED
    BY <1>1, <1>2, <2>2 DEF Rank
<1>3. CASE ~IsPinned(d)
  <2>1. Sources(d) \in SUBSET Nat /\ Sources(d) # {}
    BY <1>1, <1>3 DEF Wanted, Sources, ChosenSpaces
  <2>2. First(Sources(d)) \in Sources(d)
    BY <2>1, FirstIsLeast
  <2> QED
    BY <1>1, <1>3, <2>1, <2>2 DEF Rank
<1> QED
  BY <1>2, <1>3

\* Two lists that show the Spaces have the same paths and the same names.
LEMMA ShownOnce ==
    ASSUME spaces \in Seq(Space), NEW E, NEW F, NEW f \in Seq(E), NEW g \in Seq(F),
           ShowsTheSpaces(f), ShowsTheSpaces(g)
    PROVE  /\ DOMAIN f = DOMAIN g
           /\ \A i \in DOMAIN f : f[i].path = g[i].path /\ f[i].name = g[i].name
<1> DEFINE p == [i \in 1..Len(f) |-> f[i].path]
           q == [i \in 1..Len(g) |-> g[i].path]
           rank == [d \in Wanted |-> Rank(d)]
<1>0. /\ Len(f) \in Nat /\ DOMAIN f = 1..Len(f) /\ Len(g) \in Nat /\ DOMAIN g = 1..Len(g)
  OBVIOUS
<1>1. rank \in [Wanted -> Int]
  BY RankTyped
<1>2. /\ \A i \in 1..Len(f) : f[i].path \in Wanted
      /\ \A i, j \in 1..Len(f) : i < j => Rank(f[i].path) < Rank(f[j].path)
      /\ \A d \in Wanted : \E i \in 1..Len(f) : f[i].path = d
  BY <1>0 DEF ShowsTheSpaces
<1>3. /\ \A i \in 1..Len(g) : g[i].path \in Wanted
      /\ \A i, j \in 1..Len(g) : i < j => Rank(g[i].path) < Rank(g[j].path)
      /\ \A d \in Wanted : \E i \in 1..Len(g) : g[i].path = d
  BY <1>0 DEF ShowsTheSpaces
<1>4. p \in Seq(Wanted) /\ Len(p) = Len(f) /\ q \in Seq(Wanted) /\ Len(q) = Len(g)
  BY <1>0, <1>2, <1>3
<1>5. Sorted(Wanted, rank, p)
  BY <1>0, <1>2, <1>4 DEF Sorted
<1>6. Sorted(Wanted, rank, q)
  BY <1>0, <1>3, <1>4 DEF Sorted
<1>7. p = q
  <2> HIDE DEF p, q, rank
  <2> QED
    BY <1>1, <1>4, <1>5, <1>6, SortedOnce
<1>8. DOMAIN f = DOMAIN g
  <2> HIDE DEF p, q
  <2> QED
    BY <1>0, <1>4, <1>7
<1>9. \A i \in DOMAIN f : f[i].path = g[i].path
  <2>1. \A i \in 1..Len(f) : p[i] = f[i].path
    OBVIOUS
  <2>2. \A i \in 1..Len(g) : q[i] = g[i].path
    OBVIOUS
  <2> HIDE DEF p, q
  <2> QED
    BY <1>0, <1>7, <1>8, <2>1, <2>2
<1>10. \A i \in DOMAIN f : f[i].name = g[i].name
  BY <1>8, <1>9 DEF ShowsTheSpaces
<1> QED
  BY <1>8, <1>9, <1>10

\* A list of folders is resolved to its paths and names.
LEMMA EntriesAgree ==
    ASSUME NEW f, NEW es \in Seq(Shown), DOMAIN f = DOMAIN es,
           \A i \in DOMAIN f : f[i].path = es[i].path /\ f[i].name = es[i].name
    PROVE  Resolved(f) = es
<1>1. \A i \in DOMAIN es : es[i] = [path |-> es[i].path, name |-> es[i].name]
  <2>1. \A i \in DOMAIN es : es[i] \in Shown
    OBVIOUS
  <2>2. \A e \in Shown : e = [path |-> e.path, name |-> e.name]
    BY DEF Shown
  <2> QED
    BY <2>1, <2>2
<1>2. es = [i \in DOMAIN es |-> es[i]]
  OBVIOUS
<1> QED
  BY <1>1, <1>2 DEF Resolved

\* A trusted run that finds the right folders in the file, with whatever paths
\* VS Code has spelled them, does not write: the redundant runs are free
\* (write.py, is_unchanged).
THEOREM RedundantCorrect == Spec => RedundantRunsAreFree
<1> DEFINE Shows == /\ trusted /\ file.exists /\ file.folders \notin {NoMember, NoRoot}
                    /\ ShowsTheSpaces(file.folders)
<1>1. SpacesInv /\ ListsInv /\ TrustedInv /\ [Next]_vars
      => (Shows => \A r \in Runs : run[r].pc = "read" => run'[r].pc # "replace")
  <2> SUFFICES ASSUME SpacesInv, ListsInv, TrustedInv, [Next]_vars, Shows,
                      NEW r \in Runs, run[r].pc = "read"
               PROVE  run'[r].pc # "replace"
    OBVIOUS
  <2> DEFINE es == run[r].entries
  <2>1. es \in Seq(Shown) /\ ShowsTheSpaces(es)
    BY DEF ListsInv, MemoryOK, TrustedInv, Sees
  <2>2. file.folders \in Seq(Folder)
    BY DEF ListsInv
  <2>3. Resolved(file.folders) = es
    <3> HIDE DEF es
    <3> QED
      BY <2>1, <2>2, ShownOnce, EntriesAgree DEF SpacesInv
  <2>4. CASE ReadFile(r)
    <3>1. Ended(r)
      BY <2>3, <2>4 DEF ReadFile, IsUnchanged
    <3> QED
      BY <3>1 DEF Ended, Idle, Memory, ListsInv
  <2>5. CASE run'[r] = run[r] \/ Ended(r)
    BY <2>5 DEF Ended, Idle, Memory, ListsInv
  <2>6. ASSUME NEW s \in Runs, Run(s), s # r
        PROVE  run'[r] = run[r]
    BY <2>6 DEF Run, Launch, Launched, Compute, ReadFile, Replace, Fail, Ended, ListsInv
  <2>7. CASE Run(r)
    BY <2>4, <2>5, <2>7 DEF Run, Launch, Launched, Compute, Replace, Fail
  <2>8. CASE SpacesChange \/ QuietChange
    <3>1. ASSUME NEW s \in Runs, Launched(s, spaces')
          PROVE  run'[r] = run[r]
      BY <3>1 DEF Launched, ListsInv
    <3> QED
      BY <2>5, <2>8, <3>1 DEF SpacesChange, QuietChange
  <2>9. CASE UserEdits \/ UNCHANGED vars
    BY <2>5, <2>9 DEF UserEdits, EditRest, AddFolder, DeleteFile, RestoreFile, Edited, vars
  <2> QED
    BY <2>5, <2>6, <2>7, <2>8, <2>9 DEF Next
<1> QED
  BY <1>1, TrustedInvariance, PTL DEF Spec, RedundantRunsAreFree
==============================================================================
