-------------------------- MODULE TimeTrackerProofs --------------------------
(***************************************************************************)
(* Proofs about TimeTracker for any calendar, timeouts, minimum length,    *)
(* number of restarts and number of faults of each kind: a clean exit      *)
(* leaves no segment behind, and on a clock that is never set back, what a *)
(* poll has seen stays on disk and two entries overlap only when the later *)
(* one recovers a segment that was already billed.                         *)
(*                                                                         *)
(* The argument is about AllEntries: the entries in the log followed by    *)
(* those on their way there.  Appending one moves it within AllEntries, a  *)
(* crash cuts AllEntries off after the log, and whatever the tracker       *)
(* returns joins at the end.                                               *)
(*                                                                         *)
(* Last, that a report is true to the log: its note on overlaps may look   *)
(* at neighbours only, and its sums count no second twice without the note.*)
(***************************************************************************)
EXTENDS TimeTracker, SequenceTheorems, FiniteSetTheorems, WellFoundedInduction, TLAPS

ForwardClock == ClockSteps \subseteq Nat

Times == Tracker!Times
Segment == Tracker!Segment
Entry == Tracker!Entry
NeedsRollover == Tracker!NeedsRollover

AllEntries == log \o pending

\* The places at which the daemon may have an open segment, and those at which it
\* may have entries to write.
Tracking == {"poll", "update", "emit", "mirror", "finally"}
Writing == {"recovered", "update", "emit", "closed"}
Recovering == {"recovered", "recoverClear"}
AfterStart == Tracking \cup {"closed", "closeClear"}

\* Every variable keeps its type.
TypeOK ==
    /\ now \in Times
    /\ focus \in Tracker!Focus
    /\ pc \in Places
    /\ current \in Segment \cup {Nothing}
    /\ mirror \in Segment \cup {Nothing}
    /\ log \in Seq(Entry)
    /\ pending \in Seq(Entry)
    /\ call \in Tracker!Call
    /\ faults \in Nat
    /\ unwritten \in BOOLEAN

\* What the place of the daemon says of its memory.
PlaceOK ==
    /\ current # Nothing => pc \in Tracking
    /\ pending # <<>> => pc \in Writing
    /\ call.phase = "rollover" <=> pc = "update"

\* A segment that was opened and last active in the past, on one day.
Sane(seg) ==
    /\ seg \in Segment
    /\ seg.start \in Times
    /\ seg.last \in Times
    /\ seg.start <= seg.last
    /\ seg.last <= now
    /\ DayStart(seg.last) = DayStart(seg.start)

\* The entry e bills the segment, to its last activity or further, or to the last
\* second of the day.
Bills(e, seg) ==
    /\ e.ws = seg.ws
    /\ e.start = seg.start
    /\ seg.last < e.end + Second

\* An entry takes some time, which is over, of one day.
EntrySound(e) ==
    /\ e.start \in Times
    /\ e.start < e.end
    /\ e.end <= now
    /\ e.end < NextDay(e.start)

\* What there is of an entry when the mirrored segment is recovered: it was over
\* before the segment began, or bills it, or began when the segment was over.
ClearOf(e, seg) ==
    \/ e.end <= seg.start
    \/ Bills(e, seg)
    \/ seg.last <= e.start

\* e, the earlier of the two, is over when f begins, or began when f was over, or f
\* recovers a segment that e bills.
Apart(e, f) ==
    \/ e.end <= f.start
    \/ f.end <= e.start
    \/ /\ f.reason = "recovered"
       /\ e.ws = f.ws
       /\ e.start = f.start
       /\ f.end < e.end + Second

EntriesOK == \A i \in 1..Len(AllEntries) : EntrySound(AllEntries[i])

PairsOK ==
    \A i, j \in 1..Len(AllEntries) : i < j => Apart(AllEntries[i], AllEntries[j])

MirrorOK ==
    mirror # Nothing =>
        /\ Sane(mirror)
        /\ \A i \in 1..Len(AllEntries) : ClearOf(AllEntries[i], mirror)

\* The mirrored segment is an earlier state of the open one or over before it.
Continues(seg, old) ==
    \/ /\ seg.ws = old.ws
       /\ seg.start = old.start
       /\ old.last <= seg.last
    \/ old.last <= seg.start

CurrentOK ==
    current # Nothing =>
        /\ Sane(current)
        /\ \A i \in 1..Len(AllEntries) : AllEntries[i].end <= current.start
        /\ mirror # Nothing => Continues(current, mirror)

TicksOf(s) == UNION {Ticks(s[i].start, s[i].end) : i \in 1..Len(s)}

Billed == TicksOf(AllEntries)

\* What the mirror promises is kept before the mirror changes: by the recovery, and
\* by a daemon that has gone on from it.
PromisesKept ==
    pc \in Recovering \cup AfterStart =>
        Billable(mirror) \subseteq Billed \cup Billable(current)

DiskInv ==
    /\ EntriesOK
    /\ PairsOK
    /\ MirrorOK
    /\ CurrentOK
    /\ unwritten \/ PromisesKept
    /\ EarnedStaysOnDisk

IInv ==
    /\ TypeOK
    /\ PlaceOK
    /\ DiskInv

-----------------------------------------------------------------------------

\* An append moves the first of the entries on their way into the log.
LEMMA HeadMoves ==
    ASSUME NEW s \in Seq(Entry), NEW p \in Seq(Entry), p # <<>>
    PROVE  /\ Append(s, Head(p)) \in Seq(Entry)
           /\ Tail(p) \in Seq(Entry)
           /\ Append(s, Head(p)) \o Tail(p) = s \o p
  <1>1. Head(p) \in Entry /\ Tail(p) \in Seq(Entry) /\ p = <<Head(p)>> \o Tail(p)
    BY HeadTailProperties, ConcatProperties, SeqEqual
  <1>2. <<Head(p)>> \in Seq(Entry)
    BY <1>1
  <1>3. Append(s, Head(p)) = s \o <<Head(p)>>
    BY <1>1, AppendIsConcat
  <1>4. (s \o <<Head(p)>>) \o Tail(p) = s \o (<<Head(p)>> \o Tail(p))
    BY <1>1, <1>2, ConcatAssociative
  <1>5. Append(s, Head(p)) \in Seq(Entry)
    BY <1>1, AppendProperties
  <1> QED
    BY <1>1, <1>3, <1>4, <1>5

\* What the tracker returns joins at the end.
LEMMA JoinsAtTheEnd ==
    ASSUME NEW s \in Seq(Entry), NEW p \in Seq(Entry), NEW e \in Entry
    PROVE  s \o Append(p, e) = Append(s \o p, e)
  <1>1. <<e>> \in Seq(Entry) /\ s \o p \in Seq(Entry)
    BY ConcatProperties
  <1>2. Append(p, e) = p \o <<e>> /\ Append(s \o p, e) = (s \o p) \o <<e>>
    BY <1>1, AppendIsConcat
  <1> QED
    BY <1>1, <1>2, ConcatAssociative

\* The entries in the log come first.
LEMMA LogFirst ==
    ASSUME TypeOK
    PROVE  /\ AllEntries \in Seq(Entry)
           /\ Len(AllEntries) \in Nat /\ Len(log) \in Nat
           /\ Len(log) <= Len(AllEntries)
           /\ \A i \in 1..Len(log) : AllEntries[i] = log[i]
           /\ pending = <<>> => AllEntries = log
  BY ConcatProperties, ConcatEmptySeq, LenProperties DEF TypeOK, AllEntries

\* Of an entry, a segment and now, the times are integers.
LEMMA TimesAreIntegers ==
    /\ Times \subseteq Int
    /\ \A e \in Entry : e.start \in Int /\ e.end \in Int
    /\ \A seg \in Segment : seg.start \in Int /\ seg.last \in Int
    /\ Second \in Nat \ {0} /\ MinEntry \in Nat /\ Nothing \notin Segment
  BY TrackerAssumption
  DEF Times, Entry, Segment, Tracker!Times, Tracker!Entry, Tracker!Segment,
      Tracker!ParameterAssumption, Tracker!WorkspaceAssumption, Nothing, Tracker!NoSegment

\* One more entry bills its own seconds and no others.
LEMMA OneMoreBills ==
    ASSUME NEW s \in Seq(Entry), NEW e \in Entry
    PROVE  TicksOf(Append(s, e)) = TicksOf(s) \cup Ticks(e.start, e.end)
  <1> DEFINE t == Append(s, e)
  <1>1. /\ Len(t) = Len(s) + 1 /\ Len(s) \in Nat
        /\ \A i \in 1..Len(s) : t[i] = s[i]
        /\ t[Len(s) + 1] = e
    BY AppendProperties, LenProperties
  <1>2. 1..Len(t) = 1..Len(s) \cup {Len(s) + 1}
    BY <1>1
  <1> HIDE DEF t
  <1>3. ASSUME NEW x \in TicksOf(t)
        PROVE  x \in TicksOf(s) \cup Ticks(e.start, e.end)
    <2>1. PICK i \in 1..Len(t) : x \in Ticks(t[i].start, t[i].end)
      BY DEF TicksOf
    <2> QED
      BY <1>1, <1>2, <2>1 DEF TicksOf
  <1>4. ASSUME NEW x \in TicksOf(s)
        PROVE  x \in TicksOf(t)
    <2>1. PICK i \in 1..Len(s) : x \in Ticks(s[i].start, s[i].end)
      BY DEF TicksOf
    <2>2. i \in 1..Len(t) /\ t[i] = s[i]
      BY <1>1, <1>2
    <2> QED
      BY <2>1, <2>2 DEF TicksOf
  <1>5. Ticks(e.start, e.end) \subseteq TicksOf(t)
    <2>1. Len(s) + 1 \in 1..Len(t) /\ t[Len(s) + 1] = e
      BY <1>1, <1>2
    <2> QED
      BY <2>1 DEF TicksOf
  <1>6. TicksOf(t) = TicksOf(s) \cup Ticks(e.start, e.end)
    BY <1>3, <1>4, <1>5
  <1> QED
    BY <1>6 DEF t

-----------------------------------------------------------------------------

\* A crash, or a step that appends an entry, leaves all the entries, or the first
\* of them, and closes the open segment at most.
LEMMA EntriesStay ==
    ASSUME IInv, TypeOK',
           Len(AllEntries') <= Len(AllEntries),
           \A i \in 1..Len(AllEntries') : AllEntries'[i] = AllEntries[i],
           now <= now', mirror' = mirror, current' \in {current, Nothing}
    PROVE  EntriesOK' /\ PairsOK' /\ MirrorOK' /\ CurrentOK'
  <1>1. /\ \A i \in 1..Len(AllEntries') : i \in 1..Len(AllEntries)
        /\ \A i \in 1..Len(AllEntries) : AllEntries[i] \in Entry
        /\ now \in Int /\ now' \in Int
    BY LogFirst, TimesAreIntegers, LenProperties, ElementOfSeq DEF IInv, TypeOK
  <1>2. EntriesOK'
    BY <1>1, TimesAreIntegers DEF IInv, DiskInv, EntriesOK, EntrySound
  <1>3. PairsOK'
    BY <1>1 DEF IInv, DiskInv, PairsOK
  <1>4. ASSUME NEW seg, Sane(seg) PROVE Sane(seg)'
    BY <1>1, <1>4, TimesAreIntegers DEF Sane
  <1>5. MirrorOK'
    BY <1>1, <1>4 DEF IInv, DiskInv, MirrorOK, Sane
  <1>6. CurrentOK'
    BY <1>1, <1>4 DEF IInv, DiskInv, CurrentOK, Sane
  <1> QED
    BY <1>2, <1>3, <1>5, <1>6

\* What a call of the tracker does.  It may return an entry, which bills the open
\* segment; the segment that is open afterwards goes on from it, or starts when it
\* was over, or starts now if there was none.
Returns(e) ==
    /\ e \in Entry
    /\ current # Nothing
    /\ pending' = Append(pending, e)
    /\ Bills(e, current)
    /\ EntrySound(e)
    /\ current' # Nothing => e.end <= current'.start
    /\ Billable(current) \subseteq Ticks(e.start, e.end)

ReturnsNone ==
    /\ pending' = pending
    /\ Billable(current) \subseteq Billable(current')

GoesOn ==
    current' # Nothing =>
        /\ Sane(current')
        /\ current # Nothing => Continues(current', current)
        /\ current = Nothing => current'.start = now

Evolves ==
    /\ UNCHANGED <<now, log, mirror>>
    /\ ReturnsNone \/ \E e \in Entry : Returns(e)
    /\ GoesOn

\* Such a call keeps the entries, the mirror and the open segment in order, and
\* bills what the open segment has earned or keeps it in memory.
LEMMA EvolutionKeeps ==
    ASSUME IInv, TypeOK', Evolves
    PROVE  /\ EntriesOK' /\ PairsOK' /\ MirrorOK' /\ CurrentOK'
           /\ Billed \cup Billable(current) \subseteq Billed' \cup Billable(current)'
  <1> DEFINE n == Len(AllEntries)
  <1>1. /\ AllEntries \in Seq(Entry) /\ n \in Nat
        /\ \A i \in 1..n : AllEntries[i] \in Entry
        /\ now \in Int
        /\ log \in Seq(Entry) /\ pending \in Seq(Entry)
        /\ current # Nothing => current \in Segment
        /\ current' # Nothing => current' \in Segment
        /\ mirror # Nothing => mirror \in Segment
    BY LogFirst, TimesAreIntegers, LenProperties, ElementOfSeq DEF IInv, TypeOK
  <1>2. UNCHANGED <<now, log, mirror>> /\ GoesOn
    BY DEF Evolves
  <1>3. current' # Nothing =>
           /\ Sane(current)'
           /\ current # Nothing => current.start <= current'.start
           /\ \A i \in 1..n : AllEntries[i].end <= current'.start
           /\ mirror # Nothing => Continues(current', mirror)
    <2> SUFFICES ASSUME current' # Nothing
                 PROVE  /\ Sane(current)'
                        /\ current # Nothing => current.start <= current'.start
                        /\ \A i \in 1..n : AllEntries[i].end <= current'.start
                        /\ mirror # Nothing => Continues(current', mirror)
      OBVIOUS
    <2>1. Sane(current)' /\ Sane(current')
      BY <1>2 DEF GoesOn, Sane
    <2>2. CASE current = Nothing
      <3>1. current'.start = now
        BY <1>2, <2>2 DEF GoesOn
      <3>2. \A i \in 1..n : AllEntries[i].end <= now
        BY DEF IInv, DiskInv, EntriesOK, EntrySound
      <3>3. mirror # Nothing => mirror.last <= now
        BY DEF IInv, DiskInv, MirrorOK, Sane
      <3> QED
        BY <2>1, <2>2, <3>1, <3>2, <3>3 DEF Continues
    <2>3. CASE current # Nothing
      <3>1. Continues(current', current)
        BY <1>2, <2>3 DEF GoesOn
      <3>2. /\ Sane(current)
            /\ \A i \in 1..n : AllEntries[i].end <= current.start
            /\ mirror # Nothing => Continues(current, mirror)
        BY <2>3 DEF IInv, DiskInv, CurrentOK
      <3>3. current.start <= current'.start
        BY <1>1, <2>1, <2>3, <3>1, <3>2, TimesAreIntegers DEF Continues, Sane
      <3>4. \A i \in 1..n : AllEntries[i].end <= current'.start
        BY <1>1, <2>3, <3>2, <3>3, TimesAreIntegers
      <3>5. mirror # Nothing => Continues(current', mirror)
        BY <1>1, <2>1, <2>3, <3>1, <3>2, TimesAreIntegers DEF Continues, Sane
      <3> QED
        BY <2>1, <3>3, <3>4, <3>5
    <2> QED
      BY <2>2, <2>3
  <1>4. CASE ReturnsNone
    <2>1. AllEntries' = AllEntries
      BY <1>2, <1>4 DEF ReturnsNone, AllEntries
    <2>2. EntriesOK' /\ PairsOK' /\ MirrorOK'
      BY <1>2, <2>1 DEF IInv, DiskInv, EntriesOK, EntrySound, PairsOK, MirrorOK, Sane
    <2>3. CurrentOK'
      BY <1>2, <1>3, <2>1 DEF CurrentOK
    <2> QED
      BY <1>4, <2>1, <2>2, <2>3 DEF ReturnsNone, Billed, Billable
  <1>5. ASSUME NEW e \in Entry, Returns(e)
        PROVE  /\ EntriesOK' /\ PairsOK' /\ MirrorOK' /\ CurrentOK'
               /\ Billed \cup Billable(current) \subseteq Billed' \cup Billable(current)'
    <2>1. AllEntries' = Append(AllEntries, e)
      BY <1>1, <1>2, <1>5, JoinsAtTheEnd DEF Returns, AllEntries
    <2>2. /\ Len(AllEntries') = n + 1
          /\ \A i \in 1..n : AllEntries'[i] = AllEntries[i]
          /\ AllEntries'[n + 1] = e
          /\ 1..Len(AllEntries') = 1..n \cup {n + 1}
      BY <1>1, <2>1, AppendProperties
    <2>3. /\ current # Nothing /\ Sane(current) /\ Bills(e, current) /\ EntrySound(e)
          /\ \A i \in 1..n : AllEntries[i].end <= current.start
          /\ mirror # Nothing => Continues(current, mirror)
      BY <1>5 DEF Returns, IInv, DiskInv, CurrentOK
    <2>4. EntriesOK'
      BY <1>2, <2>2, <2>3 DEF IInv, DiskInv, EntriesOK, EntrySound
    <2>5. PairsOK'
      <3> SUFFICES ASSUME NEW i \in 1..Len(AllEntries'), NEW j \in 1..Len(AllEntries'), i < j
                   PROVE  Apart(AllEntries'[i], AllEntries'[j])
        BY DEF PairsOK
      <3>1. i \in 1..n
        BY <1>1, <2>2
      <3>2. CASE j \in 1..n
        BY <2>2, <3>1, <3>2 DEF IInv, DiskInv, PairsOK
      <3>3. CASE j = n + 1
        BY <2>2, <2>3, <3>1, <3>3 DEF Apart, Bills
      <3> QED
        BY <2>2, <3>2, <3>3
    <2>6. MirrorOK'
      <3> SUFFICES ASSUME mirror # Nothing
                   PROVE  /\ Sane(mirror)'
                          /\ \A i \in 1..Len(AllEntries') : ClearOf(AllEntries'[i], mirror)
        BY <1>2 DEF MirrorOK
      <3>1. Sane(mirror)' /\ \A i \in 1..n : ClearOf(AllEntries[i], mirror)
        BY <1>2 DEF IInv, DiskInv, MirrorOK, Sane
      <3>2. ClearOf(e, mirror)
        BY <1>1, <2>3, TimesAreIntegers DEF ClearOf, Bills, Continues
      <3> QED
        BY <2>2, <3>1, <3>2
    <2>7. CurrentOK'
      <3>1. current' # Nothing => e.end <= current'.start
        BY <1>5 DEF Returns
      <3> QED
        BY <1>2, <1>3, <2>2, <3>1 DEF CurrentOK
    <2>8. Billed' = Billed \cup Ticks(e.start, e.end)
      BY <1>1, <2>1, OneMoreBills DEF Billed, TicksOf
    <2> QED
      BY <1>5, <2>4, <2>5, <2>6, <2>7, <2>8 DEF Returns
  <1> QED
    BY <1>4, <1>5 DEF Evolves

-----------------------------------------------------------------------------

\* _finish() returns at most one entry, of its type.
LEMMA ReturnType ==
    ASSUME TypeOK, NEW seg \in Segment, NEW end \in Int, NEW reason \in Tracker!Reasons,
           Tracker!Return(seg, end, reason)
    PROVE  pending' \in Seq(Entry) /\ Len(pending') - Len(pending) \in Nat
  <1>1. Tracker!MakeEntry(seg, end, reason) \in Entry
    BY DEF Entry, Segment, Tracker!Entry, Tracker!Segment, Tracker!MakeEntry,
           Tracker!ClampedEnd
  <1>2. pending \in Seq(Entry) /\ Len(pending) \in Nat
    BY LenProperties DEF TypeOK
  <1>3. pending' = pending \/ pending' = Append(pending, Tracker!MakeEntry(seg, end, reason))
    BY DEF Tracker!Return
  <1> QED
    BY <1>1, <1>2, <1>3, AppendProperties

\* What a segment promises ends at its last activity or before.
LEMMA PromisedIsPast ==
    ASSUME NEW seg, Sane(seg)
    PROVE  /\ Promised(seg) \in Int
           /\ Promised(seg) <= seg.last
           /\ Tracker!EndOfDay(seg.start) \in Int
           /\ Promised(seg) <= Tracker!EndOfDay(seg.start)
  <1>1. NextDay(seg.start) \in Int /\ seg.last \in Int /\ Second \in Int
    BY TimesAreIntegers, TrackerAssumption DEF Sane, Tracker!CalendarAssumption, Times
  <1>2. Tracker!EndOfDay(seg.start) \in Int
    BY <1>1 DEF Tracker!EndOfDay
  <1> QED
    BY <1>1, <1>2 DEF Promised

\* Closing the open segment at its last activity or later, or at the end of its day,
\* returns what it has earned.
LEMMA ReturnEvolves ==
    ASSUME IInv, current # Nothing, UNCHANGED <<now, log, mirror>>,
           NEW end \in Int, Promised(current) <= end, current.last < end + Second, end <= now,
           end < NextDay(current.start),
           NEW reason \in Tracker!Reasons, Tracker!Return(current, end, reason),
           current' # Nothing =>
              Sane(current') /\ end <= current'.start /\ current.last <= current'.start
    PROVE  Evolves
  <1> DEFINE e == Tracker!MakeEntry(current, end, reason)
  <1>1. /\ current \in Segment /\ current.start \in Int /\ current.last \in Int
        /\ current.start <= current.last
        /\ MinEntry \in Nat /\ now \in Int /\ Promised(current) \in Int
    BY TimesAreIntegers, PromisedIsPast DEF IInv, DiskInv, CurrentOK, Sane, TypeOK
  <1>2. /\ Tracker!IsKept(current, end) => Tracker!ClampedEnd(current, end) = end
        /\ Tracker!IsKept(current, end) <=> end > current.start /\ end - current.start >= MinEntry
    BY <1>1 DEF Tracker!ClampedEnd, Tracker!IsKept
  <1>3. GoesOn
    BY <1>1, TimesAreIntegers DEF GoesOn, Continues, Sane
  <1>4. CASE Tracker!IsKept(current, end)
    <2>1. pending' = Append(pending, e) /\ end > current.start
      BY <1>2, <1>4 DEF Tracker!Return
    <2>2. e.ws = current.ws /\ e.start = current.start /\ e.end = end
      BY <1>2, <1>4 DEF Tracker!MakeEntry
    <2>3. e \in Entry
      BY <1>1, <1>2, <1>4 DEF Entry, Segment, Tracker!Entry, Tracker!Segment, Tracker!MakeEntry
    <2>4. Billable(current) \subseteq Ticks(e.start, e.end)
      BY <1>1, <2>2 DEF Billable, Ticks
    <2>5. Returns(e)
      <3>1. e.start \in Times /\ e.end < NextDay(e.start)
        BY <2>2 DEF IInv, DiskInv, CurrentOK, Sane
      <3> QED
        BY <1>1, <2>1, <2>2, <2>3, <2>4, <3>1 DEF Returns, Bills, EntrySound
    <2> QED
      BY <1>3, <2>3, <2>5 DEF Evolves
  <1>5. CASE ~Tracker!IsKept(current, end)
    <2>1. pending' = pending
      BY <1>5 DEF Tracker!Return
    <2>2. Billable(current) = {}
      BY <1>1, <1>2, <1>5 DEF Billable, Ticks
    <2> QED
      BY <1>3, <2>1, <2>2 DEF Evolves, ReturnsNone
  <1> QED
    BY <1>4, <1>5

\* A segment that stays as it is or is touched now keeps what it has earned.
LEMMA TouchEvolves ==
    ASSUME IInv, TypeOK', UNCHANGED <<now, log, mirror, pending>>,
           \/ current' = current
           \/ /\ current # Nothing
              /\ DayStart(now) = DayStart(current.start)
              /\ current' = [current EXCEPT !.last = now]
           \/ /\ current = Nothing
              /\ Sane(current') /\ current'.start = now
    PROVE  Evolves
  <1>1. /\ current # Nothing => Sane(current)
        /\ now \in Times /\ now \in Int
        /\ current # Nothing => current.start \in Int /\ current.last \in Int
    BY TimesAreIntegers DEF IInv, DiskInv, CurrentOK, Sane, TypeOK
  <1>2. CASE current' = current
    BY <1>1, <1>2 DEF Evolves, ReturnsNone, GoesOn, Continues
  <1>3. CASE /\ current # Nothing
             /\ DayStart(now) = DayStart(current.start)
             /\ current' = [current EXCEPT !.last = now]
    <2>1. current' \in Segment
      BY <1>1, <1>3 DEF Sane, Segment, Tracker!Segment
    <2>2. current'.ws = current.ws /\ current'.start = current.start /\ current'.last = now
      BY <1>1, <1>3 DEF Sane, Segment, Tracker!Segment
    <2>3. Sane(current') /\ Continues(current', current)
      BY <1>1, <1>3, <2>1, <2>2 DEF Sane, Continues
    <2>4. Billable(current) \subseteq Billable(current')
      <3>1. /\ Promised(current) \in Int /\ Promised(current') \in Int
            /\ Promised(current) <= Promised(current')
        BY <1>1, <1>3, <2>2, <2>3, PromisedIsPast DEF Promised, Sane
      <3> QED
        BY <1>1, <1>3, <2>1, <2>2, <3>1, TimesAreIntegers DEF Billable, Ticks
    <2> QED
      BY <1>3, <2>3, <2>4 DEF Evolves, ReturnsNone, GoesOn
  <1>4. CASE current = Nothing /\ Sane(current') /\ current'.start = now
    BY <1>4 DEF Evolves, ReturnsNone, GoesOn, Billable
  <1> QED
    BY <1>2, <1>3, <1>4

\* A day that is over ended before now and after the last activity of the segment
\* that began on it.
LEMMA DayIsOver ==
    ASSUME IInv, NeedsRollover, NextDay(current.start) \in Times
    PROVE  /\ current # Nothing
           /\ Tracker!EndOfDay(current.start) \in Int
           /\ Promised(current) <= Tracker!EndOfDay(current.start)
           /\ current.last < NextDay(current.start)
           /\ Tracker!EndOfDay(current.start) = NextDay(current.start) - Second
           /\ NextDay(current.start) <= now
           /\ current.start < NextDay(current.start)
  <1> DEFINE s == current.start
  <1>1. /\ current # Nothing /\ DayStart(now) # DayStart(s) /\ now \in Times
        /\ s \in Times /\ current.last \in Times /\ s <= current.last /\ current.last <= now
        /\ DayStart(current.last) = DayStart(s)
    BY DEF IInv, DiskInv, CurrentOK, Sane, TypeOK, NeedsRollover, Tracker!NeedsRollover,
           Tracker!IsOpen, Nothing
  <1>2. s \in Int /\ now \in Int /\ current.last \in Int /\ NextDay(s) \in Int /\ s <= now
    <2>1. s \in Int /\ now \in Int /\ current.last \in Int
      BY <1>1, TimesAreIntegers
    <2>2. NextDay(s) \in Int
      BY TimesAreIntegers
    <2> QED
      BY <1>1, <2>1, <2>2
  <1>3. /\ s < NextDay(s)
        /\ DayStart(s) <= s
        /\ DayStart(s) \in Int
        /\ DayStart(current.last) = DayStart(s) =>
              DayStart(s) <= current.last /\ current.last < NextDay(s)
        /\ DayStart(s) <= now /\ now < NextDay(s) => DayStart(now) = DayStart(s)
    BY <1>1, TrackerAssumption DEF Tracker!CalendarAssumption, Times
  <1>4. NextDay(s) <= now
    BY <1>1, <1>2, <1>3
  <1>5. Sane(current)
    BY <1>1 DEF IInv, DiskInv, CurrentOK
  <1> QED
    BY <1>1, <1>2, <1>3, <1>4, <1>5, PromisedIsPast DEF Tracker!EndOfDay

-----------------------------------------------------------------------------

\* The calls of the tracker keep the types.
TrackerTypes ==
    /\ current' \in Segment \cup {Nothing}
    /\ pending' \in Seq(Entry)
    /\ call' \in Tracker!Call

\* What is open is a segment.
LEMMA OpenIsSegment == TypeOK /\ current # Nothing => current \in Segment
  BY DEF TypeOK

\* Types: the idle close.
LEMMA BeginUpdateType ==
    ASSUME TypeOK, NEW ws \in Tracker!Focus, NEW active \in BOOLEAN,
           Tracker!BeginUpdate(ws, active)
    PROVE  TrackerTypes /\ call'.phase = "rollover"
  <1>1. CASE Tracker!IdleClose
    <2>1. current \in Segment /\ current.last \in Int /\ "idle" \in Tracker!Reasons
      BY <1>1, OpenIsSegment, TimesAreIntegers
      DEF Tracker!IdleClose, Tracker!IsOpen, Nothing, Tracker!Reasons
    <2>2. pending' \in Seq(Entry) /\ Len(pending') - Len(pending) \in Nat
      BY <1>1, <2>1, ReturnType DEF Tracker!IdleClose
    <2> QED
      BY <1>1, <2>2 DEF TrackerTypes, Tracker!BeginUpdate, Tracker!IdleClose, Tracker!Call, Nothing
  <1>2. CASE UNCHANGED <<current, pending>>
    <2>1. Len(pending') - Len(pending) \in Nat
      BY <1>2, LenProperties DEF TypeOK
    <2> QED
      BY <1>2, <2>1 DEF TypeOK, TrackerTypes, Tracker!BeginUpdate, Tracker!Call
  <1> QED
    BY <1>1, <1>2 DEF Tracker!BeginUpdate

\* Types: a turn of the midnight loop.
LEMMA RolloverType ==
    ASSUME TypeOK, Tracker!Rollover
    PROVE  TrackerTypes /\ call'.phase = call.phase
  <1>1. current \in Segment /\ current.start \in Int /\ current.last \in Int
    BY OpenIsSegment, TimesAreIntegers
    DEF Tracker!Rollover, Tracker!NeedsRollover, Tracker!IsOpen, Nothing
  <1>2. NextDay(current.start) \in Int /\ Second \in Int
    BY TimesAreIntegers DEF Tracker!Rollover, Times
  <1>3. Tracker!EndOfDay(current.start) \in Int /\ "rollover" \in Tracker!Reasons
    BY <1>2 DEF Tracker!EndOfDay, Tracker!Reasons
  <1>4. pending' \in Seq(Entry) /\ Len(pending') - Len(pending) \in Nat
    BY <1>1, <1>3, ReturnType DEF Tracker!Rollover
  <1>5. Len(pending) \in Nat /\ Len(pending') \in Nat
    BY <1>4, LenProperties DEF TypeOK
  <1>6. Tracker!CarriedOver(current) \in Segment
    BY <1>1, <1>2 DEF Segment, Tracker!Segment, Tracker!CarriedOver
  <1>7. call' \in Tracker!Call /\ call'.phase = call.phase
    <2>1. call \in Tracker!Call
      BY DEF TypeOK
    <2>2. call' = [call EXCEPT !.returned = call.returned + Len(pending') - Len(pending)]
      BY DEF Tracker!Rollover
    <2>3. call.returned + Len(pending') - Len(pending) \in Nat
      BY <1>4, <1>5, <2>1 DEF Tracker!Call
    <2> QED
      BY <2>1, <2>2, <2>3 DEF Tracker!Call
  <1> QED
    BY <1>4, <1>6, <1>7 DEF TrackerTypes, Tracker!Rollover

\* Types: the comparison with the focus.
LEMMA EndUpdateType ==
    ASSUME TypeOK, Tracker!EndUpdate
    PROVE  TrackerTypes /\ call'.phase = "ready"
  <1>1. now \in Int /\ Len(pending) \in Nat /\ call \in Tracker!Call /\ current \in Segment \cup {Nothing}
    BY TimesAreIntegers, LenProperties DEF TypeOK
  <1>2. /\ current' \in Segment \cup {Nothing}
        /\ pending' \in Seq(Entry)
        /\ Len(pending') - Len(pending) \in Nat
    <2>1. CASE Tracker!OpenOnActivity
      BY <1>1, <2>1 DEF Tracker!OpenOnActivity, Tracker!NewSegment, Segment, Tracker!Segment,
                        Nothing, TypeOK
    <2>2. CASE Tracker!KeepFocus
      BY <1>1, <2>2 DEF Tracker!KeepFocus, Tracker!Touched, Tracker!IsOpen, Segment,
                        Tracker!Segment, Nothing, TypeOK
    <2>3. CASE Tracker!CloseUnfocused \/ Tracker!SwitchFocus
      <3>1. /\ current \in Segment
            /\ "closed" \in Tracker!Reasons /\ "switch" \in Tracker!Reasons
            /\ \E reason \in {"closed", "switch"} : Tracker!Return(current, now, reason)
        BY <1>1, <2>3, OpenIsSegment
        DEF Tracker!CloseUnfocused, Tracker!SwitchFocus, Tracker!IsOpen, Nothing, Tracker!Reasons
      <3>2. pending' \in Seq(Entry) /\ Len(pending') - Len(pending) \in Nat
        BY <1>1, <3>1, ReturnType
      <3>3. current' \in Segment \cup {Nothing}
        BY <1>1, <2>3 DEF Tracker!CloseUnfocused, Tracker!SwitchFocus, Tracker!NewSegment,
                          Segment, Tracker!Segment, Nothing
      <3> QED
        BY <3>2, <3>3
    <2> QED
      BY <2>1, <2>2, <2>3 DEF Tracker!EndUpdate
  <1>3. Len(pending') \in Nat
    BY <1>2, LenProperties
  <1>4. call.returned + Len(pending') - Len(pending) \in Nat
    BY <1>1, <1>2, <1>3 DEF Tracker!Call
  <1>5. call' = [phase |-> "ready", ws |-> NoWorkspace, active |-> FALSE,
                 returned |-> call.returned + Len(pending') - Len(pending)]
    BY DEF Tracker!EndUpdate, Tracker!Idle
  <1> QED
    BY <1>2, <1>4, <1>5 DEF TrackerTypes, Tracker!Call, Tracker!Focus

\* Types: the close at the end of the daemon.
LEMMA CloseType ==
    ASSUME TypeOK, Tracker!Close("shutdown")
    PROVE  TrackerTypes /\ call'.phase = "ready"
  <1>1. current \in Segment /\ current.last \in Int /\ "shutdown" \in Tracker!Reasons
    BY OpenIsSegment, TimesAreIntegers DEF Tracker!Close, Tracker!IsOpen, Nothing, Tracker!Reasons
  <1>2. pending' \in Seq(Entry)
    BY <1>1, ReturnType DEF Tracker!Close
  <1> QED
    BY <1>2 DEF TrackerTypes, Tracker!Close, Tracker!Idle, Tracker!Call, Tracker!Focus, Nothing

\* Types: the recovery of what current.json holds.
LEMMA RecoverType ==
    ASSUME TypeOK, mirror # Nothing, Tracker!Recover(mirror)
    PROVE  TrackerTypes /\ call' = call
  <1>1. mirror \in Segment /\ mirror.last \in Int /\ "recovered" \in Tracker!Reasons
    BY TimesAreIntegers DEF TypeOK, Tracker!Reasons
  <1>2. pending' \in Seq(Entry)
    BY <1>1, ReturnType DEF Tracker!Recover
  <1> QED
    BY <1>2 DEF TypeOK, TrackerTypes, Tracker!Recover

-----------------------------------------------------------------------------

\* A time of the day of t is before the next midnight.
LEMMA SameDay ==
    ASSUME NEW t \in Times, NEW u \in Times, DayStart(u) = DayStart(t)
    PROVE  u < NextDay(t)
  BY TrackerAssumption DEF Tracker!CalendarAssumption, Times

\* The last activity is a time to close at, and so is now.
LEMMA LastCoversPromise ==
    ASSUME IInv, current # Nothing
    PROVE  /\ current.last \in Int /\ current.last <= now /\ now \in Int
           /\ Promised(current) <= current.last /\ current.last < current.last + Second
           /\ Promised(current) <= now /\ current.last < now + Second
           /\ current.last < NextDay(current.start)
  <1>1. Sane(current) /\ now \in Int /\ current.last \in Int /\ Second \in Nat \ {0}
    BY TimesAreIntegers DEF IInv, DiskInv, CurrentOK, Sane, TypeOK
  <1>2. Promised(current) \in Int /\ Promised(current) <= current.last
    BY <1>1, PromisedIsPast
  <1>3. current.last < NextDay(current.start)
    BY <1>1, SameDay DEF Sane
  <1> QED
    BY <1>1, <1>2, <1>3 DEF Sane

\* The idle close, a turn of the midnight loop, the rest of update() and close()
\* all evolve the open segment.
LEMMA BeginUpdateEvolves ==
    ASSUME IInv, TypeOK', UNCHANGED <<log, mirror>>,
           NEW ws, NEW active, Tracker!BeginUpdate(ws, active)
    PROVE  Evolves
  <1>1. CASE Tracker!IdleClose
    <2>1. current # Nothing
      BY <1>1 DEF Tracker!IdleClose, Tracker!IsOpen, Nothing
    <2>2. "idle" \in Tracker!Reasons /\ current' = Nothing /\ UNCHANGED now
      BY <1>1 DEF Tracker!IdleClose, Tracker!BeginUpdate, Tracker!Reasons, Nothing
    <2> QED
      BY <1>1, <2>1, <2>2, LastCoversPromise, ReturnEvolves DEF Tracker!IdleClose
  <1>2. CASE UNCHANGED <<current, pending>>
    BY <1>2, TouchEvolves DEF Tracker!BeginUpdate
  <1> QED
    BY <1>1, <1>2 DEF Tracker!BeginUpdate

\* A turn of the midnight loop keeps or emits what is open.
LEMMA RolloverEvolves ==
    ASSUME IInv, UNCHANGED <<log, mirror>>, Tracker!Rollover
    PROVE  Evolves
  <1> DEFINE next == NextDay(current.start)
  <1>1. NeedsRollover /\ next \in Times /\ UNCHANGED now
    BY DEF Tracker!Rollover, NeedsRollover, Times
  <1>2. /\ current # Nothing /\ current \in Segment
        /\ Tracker!EndOfDay(current.start) \in Int
        /\ Promised(current) <= Tracker!EndOfDay(current.start)
        /\ Tracker!EndOfDay(current.start) = next - Second
        /\ current.last < next
        /\ next <= now /\ now \in Int /\ next \in Int /\ current.last \in Int
        /\ Second \in Nat \ {0}
    BY <1>1, DayIsOver, TimesAreIntegers DEF IInv, TypeOK
  <1>3. current' = [ws |-> current.ws, start |-> next, last |-> next]
    BY <1>2 DEF Tracker!Rollover, Tracker!CarriedOver
  <1>4. current' \in Segment
    BY <1>2, <1>3 DEF Segment, Tracker!Segment
  <1>5. /\ Sane(current')
        /\ Tracker!EndOfDay(current.start) <= current'.start
        /\ current.last <= current'.start
    BY <1>1, <1>2, <1>3, <1>4 DEF Sane
  <1>6. /\ "rollover" \in Tracker!Reasons
        /\ Tracker!EndOfDay(current.start) <= now
        /\ current.last < Tracker!EndOfDay(current.start) + Second
    BY <1>2 DEF Tracker!Reasons
  <1>7. Tracker!Return(current, Tracker!EndOfDay(current.start), "rollover")
    BY DEF Tracker!Rollover
  <1> QED
    <2>1. UNCHANGED <<now, log, mirror>> /\ Tracker!EndOfDay(current.start) \in Int
      BY <1>1, <1>2
    <2> QED
      BY <1>2, <1>5, <1>6, <1>7, <2>1, ReturnEvolves

\* The comparison with the focus keeps or emits what is open.
LEMMA EndUpdateEvolves ==
    ASSUME IInv, TypeOK', UNCHANGED <<log, mirror>>, Tracker!EndUpdate
    PROVE  Evolves
  <1>1. UNCHANGED now /\ ~NeedsRollover /\ now \in Times /\ now \in Int
    BY TimesAreIntegers DEF Tracker!EndUpdate, NeedsRollover, IInv, TypeOK
  <1>2. current # Nothing =>
           Sane(current) /\ DayStart(now) = DayStart(current.start) /\ current.last \in Int
    BY <1>1, TimesAreIntegers
    DEF IInv, DiskInv, CurrentOK, NeedsRollover, Tracker!NeedsRollover, Tracker!IsOpen,
        Nothing, Sane
  <1>2a. current # Nothing => now < NextDay(current.start)
    BY <1>1, <1>2, SameDay DEF Sane
  <1>3. CASE Tracker!OpenOnActivity
    <2>1. current = Nothing /\ UNCHANGED pending
      BY <1>3 DEF Tracker!OpenOnActivity, Tracker!IsOpen, Nothing
    <2>2. current' = Nothing \/ (Sane(current') /\ current'.start = now)
      BY <1>1, <1>3 DEF Tracker!OpenOnActivity, Tracker!NewSegment, Sane, Nothing, Segment,
                        Tracker!Segment
    <2> QED
      BY <1>1, <2>1, <2>2, TouchEvolves
  <1>4. CASE Tracker!KeepFocus
    <2>1. current # Nothing /\ UNCHANGED pending
      BY <1>4 DEF Tracker!KeepFocus, Tracker!IsOpen, Nothing
    <2>2. current' = current \/ current' = [current EXCEPT !.last = now]
      BY <1>4 DEF Tracker!KeepFocus, Tracker!Touched
    <2> QED
      BY <1>1, <1>2, <2>1, <2>2, TouchEvolves
  <1>5. CASE Tracker!CloseUnfocused
    <2>1. /\ current # Nothing /\ current' = Nothing
          /\ Tracker!Return(current, now, "closed") /\ "closed" \in Tracker!Reasons
      BY <1>5 DEF Tracker!CloseUnfocused, Tracker!IsOpen, Nothing, Tracker!Reasons
    <2> QED
      BY <1>1, <1>2, <1>2a, <2>1, LastCoversPromise, ReturnEvolves DEF Sane
  <1>6. CASE Tracker!SwitchFocus
    <2>1. /\ current # Nothing /\ current' = [ws |-> call.ws, start |-> now, last |-> now]
          /\ call.ws \in Workspaces
          /\ Tracker!Return(current, now, "switch") /\ "switch" \in Tracker!Reasons
      BY <1>6 DEF Tracker!SwitchFocus, Tracker!IsOpen, Nothing, Tracker!Reasons, Tracker!NewSegment
    <2>2. current' \in Segment
      BY <1>1, <2>1 DEF Segment, Tracker!Segment
    <2>3. Sane(current') /\ now <= current'.start
      BY <1>1, <2>1, <2>2 DEF Sane
    <2> QED
      BY <1>1, <1>2, <1>2a, <2>1, <2>3, LastCoversPromise, ReturnEvolves DEF Sane
  <1> QED
    BY <1>3, <1>4, <1>5, <1>6 DEF Tracker!EndUpdate

\* The close at the end of the daemon emits what is open.
LEMMA CloseEvolves ==
    ASSUME IInv, UNCHANGED <<log, mirror>>, Tracker!Close("shutdown")
    PROVE  Evolves
  <1>1. current # Nothing
    BY DEF Tracker!Close, Tracker!IsOpen, Nothing
  <1>2. "shutdown" \in Tracker!Reasons /\ current' = Nothing /\ UNCHANGED now
    BY DEF Tracker!Close, Tracker!Reasons, Nothing
  <1> QED
    BY <1>1, <1>2, LastCoversPromise, ReturnEvolves DEF Tracker!Close

-----------------------------------------------------------------------------

\* The call that is not in progress, and the memory of a process that is gone.
LEMMA IdleType ==
    /\ Tracker!Idle \in Tracker!Call
    /\ Tracker!Idle.phase = "ready"
  BY DEF Tracker!Idle, Tracker!Call, Tracker!Focus

\* A new process starts with an empty tracker.
LEMMA ForgetType ==
    ASSUME Forget
    PROVE  TrackerTypes /\ call'.phase = "ready" /\ current' = Nothing /\ pending' = <<>>
  BY IdleType, EmptySeq DEF Forget, TrackerTypes

\* IInv holds at the start.
LEMMA InitInv == Init => IInv
  <1> SUFFICES ASSUME Init PROVE IInv
    OBVIOUS
  <1>1. 0 \in Times
    BY TrackerAssumption DEF Tracker!ParameterAssumption, Times, Tracker!Times
  <1>2. TypeOK /\ PlaceOK
    BY <1>1, IdleType, EmptySeq DEF Init, TypeOK, PlaceOK, Places
  <1>3. AllEntries = <<>> /\ Len(AllEntries) = 0
    BY DEF Init, AllEntries
  <1> QED
    BY <1>2, <1>3
    DEF Init, IInv, DiskInv, EntriesOK, PairsOK, MirrorOK, CurrentOK, PromisesKept,
        Recovering, AfterStart, Tracking, EarnedStaysOnDisk

\* Every action keeps the types and what the place says of the memory.
LEMMA TypeNext ==
    ASSUME TypeOK, PlaceOK, [Next]_vars
    PROVE  TypeOK' /\ PlaceOK'
  <1> USE DEF PlaceOK, Places, Tracking, Writing, environment, memory, disk, history
  <1>1. CASE UNCHANGED vars
    BY <1>1 DEF TypeOK, vars
  <1>2. CASE Environment
    BY <1>2 DEF TypeOK, Environment, Tick, ServerStops, ServerStarts, Start, Stop, FocusOn, Times
  <1>3. CASE Fault
    <2>1. CASE Kill
      BY <2>1, ForgetType DEF TypeOK, TrackerTypes, Kill
    <2>2. CASE AppendFails /\ pc = "emit"
      BY <2>2 DEF TypeOK, AppendFails, Emitting
    <2>3. CASE AppendFails /\ pc # "emit"
      BY <2>3, ForgetType DEF TypeOK, TrackerTypes, AppendFails, Emitting
    <2>4. CASE MirrorFails
      BY <2>4 DEF TypeOK, MirrorFails
    <2> QED
      BY <1>3, <2>1, <2>2, <2>3, <2>4 DEF Fault
  <1>4. CASE Daemon
    <2>1. CASE Recover
      <3>1. CASE mirror = Nothing
        BY <2>1, <3>1 DEF Recover, TypeOK
      <3>2. CASE mirror # Nothing
        BY <2>1, <3>2, RecoverType DEF Recover, TypeOK, TrackerTypes, Tracker!Recover
      <3> QED
        BY <3>1, <3>2
    <2>2. CASE AppendEntry
      <3>1. log' \in Seq(Entry) /\ pending' \in Seq(Entry)
        BY <2>2, HeadMoves DEF AppendEntry, TypeOK
      <3> QED
        BY <2>2, <3>1 DEF AppendEntry, Emitting, TypeOK
    <2>3. CASE Emitted
      BY <2>3 DEF Emitted, Emitting, AfterEmit, TypeOK
    <2>4. CASE ClearAfterRecovery
      BY <2>4 DEF ClearAfterRecovery, TypeOK
    <2>5. ASSUME NEW otherSign \in BOOLEAN, Snapshot(otherSign) PROVE TypeOK' /\ PlaceOK'
      <3>1. TrackerTypes /\ call'.phase = "rollover" /\ UNCHANGED now
        BY <2>5, BeginUpdateType DEF Snapshot, TypeOK, Active, FocusMoved, Tracker!BeginUpdate
      <3> QED
        BY <2>5, <3>1 DEF Snapshot, TypeOK, TrackerTypes
    <2>6. CASE UpdateLoop
      BY <2>6, RolloverType DEF UpdateLoop, TypeOK, TrackerTypes, Tracker!Rollover
    <2>7. CASE UpdateEnds
      BY <2>7, EndUpdateType DEF UpdateEnds, TypeOK, TrackerTypes, Tracker!EndUpdate
    <2>8. CASE Mirror
      BY <2>8 DEF Mirror, TypeOK
    <2>9. CASE ServerGone
      BY <2>9, CloseType DEF ServerGone, Asked, TypeOK, TrackerTypes, Tracker!Close, Nothing
    <2>10. CASE LoopEnds
      BY <2>10 DEF LoopEnds, TypeOK
    <2>11. CASE Finally
      <3>1. CASE current # Nothing
        BY <2>11, <3>1, CloseType DEF Finally, TypeOK, TrackerTypes, Tracker!Close, Nothing
      <3>2. CASE current = Nothing
        BY <2>11, <3>2, ForgetType DEF Finally, TypeOK, TrackerTypes
      <3> QED
        BY <3>1, <3>2
    <2>12. CASE ClearAfterClose
      BY <2>12, ForgetType DEF ClearAfterClose, TypeOK, TrackerTypes
    <2> QED
      BY <1>4, <2>1, <2>2, <2>3, <2>4, <2>5, <2>6, <2>7, <2>8, <2>9, <2>10, <2>11, <2>12 DEF Daemon
  <1> QED
    BY <1>1, <1>2, <1>3, <1>4 DEF Next

-----------------------------------------------------------------------------

\* The daemon moves on, or the environment moves, and the disk and the tracker stay
\* as they are.
LEMMA MoveOn ==
    ASSUME IInv, TypeOK', UNCHANGED <<log, pending, current, mirror, earned, unwritten>>,
           now <= now',
           pc' \in Recovering \cup AfterStart =>
              pc \in Recovering \cup AfterStart \/ mirror = Nothing
    PROVE  DiskInv'
  <1>1. AllEntries' = AllEntries /\ Len(AllEntries) \in Nat
    BY LogFirst DEF AllEntries, IInv
  <1>2. EntriesOK' /\ PairsOK' /\ MirrorOK' /\ CurrentOK'
    BY <1>1, EntriesStay
  <1>3. (unwritten \/ PromisesKept)'
    BY <1>1 DEF IInv, DiskInv, PromisesKept, Billed, Billable
  <1>4. EarnedStaysOnDisk'
    BY DEF IInv, DiskInv, EarnedStaysOnDisk, Logged, Billable
  <1> QED
    BY <1>2, <1>3, <1>4 DEF DiskInv

\* A process dies, or an append fails: the entries on their way are lost.
LEMMA LoseEntries ==
    ASSUME IInv, TypeOK', UNCHANGED <<now, log, mirror, earned>>, pending' = <<>>,
           current' \in {current, Nothing},
           \/ unwritten'
           \/ unwritten' = unwritten /\ pc' = "down"
    PROVE  DiskInv'
  <1>1. /\ AllEntries' = log
        /\ Len(log) <= Len(AllEntries)
        /\ \A i \in 1..Len(log) : AllEntries[i] = log[i]
    BY LogFirst, ConcatEmptySeq DEF AllEntries, IInv, TypeOK
  <1>2. now <= now'
    BY TimesAreIntegers DEF IInv, TypeOK
  <1>3. EntriesOK' /\ PairsOK' /\ MirrorOK' /\ CurrentOK'
    BY <1>1, <1>2, EntriesStay
  <1>4. (unwritten \/ PromisesKept)'
    BY DEF PromisesKept, Recovering, AfterStart, Tracking
  <1>5. EarnedStaysOnDisk'
    BY DEF IInv, DiskInv, EarnedStaysOnDisk, Logged, Billable
  <1> QED
    BY <1>3, <1>4, <1>5 DEF DiskInv

\* A running daemon calls its tracker.
LEMMA CallTracker ==
    ASSUME IInv, TypeOK', Evolves, UNCHANGED <<earned, unwritten>>, pc \in AfterStart
    PROVE  DiskInv'
  <1>1. UNCHANGED <<log, mirror>>
    BY DEF Evolves
  <1>2. (unwritten \/ PromisesKept)'
    BY <1>1, EvolutionKeeps DEF IInv, DiskInv, PromisesKept, Billable
  <1>3. EarnedStaysOnDisk'
    BY <1>1 DEF IInv, DiskInv, EarnedStaysOnDisk, Logged, Billable
  <1> QED
    BY <1>2, <1>3, EvolutionKeeps DEF DiskInv

\* An entry reaches the log.
LEMMA WriteEntry ==
    ASSUME IInv, TypeOK', pending # <<>>, log' = Append(log, Head(pending)),
           pending' = Tail(pending), UNCHANGED <<now, current, mirror, earned, unwritten, pc>>
    PROVE  DiskInv'
  <1>1. AllEntries' = AllEntries /\ Len(AllEntries) \in Nat
    BY HeadMoves, LogFirst DEF AllEntries, IInv, TypeOK
  <1>2. now <= now'
    BY TimesAreIntegers DEF IInv, TypeOK
  <1>3. EntriesOK' /\ PairsOK' /\ MirrorOK' /\ CurrentOK'
    BY <1>1, <1>2, EntriesStay
  <1>4. (unwritten \/ PromisesKept)'
    BY <1>1 DEF IInv, DiskInv, PromisesKept, Billed, Billable
  <1>5. Logged \subseteq Logged'
    <2>1. Head(pending) \in Entry /\ log \in Seq(Entry)
      BY HeadTailProperties DEF IInv, TypeOK
    <2>2. TicksOf(log) \subseteq TicksOf(log')
      BY <2>1, OneMoreBills
    <2> QED
      BY <2>2 DEF TicksOf, Logged
  <1>6. EarnedStaysOnDisk'
    BY <1>5 DEF IInv, DiskInv, EarnedStaysOnDisk, Billable
  <1> QED
    BY <1>3, <1>4, <1>6 DEF DiskInv

\* What the disk keeps of earned work before the mirror changes.
LEMMA KeptOnDisk ==
    ASSUME IInv, pending = <<>>, pc \in Recovering \cup AfterStart
    PROVE  unwritten \/ earned \subseteq Logged \cup Billable(current)
  <1>1. Billed = Logged
    BY LogFirst DEF IInv, Billed, Logged, TicksOf
  <1> QED
    BY <1>1 DEF IInv, DiskInv, PromisesKept, EarnedStaysOnDisk

\* current.json goes when there is no segment that is not billed.
LEMMA ClearMirror ==
    ASSUME IInv, TypeOK', UNCHANGED <<now, log, earned, unwritten>>,
           pending = <<>>, pending' = <<>>, current = Nothing, current' = Nothing,
           mirror' = Nothing, pc \in Recovering \cup AfterStart
    PROVE  DiskInv'
  <1>1. AllEntries' = AllEntries
    BY DEF AllEntries
  <1>2. EntriesOK' /\ PairsOK' /\ MirrorOK' /\ CurrentOK'
    BY <1>1 DEF IInv, DiskInv, EntriesOK, EntrySound, PairsOK, MirrorOK, CurrentOK
  <1>3. Billable(current) = {} /\ Billable(mirror)' = {}
    BY DEF Billable
  <1>4. PromisesKept'
    BY <1>3 DEF PromisesKept
  <1>5. EarnedStaysOnDisk'
    BY <1>3, KeptOnDisk DEF EarnedStaysOnDisk, Logged
  <1> QED
    BY <1>2, <1>4, <1>5 DEF DiskInv

\* The open segment is mirrored: what the old mirror promised is in the log or in
\* the new one.
LEMMA MirrorKeeps ==
    ASSUME IInv, TypeOK', Mirror
    PROVE  DiskInv'
  <1>1. /\ AllEntries' = AllEntries /\ pending = <<>> /\ pc \in AfterStart
        /\ UNCHANGED <<now, log, current, unwritten>>
        /\ mirror' = current
    BY DEF Mirror, environment, memory, AllEntries, IInv, PlaceOK, Writing, AfterStart, Tracking
  <1>2. EntriesOK' /\ PairsOK'
    BY <1>1 DEF IInv, DiskInv, EntriesOK, EntrySound, PairsOK
  <1>3. MirrorOK'
    BY <1>1 DEF IInv, DiskInv, CurrentOK, MirrorOK, Sane, ClearOf
  <1>4. CurrentOK'
    <2>1. current # Nothing => current.last \in Int
      BY TimesAreIntegers DEF IInv, TypeOK
    <2> QED
      BY <1>1, <2>1 DEF IInv, DiskInv, CurrentOK, Sane, Continues
  <1>5. PromisesKept'
    BY <1>1 DEF PromisesKept, Billable
  <1>6. earned' = earned \cup Logged \cup Billable(current)
    BY DEF Mirror
  <1>7. EarnedStaysOnDisk'
    BY <1>1, <1>6, KeptOnDisk DEF EarnedStaysOnDisk, Logged, Billable
  <1> QED
    BY <1>2, <1>3, <1>4, <1>5, <1>7 DEF DiskInv

\* The recovery bills the mirrored segment, a second time if it was killed before
\* it removed current.json.
LEMMA RecoverKeeps ==
    ASSUME IInv, TypeOK', Recover, mirror # Nothing
    PROVE  DiskInv'
  <1> DEFINE e == Tracker!MakeEntry(mirror, mirror.last, "recovered")
             n == Len(AllEntries)
  <1>1. /\ pc = "recover" /\ pc' = "recovered"
        /\ current = Nothing /\ pending = <<>>
        /\ UNCHANGED <<now, current, log, mirror, earned, unwritten>>
        /\ Tracker!Return(mirror, mirror.last, "recovered")
    BY DEF Recover, Tracker!Recover, disk, history, IInv, PlaceOK, Tracking, Writing
  <1>2. /\ Sane(mirror) /\ mirror.start \in Int /\ mirror.last \in Int
        /\ mirror.start <= mirror.last /\ mirror.last <= now
        /\ now \in Int
        /\ \A i \in 1..n : ClearOf(AllEntries[i], mirror)
        /\ AllEntries \in Seq(Entry) /\ n \in Nat
        /\ \A i \in 1..n : AllEntries[i] \in Entry
        /\ log \in Seq(Entry) /\ pending \in Seq(Entry)
        /\ Second \in Nat \ {0}
    BY LogFirst, TimesAreIntegers, ElementOfSeq DEF IInv, DiskInv, MirrorOK, Sane, TypeOK
  <1>2a. Promised(mirror) \in Int /\ Promised(mirror) <= mirror.last
    BY <1>2, PromisedIsPast
  <1>3. EarnedStaysOnDisk' /\ CurrentOK'
    BY <1>1 DEF IInv, DiskInv, EarnedStaysOnDisk, Logged, Billable, CurrentOK
  <1>4. Tracker!ClampedEnd(mirror, mirror.last) = mirror.last
    BY <1>2 DEF Tracker!ClampedEnd
  <1>5. CASE ~Tracker!IsKept(mirror, mirror.last)
    <2>1. AllEntries' = AllEntries
      BY <1>1, <1>5 DEF Tracker!Return, AllEntries
    <2>2. Billable(mirror) = {}
      BY <1>2a, <1>2, <1>4, <1>5, TimesAreIntegers DEF Tracker!IsKept, Billable, Ticks
    <2>3. PromisesKept'
      BY <1>1, <2>2 DEF PromisesKept, Billable
    <2>4. EntriesOK' /\ PairsOK' /\ MirrorOK'
      BY <1>1, <2>1 DEF IInv, DiskInv, EntriesOK, EntrySound, PairsOK, MirrorOK, Sane
    <2> QED
      BY <1>3, <2>3, <2>4 DEF DiskInv
  <1>6. CASE Tracker!IsKept(mirror, mirror.last)
    <2>1. /\ e.ws = mirror.ws /\ e.start = mirror.start /\ e.end = mirror.last
          /\ e.reason = "recovered" /\ e.start < e.end
      BY <1>2, <1>4, <1>6 DEF Tracker!MakeEntry, Tracker!IsKept
    <2>2. e \in Entry
      BY <1>2, <1>4 DEF Sane, Entry, Segment, Tracker!Entry, Tracker!Segment,
                        Tracker!MakeEntry, Tracker!Reasons
    <2>3. AllEntries' = Append(AllEntries, e)
      BY <1>1, <1>2, <1>6, <2>2, JoinsAtTheEnd DEF Tracker!Return, AllEntries
    <2> HIDE DEF e
    <2>4. /\ Len(AllEntries') = n + 1
          /\ \A i \in 1..n : AllEntries'[i] = AllEntries[i]
          /\ AllEntries'[n + 1] = e
          /\ 1..Len(AllEntries') = 1..n \cup {n + 1}
      BY <1>2, <2>2, <2>3, AppendProperties
    <2>5. EntriesOK'
      <3>1. mirror.start \in Times /\ mirror.last < NextDay(mirror.start)
        BY <1>2, SameDay DEF Sane
      <3> QED
        BY <1>1, <1>2, <2>1, <2>4, <3>1 DEF IInv, DiskInv, EntriesOK, EntrySound
    <2>6. PairsOK'
      <3> SUFFICES ASSUME NEW i \in 1..Len(AllEntries'), NEW j \in 1..Len(AllEntries'), i < j
                   PROVE  Apart(AllEntries'[i], AllEntries'[j])
        BY DEF PairsOK
      <3>1. i \in 1..n
        BY <1>2, <2>4
      <3>2. CASE j \in 1..n
        BY <2>4, <3>1, <3>2 DEF IInv, DiskInv, PairsOK
      <3>3. CASE j = n + 1
        BY <1>2, <2>1, <2>4, <3>1, <3>3 DEF Apart, ClearOf, Bills
      <3> QED
        BY <2>4, <3>2, <3>3
    <2>7. MirrorOK'
      <3>1. ClearOf(e, mirror) /\ Sane(mirror)'
        BY <1>1, <1>2, <2>1 DEF ClearOf, Bills, Sane
      <3> QED
        BY <1>1, <1>2, <2>4, <3>1 DEF MirrorOK
    <2>8. Billable(mirror) \subseteq Billed'
      <3>1. Billable(mirror) \subseteq Ticks(e.start, e.end)
        BY <1>2a, <1>2, <2>1 DEF Billable, Ticks
      <3>2. Billed' = Billed \cup Ticks(e.start, e.end)
        <4>1. TicksOf(Append(AllEntries, e)) = TicksOf(AllEntries) \cup Ticks(e.start, e.end)
          BY <1>2, <2>2, OneMoreBills
        <4>2. Billed' = TicksOf(AllEntries')
          BY DEF Billed, TicksOf
        <4> QED
          BY <2>3, <4>1, <4>2 DEF Billed
      <3> QED
        BY <3>1, <3>2
    <2>9. PromisesKept'
      BY <1>1, <2>8 DEF PromisesKept, Billable
    <2> QED
      BY <1>3, <2>5, <2>6, <2>7, <2>9 DEF DiskInv
  <1> QED
    BY <1>5, <1>6

-----------------------------------------------------------------------------

\* Every action keeps the disk in order.
LEMMA DiskNext ==
    ASSUME ForwardClock, IInv, TypeOK', [Next]_vars
    PROVE  DiskInv'
  <1> USE DEF environment, memory, disk, history
  <1>0. now \in Int /\ now <= now /\ (pc \in Tracking => pc \in AfterStart)
    BY TimesAreIntegers DEF IInv, TypeOK, AfterStart
  <1>1. CASE UNCHANGED vars
    BY <1>0, <1>1, MoveOn DEF vars
  <1>2. CASE Environment
    <2>1. now <= now'
      BY <1>0, <1>2 DEF Environment, Tick, ServerStops, ServerStarts, Start, Stop, FocusOn,
                        ForwardClock
    <2>2. UNCHANGED <<log, pending, current, mirror, earned, unwritten>>
      BY <1>2 DEF Environment, Tick, ServerStops, ServerStarts, Start, Stop, FocusOn
    <2>3. pc' = pc \/ pc' = "recover"
      BY <1>2 DEF Environment, Tick, ServerStops, ServerStarts, Start, Stop, FocusOn
    <2> QED
      BY <2>1, <2>2, <2>3, MoveOn DEF Recovering, AfterStart, Tracking
  <1>3. CASE Fault
    <2>1. CASE Kill \/ (AppendFails /\ pc # "emit")
      BY <2>1, LoseEntries DEF Kill, AppendFails, Forget
    <2>2. CASE AppendFails /\ pc = "emit"
      BY <2>2, LoseEntries DEF AppendFails
    <2>3. CASE MirrorFails
      BY <1>0, <2>3, MoveOn DEF MirrorFails, AfterStart, Tracking
    <2> QED
      BY <1>3, <2>1, <2>2, <2>3 DEF Fault
  <1>4. CASE Daemon
    <2>1. CASE Recover
      <3>1. CASE mirror = Nothing
        BY <1>0, <2>1, <3>1, MoveOn DEF Recover
      <3> QED
        BY <2>1, <3>1, RecoverKeeps
    <2>2. CASE AppendEntry
      BY <2>2, WriteEntry DEF AppendEntry
    <2>3. CASE Emitted
      BY <1>0, <2>3, MoveOn DEF Emitted, Emitting, Recovering, AfterStart, Tracking
    <2>4. CASE ClearAfterRecovery
      BY <2>4, ClearMirror DEF ClearAfterRecovery, IInv, PlaceOK, Writing, Recovering, Tracking
    <2>5. ASSUME NEW otherSign \in BOOLEAN, Snapshot(otherSign) PROVE DiskInv'
      BY <1>0, <2>5, BeginUpdateEvolves, CallTracker DEF Snapshot, Asked, Tracking
    <2>6. CASE UpdateLoop
      BY <1>0, <2>6, RolloverEvolves, CallTracker DEF UpdateLoop, Tracking
    <2>7. CASE UpdateEnds
      BY <1>0, <2>7, EndUpdateEvolves, CallTracker DEF UpdateEnds, Tracking
    <2>8. CASE Mirror
      BY <2>8, MirrorKeeps
    <2>9. CASE ServerGone
      <3>1. CASE current # Nothing
        BY <1>0, <2>9, <3>1, CloseEvolves, CallTracker DEF ServerGone, Asked, Tracking
      <3>2. CASE current = Nothing
        BY <1>0, <2>9, <3>2, MoveOn DEF ServerGone, Asked, Tracking
      <3> QED
        BY <3>1, <3>2
    <2>10. CASE LoopEnds
      BY <1>0, <2>10, MoveOn DEF LoopEnds, Tracking
    <2>11. CASE Finally
      <3>1. CASE current # Nothing
        BY <1>0, <2>11, <3>1, CloseEvolves, CallTracker DEF Finally, Tracking
      <3>2. CASE current = Nothing
        BY <2>11, <3>2, LoseEntries DEF Finally, Forget
      <3> QED
        BY <3>1, <3>2
    <2>12. CASE ClearAfterClose
      BY <2>12, ClearMirror
      DEF ClearAfterClose, Forget, IInv, PlaceOK, Writing, Recovering, AfterStart, Tracking
    <2> QED
      BY <1>4, <2>1, <2>2, <2>3, <2>4, <2>5, <2>6, <2>7, <2>8, <2>9, <2>10, <2>11, <2>12 DEF Daemon
  <1> QED
    BY <1>1, <1>2, <1>3, <1>4 DEF Next

-----------------------------------------------------------------------------

\* IInv is inductive.
LEMMA NextInv ==
    ASSUME ForwardClock, IInv, [Next]_vars
    PROVE  IInv'
  BY TypeNext, DiskNext DEF IInv

\* The strengthened invariant holds throughout every run on a clock that is
\* never set back.
THEOREM Invariance == ASSUME ForwardClock PROVE Spec => []IInv
  <1>1. IInv /\ [Next]_vars => IInv'
    BY NextInv
  <1> QED
    BY <1>1, InitInv, PTL DEF Spec

\* Every variable keeps its type, whatever the clock does (main.py, TimeTracker).
THEOREM TypeCorrect == Spec => [](TypeOK /\ PlaceOK)
  <1>1. Init => TypeOK /\ PlaceOK
    BY InitInv DEF IInv
  <1>2. TypeOK /\ PlaceOK /\ [Next]_vars => (TypeOK /\ PlaceOK)'
    BY TypeNext
  <1> QED
    BY <1>1, <1>2, PTL DEF Spec

\* Work that some poll has seen stays in the log or in current.json through every
\* later step, kill and restart, unless an append failed (segments.py:210-211,
\* main.py:211-217).
THEOREM EarnedCorrect == ASSUME ForwardClock PROVE Spec => []EarnedStaysOnDisk
  <1>1. IInv => EarnedStaysOnDisk
    BY DEF IInv, DiskInv
  <1> QED
    BY <1>1, Invariance, PTL

\* Two entries of a session overlap only when the later one recovers a segment
\* that was already billed, from the same start and to no later an end, but for the
\* last second of a day (main.py:134-139).
THEOREM OverlapCorrect ==
    ASSUME ForwardClock
    PROVE  Spec => []OverlapOnlyByRecovery
  <1>1. IInv => OverlapOnlyByRecovery
    <2> SUFFICES ASSUME IInv, NEW i \in 1..Len(log), NEW j \in 1..Len(log), i < j, Overlap(i, j)
                 PROVE  /\ log[j].reason = "recovered"
                        /\ log[i].ws = log[j].ws
                        /\ log[i].start = log[j].start
                        /\ log[j].end < log[i].end + Second
      BY DEF OverlapOnlyByRecovery
    <2>1. /\ i \in 1..Len(AllEntries) /\ j \in 1..Len(AllEntries)
          /\ AllEntries[i] = log[i] /\ AllEntries[j] = log[j]
      BY LogFirst DEF IInv
    <2>2. Apart(log[i], log[j])
      BY <2>1 DEF IInv, DiskInv, PairsOK
    <2>3. log[i] \in Entry /\ log[j] \in Entry
      BY DEF IInv, TypeOK
    <2> QED
      BY <2>2, <2>3, TimesAreIntegers DEF Apart, Overlap
  <1> QED
    BY <1>1, Invariance, PTL

-----------------------------------------------------------------------------

\* Without a fault, current.json is there only while a daemon is, and between two
\* polls it holds the segment that is open in memory.
MirrorFollows ==
    faults = 0 =>
        /\ pc \notin Recovering
        /\ pc \in {"down", "recover"} => mirror = Nothing
        /\ pc \in {"poll", "finally"} => mirror = current

MirrorInv == TypeOK /\ PlaceOK /\ MirrorFollows

\* MirrorInv is inductive.
LEMMA MirrorNext ==
    ASSUME MirrorInv, [Next]_vars
    PROVE  MirrorInv'
  <1>1. TypeOK' /\ PlaceOK'
    BY TypeNext DEF MirrorInv
  <1>2. MirrorFollows'
    <2> USE DEF environment, memory, disk, history, MirrorInv, MirrorFollows, Recovering
    <2>1. CASE UNCHANGED vars
      BY <2>1 DEF vars
    <2>2. CASE Environment
      BY <2>2 DEF Environment, Tick, ServerStops, ServerStarts, Start, Stop, FocusOn
    <2>3. CASE Fault
      BY <2>3 DEF TypeOK, Fault, Kill, AppendFails, MirrorFails
    <2>4. CASE Daemon
      <3>1. CASE Recover \/ Emitted \/ AppendEntry
        BY <3>1 DEF Recover, Emitted, AppendEntry, Emitting, AfterEmit, PlaceOK, Tracking
      <3>2. CASE \E otherSign \in BOOLEAN : Snapshot(otherSign)
        BY <3>2 DEF Snapshot
      <3>3. CASE UpdateLoop \/ UpdateEnds \/ Mirror \/ LoopEnds
        BY <3>3 DEF UpdateLoop, UpdateEnds, Mirror, LoopEnds
      <3>4. CASE ServerGone \/ Finally
        BY <3>4 DEF ServerGone, Finally
      <3>5. CASE ClearAfterRecovery \/ ClearAfterClose
        BY <3>5 DEF ClearAfterRecovery, ClearAfterClose
      <3> QED
        BY <2>4, <3>1, <3>2, <3>3, <3>4, <3>5 DEF Daemon
    <2> QED
      BY <2>1, <2>2, <2>3, <2>4 DEF Next
  <1> QED
    BY <1>1, <1>2 DEF MirrorInv

\* A daemon that exits by itself leaves no segment behind to be recovered, whatever
\* the clock does (main.py:160-166, 226-229).
THEOREM CleanExitCorrect == Spec => []CleanExitLeavesNothing
  <1>1. Init => MirrorInv
    BY InitInv DEF Init, IInv, MirrorInv, MirrorFollows, Recovering
  <1>2. MirrorInv /\ [Next]_vars => MirrorInv'
    BY MirrorNext
  <1>3. MirrorInv => CleanExitLeavesNothing
    BY DEF MirrorInv, MirrorFollows, CleanExitLeavesNothing
  <1> QED
    BY <1>1, <1>2, <1>3, PTL DEF Spec

-----------------------------------------------------------------------------
(* Report, of any list of entries that take some time.                     *)

\* The natural numbers are the only set of naturals closed under successor.
LEMMA NatSetInduction ==
    ASSUME NEW T, 0 \in T, \A n \in Nat : n \in T => n + 1 \in T
    PROVE  Nat \subseteq T
  <1> DEFINE R == OpToRel(<, Nat)
             B == {n \in Nat : n \notin T}
  <1>1. IsWellFoundedOn(R, Nat)
    BY NatLessThanWellFounded
  <1>2. SUFFICES ASSUME B # {}
                 PROVE  FALSE
    OBVIOUS
  <1>3. PICK x \in B : \A y \in B : ~(<<y, x>> \in R)
    <2> HIDE DEF R
    <2> QED
      BY <1>1, <1>2, WFMin
  <1>4. x - 1 \in Nat /\ x # 0
    OBVIOUS
  <1>5. <<x - 1, x>> \in R
    BY <1>4 DEF OpToRel
  <1>6. x - 1 \notin B
    BY <1>3, <1>5
  <1> QED
    BY <1>4, <1>6

\* The entries at these positions of the list take some time.
Selection(entries, which) ==
    /\ Len(entries) \in Nat
    /\ DOMAIN entries = 1..Len(entries)
    /\ which \subseteq DOMAIN entries
    /\ \A i \in which :
          /\ entries[i].start \in Int /\ entries[i].end \in Int
          /\ entries[i].start < entries[i].end

SpanTicks(entries, i) == Ticks(entries[i].start, entries[i].end)

\* The seconds that some of these entries bill.
TicksAt(entries, which) == UNION {SpanTicks(entries, i) : i \in which}

OverlapAt(entries, i, j) ==
    entries[i].start < entries[j].end /\ entries[j].start < entries[i].end

\* The neighbours that has_overlap() compares, and what its order is.
LEMMA EarlierIsAnOrder ==
    ASSUME NEW entries, NEW which, Selection(entries, which)
    PROVE  /\ \A i \in which : ~Report!Earlier(entries, i, i)
           /\ \A i, j \in which :
                 i # j => Report!Earlier(entries, i, j) \/ Report!Earlier(entries, j, i)
           /\ \A i, j, k \in which :
                 Report!Earlier(entries, i, j) /\ Report!Earlier(entries, j, k)
                    => Report!Earlier(entries, i, k)
  <1>1. \A i \in which : i \in Int /\ entries[i].start \in Int /\ entries[i].end \in Int
    BY DEF Selection
  <1> QED
    BY <1>1 DEF Report!Earlier

\* One of any of these entries is before the others.
LEMMA AnEarliest ==
    ASSUME NEW entries, NEW which, Selection(entries, which), which # {}
    PROVE  \E m \in which : \A x \in which : ~Report!Earlier(entries, x, m)
  <1> DEFINE T == {n \in Nat : \A s \in SUBSET which : s # {} /\ s \subseteq 1..n =>
                        \E m \in s : \A x \in s : ~Report!Earlier(entries, x, m)}
  <1>1. 0 \in T
    <2>1. 1..0 = {}
      OBVIOUS
    <2> QED
      BY <2>1
  <1>2. ASSUME NEW n \in Nat, n \in T
        PROVE  n + 1 \in T
    <2> SUFFICES ASSUME NEW s \in SUBSET which, s # {}, s \subseteq 1..(n + 1)
                 PROVE  \E m \in s : \A x \in s : ~Report!Earlier(entries, x, m)
      OBVIOUS
    <2> DEFINE r == s \ {n + 1}
    <2>1. r \in SUBSET which /\ r \subseteq 1..n
      OBVIOUS
    <2>2. CASE r = {}
      <3>1. s = {n + 1}
        BY <2>2
      <3> QED
        BY <3>1, EarlierIsAnOrder
    <2>3. CASE r # {}
      <3>1. PICK m \in r : \A x \in r : ~Report!Earlier(entries, x, m)
        BY <1>2, <2>1, <2>3
      <3>2. CASE n + 1 \notin s \/ ~Report!Earlier(entries, n + 1, m)
        BY <3>1, <3>2
      <3>3. CASE n + 1 \in s /\ Report!Earlier(entries, n + 1, m)
        <4>1. ASSUME NEW x \in s, Report!Earlier(entries, x, n + 1)
              PROVE  FALSE
          <5>1. Report!Earlier(entries, x, m) /\ x # n + 1
            BY <3>3, <4>1, EarlierIsAnOrder
          <5> QED
            BY <3>1, <5>1
        <4> QED
          BY <3>3, <4>1
      <3> QED
        BY <3>2, <3>3
    <2> QED
      BY <2>2, <2>3
  <1>3. Nat \subseteq T
    <2> HIDE DEF T
    <2> QED
      BY <1>1, <1>2, NatSetInduction
  <1>4. which \subseteq 1..Len(entries) /\ Len(entries) \in Nat
    BY DEF Selection
  <1> QED
    BY <1>3, <1>4

\* Of each list of entries that take some time: neighbours overlap if and only if
\* any two entries do, so has_overlap() (report.py:66-83) misses no overlap, also of
\* an entry that contains several, and reports none between entries that only touch.
THEOREM NeighboursSuffice ==
    ASSUME NEW entries, NEW which, Selection(entries, which)
    PROVE  Report!HasOverlap(entries, which) <=>
              \E i, j \in which : i # j /\ OverlapAt(entries, i, j)
  <1>0. \A i \in which :
           entries[i].start \in Int /\ entries[i].end \in Int
           /\ entries[i].start < entries[i].end
    BY DEF Selection
  <1>1. ASSUME Report!HasOverlap(entries, which)
        PROVE  \E i, j \in which : i # j /\ OverlapAt(entries, i, j)
    <2>1. PICK i \in which, j \in which :
             Report!Earlier(entries, i, j) /\ entries[j].start < entries[i].end
      BY <1>1 DEF Report!HasOverlap, Report!Neighbours
    <2>2. entries[i].start <= entries[j].start
      BY <1>0, <2>1 DEF Report!Earlier
    <2>3. OverlapAt(entries, i, j)
      BY <1>0, <2>1, <2>2 DEF OverlapAt
    <2>4. i # j
      BY <2>1, EarlierIsAnOrder
    <2> QED
      BY <2>3, <2>4
  <1>2. ASSUME NEW i \in which, NEW j \in which, i # j, OverlapAt(entries, i, j),
               Report!Earlier(entries, i, j)
        PROVE  Report!HasOverlap(entries, which)
    <2> DEFINE later == {k \in which : Report!Earlier(entries, i, k)}
    <2>1. later # {} /\ Selection(entries, later)
      BY <1>2 DEF Selection
    <2>2. PICK k \in later : \A x \in later : ~Report!Earlier(entries, x, k)
      <3> HIDE DEF later
      <3> QED
        BY <2>1, AnEarliest
    <2>3. Report!Neighbours(entries, which, i, k)
      BY <2>2 DEF Report!Neighbours
    <2>4. k = j \/ Report!Earlier(entries, k, j)
      BY <1>2, <2>2, EarlierIsAnOrder
    <2>5. entries[k].start <= entries[j].start
      BY <1>0, <2>4 DEF Report!Earlier
    <2>6. entries[k].start < entries[i].end
      BY <1>0, <1>2, <2>5 DEF OverlapAt
    <2> QED
      BY <2>3, <2>6 DEF Report!HasOverlap
  <1>3. \A i, j \in which : OverlapAt(entries, i, j) => OverlapAt(entries, j, i)
    BY DEF OverlapAt
  <1> QED
    BY <1>1, <1>2, <1>3, EarlierIsAnOrder

\* The loop that adds up, as far as position N.
IsTotal(f, N, entries, which) ==
    f = [n \in 0..N |->
            IF n = 0 THEN 0
            ELSE f[n - 1] + (IF n \in which THEN Report!Seconds(entries[n]) ELSE 0)]

\* There is such a sum.
LEMMA TotalExists ==
    ASSUME NEW N \in Nat, NEW entries, NEW which
    PROVE  \E f : IsTotal(f, N, entries, which)
  <1> DEFINE add(n) == IF n \in which THEN Report!Seconds(entries[n]) ELSE 0
             T == {k \in Nat : \E f : IsTotal(f, k, entries, which)}
  <1>1. 0 \in T
    <2>1. [n \in 0..0 |-> 0]
          = [n \in 0..0 |-> IF n = 0 THEN 0 ELSE [m \in 0..0 |-> 0][n - 1] + add(n)]
      OBVIOUS
    <2>2. IsTotal([n \in 0..0 |-> 0], 0, entries, which)
      BY <2>1 DEF IsTotal
    <2> QED
      BY <2>2
  <1>2. ASSUME NEW k \in Nat, k \in T
        PROVE  k + 1 \in T
    <2>1. PICK f : IsTotal(f, k, entries, which)
      BY <1>2
    <2> HIDE DEF add
    <2>2. \A n \in 0..k : f[n] = IF n = 0 THEN 0 ELSE f[n - 1] + add(n)
      BY <2>1 DEF IsTotal, add
    <2> DEFINE g == [n \in 0..(k + 1) |-> IF n = k + 1 THEN f[k] + add(n) ELSE f[n]]
    <2>3. \A n \in 0..k : g[n] = f[n] /\ n # k + 1
      OBVIOUS
    <2>4. ASSUME NEW n \in 0..(k + 1)
          PROVE  g[n] = IF n = 0 THEN 0 ELSE g[n - 1] + add(n)
      <3>1. CASE n = k + 1
        <4>1. n # 0 /\ n - 1 = k /\ k \in 0..k
          BY <3>1
        <4>2. g[n] = f[k] + add(n) /\ g[n - 1] = f[k]
          BY <2>3, <3>1, <4>1
        <4> QED
          BY <4>1, <4>2
      <3>2. CASE n # k + 1 /\ n # 0
        <4>1. n \in 0..k /\ n - 1 \in 0..k
          BY <3>2
        <4> QED
          BY <2>2, <2>3, <3>2, <4>1
      <3>3. CASE n = 0
        BY <2>2, <2>3, <3>3
      <3> QED
        BY <3>1, <3>2, <3>3
    <2>5. g = [n \in 0..(k + 1) |-> IF n = 0 THEN 0 ELSE g[n - 1] + add(n)]
      <3>1. g = [n \in 0..(k + 1) |-> g[n]]
        OBVIOUS
      <3> HIDE DEF g
      <3> QED
        BY <2>4, <3>1
    <2> HIDE DEF g
    <2>6. IsTotal(g, k + 1, entries, which)
      BY <2>5 DEF IsTotal, add
    <2> QED
      BY <2>6
  <1>3. Nat \subseteq T
    <2> HIDE DEF T
    <2> QED
      BY <1>1, <1>2, NatSetInduction
  <1> QED
    BY <1>3

\* The sum grows by the seconds of one entry after the other.
LEMMA TotalSteps ==
    ASSUME NEW entries, NEW which, Len(entries) \in Nat
    PROVE  \E sum : /\ sum[0] = 0
                    /\ \A n \in 1..Len(entries) :
                          sum[n] = sum[n - 1]
                             + (IF n \in which THEN Report!Seconds(entries[n]) ELSE 0)
                    /\ Report!Total(entries, which) = sum[Len(entries)]
  <1> DEFINE f == CHOOSE f : IsTotal(f, Len(entries), entries, which)
  <1>1. IsTotal(f, Len(entries), entries, which)
    BY TotalExists
  <1>2. Report!Total(entries, which) = f[Len(entries)]
    BY DEF Report!Total, IsTotal
  <1> HIDE DEF f
  <1>3. \A n \in 0..Len(entries) :
           f[n] = IF n = 0 THEN 0
                  ELSE f[n - 1] + (IF n \in which THEN Report!Seconds(entries[n]) ELSE 0)
    BY <1>1 DEF IsTotal
  <1>4. f[0] = 0 /\ \A n \in 1..Len(entries) : n \in 0..Len(entries) /\ n # 0
    BY <1>3
  <1> QED
    BY <1>2, <1>3, <1>4

\* One entry bills as many seconds as its length says.
LEMMA TicksOfOne ==
    ASSUME NEW entries, NEW which, Selection(entries, which), NEW i \in which
    PROVE  /\ IsFiniteSet(SpanTicks(entries, i))
           /\ Cardinality(SpanTicks(entries, i)) = Report!Seconds(entries[i])
           /\ Report!Seconds(entries[i]) \in Nat
  <1> DEFINE a == entries[i].start
             b == entries[i].end
  <1>1. a \in Int /\ b \in Int /\ a < b
    BY DEF Selection
  <1> HIDE DEF a, b
  <1>2. b - 1 \in Int /\ ~(a > b - 1) /\ (b - 1) - a + 1 = b - a /\ b - a \in Nat
    BY <1>1
  <1>3. IsFiniteSet(a..(b - 1)) /\ Cardinality(a..(b - 1)) = (b - 1) - a + 1
    BY <1>1, <1>2, FS_Interval
  <1> QED
    BY <1>2, <1>3 DEF SpanTicks, Ticks, Report!Seconds, a, b

Disjoint(entries, which) == \A i, j \in which : i # j => ~OverlapAt(entries, i, j)

\* Two entries that take some time overlap if they bill a second in common.
LEMMA OverlapIsCommon ==
    ASSUME NEW entries, NEW which, Selection(entries, which),
           NEW i \in which, NEW j \in which
    PROVE  OverlapAt(entries, i, j) <=> SpanTicks(entries, i) \cap SpanTicks(entries, j) # {}
  <1>1. /\ entries[i].start \in Int /\ entries[i].end \in Int
        /\ entries[j].start \in Int /\ entries[j].end \in Int
        /\ entries[i].start < entries[i].end /\ entries[j].start < entries[j].end
    BY DEF Selection
  <1> DEFINE t == IF entries[i].start < entries[j].start
                  THEN entries[j].start ELSE entries[i].start
  <1>2. ASSUME OverlapAt(entries, i, j)
        PROVE  t \in SpanTicks(entries, i) /\ t \in SpanTicks(entries, j)
    BY <1>1, <1>2 DEF OverlapAt, SpanTicks, Ticks
  <1>3. ASSUME NEW u \in SpanTicks(entries, i), u \in SpanTicks(entries, j)
        PROVE  OverlapAt(entries, i, j)
    BY <1>1, <1>3 DEF OverlapAt, SpanTicks, Ticks
  <1> QED
    BY <1>2, <1>3

\* A sum counts each second that is billed, and some of them twice if and only if two
\* of the entries overlap.
LEMMA TotalCounts ==
    ASSUME NEW entries, NEW which, Selection(entries, which)
    PROVE  /\ IsFiniteSet(TicksAt(entries, which))
           /\ Cardinality(TicksAt(entries, which)) \in Nat
           /\ Report!Total(entries, which) \in Nat
           /\ Cardinality(TicksAt(entries, which)) <= Report!Total(entries, which)
           /\ Cardinality(TicksAt(entries, which)) = Report!Total(entries, which)
                 <=> Disjoint(entries, which)
  <1>1. Len(entries) \in Nat /\ which \subseteq 1..Len(entries)
    BY DEF Selection
  <1>2. PICK sum : /\ sum[0] = 0
                   /\ \A n \in 1..Len(entries) :
                         sum[n] = sum[n - 1]
                            + (IF n \in which THEN Report!Seconds(entries[n]) ELSE 0)
                   /\ Report!Total(entries, which) = sum[Len(entries)]
    BY <1>1, TotalSteps
  <1> DEFINE upTo(n) == which \cap 1..n
             Good(n) == /\ IsFiniteSet(TicksAt(entries, upTo(n)))
                        /\ Cardinality(TicksAt(entries, upTo(n))) \in Nat
                        /\ sum[n] \in Nat
                        /\ Cardinality(TicksAt(entries, upTo(n))) <= sum[n]
                        /\ Cardinality(TicksAt(entries, upTo(n))) = sum[n]
                              <=> Disjoint(entries, upTo(n))
             T == {n \in Nat : n <= Len(entries) => Good(n)}
  <1>3. 0 \in T
    <2>1. upTo(0) = {}
      OBVIOUS
    <2> HIDE DEF upTo
    <2>2. TicksAt(entries, upTo(0)) = {}
      BY <2>1 DEF TicksAt
    <2>3. Disjoint(entries, upTo(0))
      BY <2>1 DEF Disjoint
    <2>4. /\ IsFiniteSet(TicksAt(entries, upTo(0)))
          /\ Cardinality(TicksAt(entries, upTo(0))) = 0 /\ sum[0] = 0
      BY <1>2, <2>2, FS_EmptySet
    <2>5. Good(0)
      BY <2>3, <2>4
    <2> QED
      BY <2>5
  <1>4. ASSUME NEW n \in Nat, n \in T
        PROVE  n + 1 \in T
    <2> SUFFICES ASSUME n + 1 <= Len(entries)
                 PROVE  Good(n + 1)
      OBVIOUS
    <2>1. Good(n) /\ n + 1 \in 1..Len(entries) /\ (n + 1) - 1 = n
      BY <1>1, <1>4
    <2>2. CASE n + 1 \notin which
      <3>1. upTo(n + 1) = upTo(n)
        BY <2>2
      <3>2. sum[n + 1] = sum[n] + 0
        BY <1>2, <2>1, <2>2
      <3>3. sum[n + 1] = sum[n]
        BY <2>1, <3>2
      <3> HIDE DEF upTo
      <3> QED
        BY <2>1, <3>1, <3>3
    <2>3. CASE n + 1 \in which
      <3> DEFINE U == TicksAt(entries, upTo(n))
                 V == SpanTicks(entries, n + 1)
      <3>1. upTo(n + 1) = upTo(n) \cup {n + 1} /\ n + 1 \notin upTo(n)
            /\ upTo(n) \subseteq which
        BY <2>3
      <3> HIDE DEF upTo
      <3>2. sum[n + 1] = sum[n] + Report!Seconds(entries[n + 1])
        BY <1>2, <2>1, <2>3
      <3>3. TicksAt(entries, upTo(n + 1)) = U \cup V
        BY <3>1 DEF TicksAt
      <3>4. /\ IsFiniteSet(V) /\ Cardinality(V) = Report!Seconds(entries[n + 1])
            /\ Report!Seconds(entries[n + 1]) \in Nat
        BY <2>3, TicksOfOne
      <3>5. Disjoint(entries, upTo(n + 1)) <=> Disjoint(entries, upTo(n)) /\ U \cap V = {}
        <4>1. \A i \in upTo(n) :
                 OverlapAt(entries, i, n + 1)
                    <=> SpanTicks(entries, i) \cap SpanTicks(entries, n + 1) # {}
          BY <2>3, <3>1, OverlapIsCommon
        <4>2. \A i \in upTo(n) : OverlapAt(entries, i, n + 1) <=> OverlapAt(entries, n + 1, i)
          BY DEF OverlapAt
        <4>3. (\A i \in upTo(n) : ~OverlapAt(entries, i, n + 1)) <=> U \cap V = {}
          BY <4>1 DEF TicksAt
        <4> HIDE DEF U, V
        <4> QED
          BY <3>1, <4>2, <4>3 DEF Disjoint
      <3>6. /\ IsFiniteSet(U) /\ Cardinality(U) \in Nat /\ sum[n] \in Nat
            /\ Cardinality(U) <= sum[n]
            /\ Cardinality(U) = sum[n] <=> Disjoint(entries, upTo(n))
        BY <2>1
      <3> HIDE DEF U, V
      <3>7. /\ IsFiniteSet(U \cup V) /\ IsFiniteSet(U \cap V)
            /\ Cardinality(U \cup V) = Cardinality(U) + Cardinality(V) - Cardinality(U \cap V)
        BY <3>4, <3>6, FS_Union, FS_Intersection
      <3>8. Cardinality(U \cap V) \in Nat /\ (Cardinality(U \cap V) = 0 <=> U \cap V = {})
        BY <3>7, FS_CardinalityType, FS_EmptySet
      <3>9. Cardinality(U \cup V) \in Nat
        BY <3>7, FS_CardinalityType
      <3>10. \A u, v, w, s, t \in Nat : u <= s /\ t = u + v - w =>
                t <= s + v /\ (t = s + v <=> u = s /\ w = 0)
        OBVIOUS
      <3>11. /\ Cardinality(U \cup V) <= sum[n] + Cardinality(V)
             /\ Cardinality(U \cup V) = sum[n] + Cardinality(V)
                   <=> Cardinality(U) = sum[n] /\ Cardinality(U \cap V) = 0
        BY <3>4, <3>6, <3>7, <3>8, <3>9, <3>10
      <3>12. sum[n + 1] = sum[n] + Cardinality(V) /\ sum[n + 1] \in Nat
        BY <3>2, <3>4, <3>6
      <3> QED
        BY <3>3, <3>5, <3>6, <3>7, <3>8, <3>9, <3>11, <3>12
    <2> QED
      BY <2>2, <2>3
  <1>5. Nat \subseteq T
    <2> HIDE DEF T
    <2> QED
      BY <1>3, <1>4, NatSetInduction
  <1>6. upTo(Len(entries)) = which
    BY <1>1
  <1>7. Good(Len(entries))
    BY <1>1, <1>5
  <1> HIDE DEF upTo
  <1> QED
    BY <1>2, <1>6, <1>7

-----------------------------------------------------------------------------
(* The report on the log.                                                  *)

\* What is in the log takes some time, of one day, in a Space.
LEMMA LogEntries ==
    ASSUME IInv
    PROVE  /\ Len(log) \in Nat /\ DOMAIN log = 1..Len(log)
           /\ \A i \in DOMAIN log :
                 /\ log[i].ws \in Workspaces
                 /\ log[i].start \in Int /\ log[i].end \in Int /\ now \in Int
                 /\ log[i].start \in Times /\ log[i].start < log[i].end
                 /\ log[i].end <= now /\ log[i].end < NextDay(log[i].start)
           /\ \A which \in SUBSET DOMAIN log : Selection(log, which)
  <1>1. log \in Seq(Entry) /\ Len(log) \in Nat /\ DOMAIN log = 1..Len(log)
    BY LenProperties DEF IInv, TypeOK
  <1>2. ASSUME NEW i \in DOMAIN log
        PROVE  /\ log[i].ws \in Workspaces
               /\ log[i].start \in Int /\ log[i].end \in Int /\ now \in Int
               /\ log[i].start \in Times /\ log[i].start < log[i].end
               /\ log[i].end <= now /\ log[i].end < NextDay(log[i].start)
    <2>1. i \in 1..Len(AllEntries) /\ AllEntries[i] = log[i]
      BY <1>1, LogFirst DEF IInv
    <2>2. EntrySound(log[i])
      BY <2>1 DEF IInv, DiskInv, EntriesOK
    <2>3. log[i] \in Entry
      BY <1>1, ElementOfSeq
    <2>4. log[i].ws \in Workspaces
      BY <2>3 DEF Entry, Tracker!Entry
    <2> QED
      BY <2>2, <2>3, <2>4, TimesAreIntegers DEF EntrySound, IInv, TypeOK
  <1> QED
    BY <1>1, <1>2 DEF Selection

\* Every second that an entry bills is one of the day it starts in.
LEMMA TicksOfTheDay ==
    ASSUME IInv, NEW i \in DOMAIN log, NEW t \in SpanTicks(log, i)
    PROVE  t \in Times /\ DayStart(t) = DayStart(log[i].start)
  <1>1. /\ log[i].start \in Int /\ log[i].end \in Int /\ now \in Int
        /\ log[i].start \in Times /\ log[i].end <= now
        /\ log[i].end < NextDay(log[i].start)
    BY LogEntries
  <1>2. t \in Int /\ log[i].start <= t /\ t < log[i].end
    BY <1>1 DEF SpanTicks, Ticks
  <1>3. now \in 0..MaxClock /\ MaxClock \in Nat /\ log[i].start \in 0..MaxClock
    BY <1>1, TrackerAssumption
    DEF IInv, TypeOK, Times, Tracker!Times, Tracker!ParameterAssumption
  <1>4. t \in Times
    BY <1>1, <1>2, <1>3 DEF Times, Tracker!Times
  <1>5. /\ DayStart(log[i].start) \in Int /\ DayStart(log[i].start) <= log[i].start
        /\ NextDay(log[i].start) \in Int
        /\ DayStart(t) = DayStart(log[i].start)
              <=> DayStart(log[i].start) <= t /\ t < NextDay(log[i].start)
    BY <1>1, <1>4, TrackerAssumption DEF Tracker!CalendarAssumption, Times
  <1> QED
    BY <1>1, <1>2, <1>4, <1>5

\* The entries of the report that have this key.
KeyEntries(key, by, since, until) ==
    {i \in Report!FilterEntries(log, since, until) : Report!Key(log[i], by) = key}

\* The entries with a key are those that bill the seconds of that key.
LEMMA SecondsAreBilled ==
    ASSUME IInv, NEW by \in {"workspace", "day"}, NEW key, NEW since, NEW until
    PROVE  SecondsOf(key, by, since, until) = TicksAt(log, KeyEntries(key, by, since, until))
  <1>1. \A i \in DOMAIN log : \A t \in SpanTicks(log, i) : DayStart(t) = DayStart(log[i].start)
    BY TicksOfTheDay
  <1>2. "workspace" # "day"
    OBVIOUS
  <1>3. ASSUME NEW t \in SecondsOf(key, by, since, until)
        PROVE  t \in TicksAt(log, KeyEntries(key, by, since, until))
    <2>1. PICK i \in DOMAIN log :
             /\ by = "day" \/ log[i].ws = key
             /\ t \in SpanTicks(log, i)
             /\ since <= DayStart(t) /\ DayStart(t) <= until
             /\ by = "day" => DayStart(t) = key
      BY <1>3 DEF SecondsOf, SpanTicks
    <2>2. i \in KeyEntries(key, by, since, until)
      BY <1>1, <1>2, <2>1
      DEF KeyEntries, Report!FilterEntries, Report!EntryDay, Report!Key
    <2> QED
      BY <2>1, <2>2 DEF TicksAt
  <1>4. ASSUME NEW t \in TicksAt(log, KeyEntries(key, by, since, until))
        PROVE  t \in SecondsOf(key, by, since, until)
    <2>1. PICK i \in KeyEntries(key, by, since, until) : t \in SpanTicks(log, i)
      BY <1>4 DEF TicksAt
    <2>2. /\ i \in DOMAIN log /\ since <= DayStart(log[i].start)
          /\ DayStart(log[i].start) <= until
          /\ by = "day" => DayStart(log[i].start) = key
          /\ by # "day" => log[i].ws = key
      BY <2>1 DEF KeyEntries, Report!FilterEntries, Report!EntryDay, Report!Key
    <2>3. DayStart(t) = DayStart(log[i].start)
      BY <1>1, <2>1, <2>2
    <2> QED
      BY <2>1, <2>2, <2>3 DEF SecondsOf, SpanTicks
  <1> QED
    BY <1>3, <1>4

\* A report says this of the keys it lists and of the seconds in the log that are theirs.
Truly(report, keys, seconds) ==
    /\ report.overlapping
          <=> report.total_seconds > Cardinality(UNION {seconds[k] : k \in keys})
    /\ DOMAIN report.totals = {k \in keys : seconds[k] # {}}
    /\ report.overlapping \/ \A k \in DOMAIN report.totals :
          report.totals[k] = Cardinality(seconds[k])

\* One report adds up what is in the log.
LEMMA SummaryIsTrue ==
    ASSUME IInv, NEW by \in {"workspace", "day"}, NEW since, NEW until,
           NEW keys, NEW seconds, NEW report,
           /\ keys = IF by = "day" THEN Days ELSE Workspaces
           /\ \A k \in keys : seconds[k] = SecondsOf(k, by, since, until)
           /\ report = Report!Summarise(log, by, since, until)
    PROVE  Truly(report, keys, seconds)
  <1> DEFINE selected == Report!FilterEntries(log, since, until)
             of(k) == KeyEntries(k, by, since, until)
  <1>1. /\ report.overlapping = Report!HasOverlap(log, selected)
        /\ report.total_seconds = Report!Total(log, selected)
        /\ DOMAIN report.totals = {Report!Key(log[i], by) : i \in selected}
        /\ \A k \in DOMAIN report.totals : report.totals[k] = Report!Total(log, of(k))
    BY DEF Report!Summarise, KeyEntries
  <1>2. selected \subseteq DOMAIN log /\ \A k : of(k) \subseteq selected
    BY DEF Report!FilterEntries, KeyEntries
  <1>3. \A k \in keys : seconds[k] = TicksAt(log, of(k))
    BY SecondsAreBilled
  <1>4. \A i \in selected : Report!Key(log[i], by) \in keys /\ i \in of(Report!Key(log[i], by))
    <2>1. \A i \in selected : log[i].ws \in Workspaces /\ log[i].start \in Times
      BY <1>2, LogEntries
    <2>2. \A i \in selected : DayStart(log[i].start) \in Days
      BY <2>1 DEF Days, Times
    <2> QED
      BY <2>1, <2>2 DEF Report!Key, Report!EntryDay, KeyEntries
  <1>5. Selection(log, selected) /\ \A k : Selection(log, of(k))
    BY <1>2, LogEntries
  <1>6. \A i \in selected : SpanTicks(log, i) # {}
    <2>1. \A i \in selected : /\ log[i].start \in Int /\ log[i].end \in Int
                              /\ log[i].start < log[i].end
      BY <1>5 DEF Selection
    <2>2. \A i \in selected : log[i].start \in SpanTicks(log, i)
      BY <2>1 DEF SpanTicks, Ticks
    <2> QED
      BY <2>2
  <1>7. \A k \in DOMAIN report.totals : k \in keys
    BY <1>1, <1>4
  <1>8. \A k : Report!HasOverlap(log, selected) \/ Disjoint(log, of(k))
    BY <1>2, <1>5, NeighboursSuffice DEF Disjoint
  <1>9. Report!HasOverlap(log, selected) <=> ~Disjoint(log, selected)
    BY <1>5, NeighboursSuffice DEF Disjoint
  <1> HIDE DEF selected, of
  <1>10. UNION {seconds[k] : k \in keys} = TicksAt(log, selected)
    <2>1. ASSUME NEW i \in selected, NEW t \in SpanTicks(log, i)
          PROVE  t \in UNION {seconds[k] : k \in keys}
      <3> DEFINE k == Report!Key(log[i], by)
      <3>1. k \in keys /\ i \in of(k)
        BY <1>4
      <3> HIDE DEF k
      <3>2. t \in TicksAt(log, of(k))
        BY <2>1, <3>1 DEF TicksAt
      <3>3. t \in seconds[k]
        BY <1>3, <3>1, <3>2
      <3> QED
        BY <3>1, <3>3
    <2>2. ASSUME NEW k \in keys, NEW t \in seconds[k]
          PROVE  t \in TicksAt(log, selected)
      BY <1>2, <1>3 DEF TicksAt
    <2> QED
      BY <2>1, <2>2 DEF TicksAt
  <1>11. report.overlapping
            <=> report.total_seconds > Cardinality(UNION {seconds[k] : k \in keys})
    <2>1. /\ Cardinality(TicksAt(log, selected)) \in Nat
          /\ Report!Total(log, selected) \in Nat
          /\ Cardinality(TicksAt(log, selected)) <= Report!Total(log, selected)
          /\ Cardinality(TicksAt(log, selected)) = Report!Total(log, selected)
                <=> Disjoint(log, selected)
      BY <1>5, TotalCounts
    <2>2. \A c, s \in Nat : c <= s => (s > c <=> c # s)
      OBVIOUS
    <2>3. Report!Total(log, selected) > Cardinality(TicksAt(log, selected))
             <=> ~Disjoint(log, selected)
      BY <2>1, <2>2
    <2> QED
      BY <1>1, <1>9, <1>10, <2>3
  <1>12. DOMAIN report.totals = {k \in keys : seconds[k] # {}}
    <2>1. ASSUME NEW k \in DOMAIN report.totals
          PROVE  k \in keys /\ seconds[k] # {}
      <3>1. PICK i \in selected : k = Report!Key(log[i], by)
        BY <1>1
      <3>2. k \in keys /\ i \in of(k) /\ SpanTicks(log, i) # {}
        BY <1>4, <1>6, <3>1
      <3> QED
        BY <1>3, <3>2 DEF TicksAt
    <2>2. ASSUME NEW k \in keys, seconds[k] # {}
          PROVE  k \in DOMAIN report.totals
      <3>1. PICK i \in of(k) : TRUE
        BY <1>3, <2>2 DEF TicksAt
      <3>2. i \in selected /\ Report!Key(log[i], by) = k
        BY <1>2, <3>1 DEF KeyEntries, of
      <3> QED
        BY <1>1, <3>2
    <2> QED
      BY <2>1, <2>2
  <1>13. ASSUME ~report.overlapping, NEW k \in DOMAIN report.totals
         PROVE  report.totals[k] = Cardinality(seconds[k])
    <2>1. Disjoint(log, of(k)) /\ Selection(log, of(k))
      BY <1>1, <1>5, <1>8, <1>13
    <2>2. Report!Total(log, of(k)) = Cardinality(TicksAt(log, of(k)))
      BY <2>1, TotalCounts
    <2> QED
      BY <1>1, <1>3, <1>7, <2>2
  <1> QED
    BY <1>11, <1>12, <1>13 DEF Truly

\* Whatever was killed in between, the report of any range of days counts each second
\* in the log, in its Space and on its day, once; or it counts one twice, and says so
\* (report.py:3-5, 66-71, 94-118).
THEOREM ReportCorrect ==
    ASSUME ForwardClock
    PROVE  Spec => []ReportIsTrue
  <1>1. ASSUME IInv PROVE ReportIsTrue
    <2> SUFFICES ASSUME NEW since \in Days, NEW until \in Days,
                        NEW by \in {"workspace", "day"}
                 PROVE  LET report == Report!Summarise(log, by, since, until)
                            keys == IF by = "day" THEN Days ELSE Workspaces
                            seconds == [k \in keys |-> SecondsOf(k, by, since, until)]
                            all == UNION {seconds[k] : k \in keys}
                        IN  /\ report.overlapping <=> report.total_seconds > Cardinality(all)
                            /\ DOMAIN report.totals = {k \in keys : seconds[k] # {}}
                            /\ report.overlapping \/ \A k \in DOMAIN report.totals :
                                  report.totals[k] = Cardinality(seconds[k])
      BY DEF ReportIsTrue
    <2> DEFINE report == Report!Summarise(log, by, since, until)
               keys == IF by = "day" THEN Days ELSE Workspaces
               seconds == [k \in keys |-> SecondsOf(k, by, since, until)]
    <2>1. /\ keys = IF by = "day" THEN Days ELSE Workspaces
          /\ \A k \in keys : seconds[k] = SecondsOf(k, by, since, until)
          /\ report = Report!Summarise(log, by, since, until)
      OBVIOUS
    <2>2. Truly(report, keys, seconds)
      <3> HIDE DEF report, keys, seconds
      <3> QED
        BY <1>1, <2>1, SummaryIsTrue
    <2> QED
      BY <2>2 DEF Truly
  <1> QED
    BY <1>1, Invariance, PTL
==============================================================================
