------------------------ MODULE SegmentTrackerProofs -------------------------
(***************************************************************************)
(* On a clock that is never set back, the entries of SegmentTracker lie    *)
(* within one local day each, are disjoint and in time order: they form a  *)
(* ledger, for every calendar, timeout and minimum length.                 *)
(***************************************************************************)
EXTENDS Attention, FiniteSetTheorems, TLAPS

ForwardClock == ClockSteps \subseteq Nat

\* What an entry must satisfy to be recorded at time now.
Sound(e) ==
    /\ e.start \in Times
    /\ e.start < e.end
    /\ e.end - e.start >= MinEntry
    /\ DayStart(e.start) = DayStart(e.end)

EntriesSound == \A i \in 1..Len(entries) : Sound(entries[i])

\* The entries of one daemon never overlap and are in time order.
EntriesDisjoint ==
    \A i, j \in 1..Len(entries) : i < j => entries[i].end <= entries[j].start

\* The open segment starts no earlier than the last entry ended, and its last
\* activity lies between its start and now.
OpenSegmentIsLatest ==
    IsOpen =>
        /\ current.start <= current.last
        /\ current.last <= now
        /\ \A i \in 1..Len(entries) : entries[i].end <= current.start

\* No entry ends in the future: what makes a segment that opens now start
\* after all of them.
EntriesPast == \A i \in 1..Len(entries) : entries[i].end <= now

\* The open segment has not been active on another day than it started on:
\* the midnight loop runs before activity is recorded.
OpenWithinADay ==
    IsOpen =>
        /\ current.start \in Times
        /\ current.last \in Times
        /\ DayStart(current.last) = DayStart(current.start)

IInv ==
    /\ TypeOK
    /\ EntriesSound
    /\ EntriesDisjoint
    /\ EntriesPast
    /\ OpenWithinADay
    /\ OpenSegmentIsLatest

-----------------------------------------------------------------------------

\* Two times between which no midnight lies are on one day, and a time after
\* the day of an earlier one is past that day's end.
LEMMA SameDay ==
    ASSUME NEW t \in Times, NEW u \in Times, t <= u
    PROVE  /\ u < NextDay(t) => DayStart(u) = DayStart(t)
           /\ DayStart(u) # DayStart(t) => NextDay(t) <= u
           /\ NextDay(t) \in Int
           /\ t < NextDay(t)
  BY CalendarAssumption, ParameterAssumption DEF Times

\* The end of a day is on that day.
LEMMA EndOfDayOnDay ==
    ASSUME NEW t \in Times, NextDay(t) <= MaxClock, t < EndOfDay(t)
    PROVE  /\ EndOfDay(t) \in Times
           /\ DayStart(EndOfDay(t)) = DayStart(t)
           /\ EndOfDay(t) < NextDay(t)
  <1>1. NextDay(t) \in Int /\ DayStart(t) \in Int /\ DayStart(t) <= t
    BY CalendarAssumption
  <1>2. EndOfDay(t) \in Times /\ EndOfDay(t) < NextDay(t) /\ DayStart(t) <= EndOfDay(t)
    BY <1>1, ParameterAssumption DEF EndOfDay, Times
  <1> QED
    BY <1>1, <1>2, CalendarAssumption

\* A segment of this tracker closes at a time on the day it started on.
Closable(end) ==
    /\ IsOpen
    /\ end \in Int
    /\ end <= now
    /\ end > current.start => end \in Times /\ DayStart(end) = DayStart(current.start)

\* Closing the open segment keeps the entries sound and disjoint, and leaves
\* them before any time from which the day of the segment is over.
LEMMA ReturnKeepsLedger ==
    ASSUME IInv, NEW end, NEW reason \in Reasons, Closable(end), Return(current, end, reason)
    PROVE  /\ entries' \in Seq(Entry)
           /\ Len(entries') - Len(entries) \in {0, 1}
           /\ \A i \in 1..Len(entries') : Sound(entries'[i])
           /\ \A i, j \in 1..Len(entries') : i < j => entries'[i].end <= entries'[j].start
           /\ \A i \in 1..Len(entries') : entries'[i].end <= now
           /\ \A t \in Int : current.start <= t /\ end <= t =>
                \A i \in 1..Len(entries') : entries'[i].end <= t
  <1> DEFINE e == MakeEntry(current, end, reason)
  <1>1. /\ current \in Segment /\ current.start \in Times
        /\ entries \in Seq(Entry)
        /\ now \in Int /\ current.start \in Int
        /\ \A i \in 1..Len(entries) : entries[i] \in Entry /\ entries[i].end <= current.start
    <2>1. current \in Segment /\ current.start \in Int
      BY DEF IInv, TypeOK, Closable, IsOpen, Segment
    <2>2. current.start \in Times /\ now \in Int /\ entries \in Seq(Entry)
      BY ParameterAssumption DEF IInv, TypeOK, Closable, OpenWithinADay, Times
    <2>3. \A i \in 1..Len(entries) : entries[i] \in Entry
      BY <2>2
    <2>4. \A i \in 1..Len(entries) : entries[i].end <= current.start
      BY DEF IInv, OpenSegmentIsLatest, Closable
    <2> QED
      BY <2>1, <2>2, <2>3, <2>4
  <1>2. CASE ~IsKept(current, end)
    <2>1. entries' = entries
      BY <1>2 DEF Return
    <2>2. \A t \in Int : current.start <= t =>
            \A i \in 1..Len(entries) : entries[i].end <= t
      BY <1>1 DEF Entry
    <2> QED
      BY <1>1, <2>1, <2>2 DEF IInv, EntriesSound, EntriesDisjoint, EntriesPast
  <1>3. CASE IsKept(current, end)
    <2>1. end > current.start /\ ClampedEnd(current, end) = end
      BY <1>1, <1>3 DEF IsKept, ClampedEnd, Closable
    <2>2. e \in Entry /\ e.start = current.start /\ e.end = end
      BY <1>1, <2>1 DEF MakeEntry, Entry, Segment, Closable
    <2>3. Sound(e)
      BY <1>1, <1>3, <2>1, <2>2 DEF Sound, IsKept, Closable
    <2>4. entries' = Append(entries, e)
      BY <1>3 DEF Return
    <2>5. /\ entries' \in Seq(Entry)
          /\ Len(entries') = Len(entries) + 1
          /\ \A i \in 1..Len(entries) : entries'[i] = entries[i]
          /\ entries'[Len(entries) + 1] = e
      BY <1>1, <2>2, <2>4
    <2>6. \A i \in 1..Len(entries') : Sound(entries'[i])
      BY <1>1, <2>3, <2>5 DEF IInv, EntriesSound
    <2>7. \A i, j \in 1..Len(entries') : i < j => entries'[i].end <= entries'[j].start
      BY <1>1, <2>2, <2>5 DEF IInv, EntriesDisjoint
    <2>8. \A i \in 1..Len(entries') : entries'[i].end <= now
      BY <1>1, <2>2, <2>5 DEF IInv, EntriesPast, Closable
    <2>9. \A t \in Int : current.start <= t /\ end <= t =>
            \A i \in 1..Len(entries') : entries'[i].end <= t
      <3> SUFFICES ASSUME NEW t \in Int, current.start <= t, end <= t,
                          NEW i \in 1..Len(entries')
                   PROVE  entries'[i].end <= t
        OBVIOUS
      <3>1. CASE i = Len(entries) + 1
        BY <2>2, <2>5, <3>1
      <3>2. CASE i # Len(entries) + 1
        <4>1. i \in 1..Len(entries)
          BY <1>1, <2>5, <3>2
        <4>2. entries'[i] = entries[i]
          BY <2>5, <4>1
        <4>3. entries[i].end \in Int /\ entries[i].end <= current.start
          BY <1>1, <4>1 DEF Entry
        <4> QED
          BY <1>1, <4>2, <4>3
      <3> QED
        BY <3>1, <3>2
    <2> QED
      BY <1>1, <2>5, <2>6, <2>7, <2>8, <2>9
  <1> QED
    BY <1>2, <1>3
-----------------------------------------------------------------------------

\* The constituents of the invariant that a step leaves alone when it keeps
\* the entries and the open segment and does not set the clock back.
LEMMA EntriesStay ==
    ASSUME IInv, UNCHANGED <<current, entries>>, now' \in Times, now <= now'
    PROVE  /\ EntriesSound' /\ EntriesDisjoint' /\ EntriesPast'
           /\ OpenWithinADay' /\ OpenSegmentIsLatest'
  <1>1. \A i \in 1..Len(entries) : entries[i].end \in Int
    <2>1. \A i \in 1..Len(entries) : entries[i] \in Entry
      BY DEF IInv, TypeOK
    <2> QED
      BY <2>1 DEF Entry
  <1>2. now \in Int /\ now' \in Int
    BY ParameterAssumption DEF IInv, TypeOK, Times
  <1>3. EntriesPast'
    BY <1>1, <1>2 DEF IInv, EntriesPast
  <1>4. IsOpen => current.last \in Int
    BY DEF IInv, TypeOK, IsOpen, Segment
  <1>5. IsOpen => current.last <= now'
    BY <1>2, <1>4 DEF IInv, OpenSegmentIsLatest
  <1>6. OpenSegmentIsLatest'
    BY <1>5 DEF IInv, OpenSegmentIsLatest, IsOpen
  <1> QED
    BY <1>3, <1>6 DEF IInv, EntriesSound, EntriesDisjoint, OpenWithinADay, IsOpen, Sound

\* IInv holds at the start.
LEMMA InitInv == Init => IInv
  BY WorkspaceAssumption
  DEF Init, IInv, TypeOK, Idle, Call, Focus, IsOpen, EntriesSound, EntriesDisjoint,
      EntriesPast, OpenWithinADay, OpenSegmentIsLatest

\* A segment closes, and possibly another one opens no earlier than that.
LEMMA CloseAndReopen ==
    ASSUME IInv, NEW end, NEW reason \in Reasons, Closable(end),
           Return(current, end, reason), UNCHANGED now, call' \in Call,
           \/ current' = NoSegment
           \/ /\ current' \in Segment
              /\ current.start <= current'.start
              /\ end <= current'.start
              /\ current'.start <= current'.last
              /\ current'.last <= now
              /\ current'.start \in Times
              /\ current'.last \in Times
              /\ DayStart(current'.last) = DayStart(current'.start)
    PROVE  IInv'
  <1>1. TypeOK'
    BY ReturnKeepsLedger DEF IInv, TypeOK
  <1>2. EntriesSound' /\ EntriesDisjoint' /\ EntriesPast'
    BY ReturnKeepsLedger DEF EntriesSound, EntriesDisjoint, EntriesPast, Sound
  <1>3. CASE current' = NoSegment
    BY <1>1, <1>2, <1>3 DEF IInv, OpenWithinADay, OpenSegmentIsLatest, IsOpen
  <1>4. CASE current' # NoSegment
    <2>1. current'.start \in Int
      BY <1>4, ParameterAssumption DEF Times
    <2>2. \A i \in 1..Len(entries') : entries'[i].end <= current'.start
      BY <1>4, <2>1, ReturnKeepsLedger
    <2> QED
      BY <1>1, <1>2, <1>4, <2>2 DEF IInv, OpenWithinADay, OpenSegmentIsLatest, IsOpen
  <1> QED
    BY <1>3, <1>4

\* Nothing closes, and the segment that is open afterwards, if any, starts
\* after all the entries.
LEMMA OpenOrTouch ==
    ASSUME IInv, UNCHANGED <<now, entries>>, call' \in Call,
           \/ current' = NoSegment
           \/ /\ current' \in Segment
              /\ \A i \in 1..Len(entries) : entries[i].end <= current'.start
              /\ current'.start <= current'.last
              /\ current'.last <= now
              /\ current'.start \in Times
              /\ current'.last \in Times
              /\ DayStart(current'.last) = DayStart(current'.start)
    PROVE  IInv'
  <1>1. TypeOK'
    BY DEF IInv, TypeOK
  <1>2. EntriesSound' /\ EntriesDisjoint' /\ EntriesPast'
    BY DEF IInv, EntriesSound, EntriesDisjoint, EntriesPast, Sound
  <1>3. OpenWithinADay' /\ OpenSegmentIsLatest'
    BY DEF OpenWithinADay, OpenSegmentIsLatest, IsOpen
  <1> QED
    BY <1>1, <1>2, <1>3 DEF IInv

\* The last activity is a time an open segment can close at.
LEMMA LastIsClosable == IInv /\ IsOpen => Closable(current.last)
  BY ParameterAssumption
  DEF IInv, Closable, OpenWithinADay, OpenSegmentIsLatest, Times

\* So is now, once the midnight loop is over.
LEMMA NowIsClosable == IInv /\ IsOpen /\ ~NeedsRollover => Closable(now)
  BY ParameterAssumption DEF IInv, TypeOK, Closable, NeedsRollover, Times

\* And so is the end of the day of a segment that the midnight loop splits.
LEMMA EndOfDayIsClosable ==
    ASSUME IInv, NeedsRollover
    PROVE  /\ Closable(EndOfDay(current.start))
           /\ NextDay(current.start) \in Times
           /\ NextDay(current.start) <= now
           /\ current.start < NextDay(current.start)
           /\ EndOfDay(current.start) < NextDay(current.start)
           /\ current.last < NextDay(current.start)
  <1> DEFINE s == current.start
  <1>1. /\ s \in Times /\ now \in Times /\ current.last \in Times
        /\ s <= current.last /\ current.last <= now
        /\ DayStart(current.last) = DayStart(s)
        /\ IsOpen /\ DayStart(now) # DayStart(s)
    BY DEF IInv, TypeOK, NeedsRollover, OpenWithinADay, OpenSegmentIsLatest
  <1>2. s \in Int /\ now \in Int /\ current.last \in Int /\ s <= now
    BY <1>1, ParameterAssumption DEF Times
  <1>3. NextDay(s) <= now /\ s < NextDay(s) /\ NextDay(s) \in Int
    BY <1>1, <1>2, SameDay
  <1>4. NextDay(s) \in Times /\ NextDay(s) <= MaxClock
    BY <1>1, <1>2, <1>3, ParameterAssumption DEF Times
  <1>5. current.last < NextDay(s)
    BY <1>1, CalendarAssumption
  <1>6. EndOfDay(s) < NextDay(s) /\ EndOfDay(s) \in Int
    BY <1>3, ParameterAssumption DEF EndOfDay
  <1>7. Closable(EndOfDay(s))
    BY <1>1, <1>2, <1>3, <1>4, <1>6, EndOfDayOnDay DEF Closable
  <1> QED
    BY <1>3, <1>4, <1>5, <1>6, <1>7

\* Every action preserves the invariant when the clock only moves forward.
LEMMA NextInv ==
    ASSUME ForwardClock, IInv, [Next]_vars
    PROVE  IInv'
  <1>0. /\ now \in Int /\ now \in Times /\ entries \in Seq(Entry) /\ call \in Call
        /\ IsOpen => current \in Segment
    BY ParameterAssumption DEF IInv, TypeOK, Times, IsOpen
  <1>1. CASE Tick
    <2>1. now' \in Times /\ now <= now'
      BY <1>0, <1>1 DEF Tick, ForwardClock
    <2> QED
      BY <1>1, <2>1, EntriesStay DEF IInv, Tick, TypeOK
  <1>2. ASSUME NEW ws \in Focus, NEW active \in BOOLEAN, BeginUpdate(ws, active)
        PROVE  IInv'
    <2>1. CASE IdleClose
      <3>1. Closable(current.last)
        BY <2>1, LastIsClosable DEF IdleClose
      <3>2. "idle" \in Reasons /\ Return(current, current.last, "idle")
        BY <2>1 DEF IdleClose, Reasons
      <3>3. Len(entries') - Len(entries) \in Nat
        BY <3>1, <3>2, ReturnKeepsLedger
      <3>4. call' \in Call
        BY <1>2, <3>3 DEF BeginUpdate, Call
      <3> QED
        BY <1>2, <2>1, <3>1, <3>2, <3>4, CloseAndReopen DEF BeginUpdate, IdleClose
    <2>2. CASE UNCHANGED <<current, entries>>
      <3>1. call' \in Call
        BY <1>0, <1>2, <2>2 DEF BeginUpdate, Call
      <3>2. UNCHANGED now
        BY <1>2 DEF BeginUpdate
      <3> QED
        BY <1>0, <2>2, <3>1, <3>2, EntriesStay DEF IInv, TypeOK
    <2> QED
      BY <1>2, <2>1, <2>2 DEF BeginUpdate
  <1>3. CASE Rollover
    <2> DEFINE seg == CarriedOver(current)
    <2>1. Closable(EndOfDay(current.start)) /\ "rollover" \in Reasons
      BY <1>3, EndOfDayIsClosable DEF Rollover, Reasons
    <2>2. Return(current, EndOfDay(current.start), "rollover") /\ current' = seg
      BY <1>3 DEF Rollover
    <2>3. Len(entries') - Len(entries) \in Nat
      BY <2>1, <2>2, ReturnKeepsLedger
    <2>4. call' \in Call
      BY <1>0, <1>3, <2>3 DEF Rollover, Call
    <2>5. /\ current \in Segment /\ current.start \in Int /\ current.last \in Int
          /\ NextDay(current.start) \in Times /\ NextDay(current.start) \in Int
      BY <1>0, <1>3, EndOfDayIsClosable, ParameterAssumption
      DEF Rollover, NeedsRollover, Segment, Times
    <2>6. seg = NewSegment(current.ws, NextDay(current.start))
      BY <1>3, <2>5, EndOfDayIsClosable DEF Rollover, CarriedOver, NewSegment
    <2>7. seg \in Segment
      BY <2>5, <2>6 DEF NewSegment, Segment
    <2>8. seg.start = NextDay(current.start) /\ seg.last = NextDay(current.start)
      BY <2>6 DEF NewSegment
    <2>9. /\ NextDay(current.start) <= now
          /\ current.start <= NextDay(current.start)
          /\ EndOfDay(current.start) <= NextDay(current.start)
      BY <1>0, <1>3, <2>1, <2>5, EndOfDayIsClosable DEF Rollover, Closable
    <2> QED
      BY <1>3, <2>1, <2>2, <2>4, <2>5, <2>7, <2>8, <2>9, CloseAndReopen DEF Rollover
  <1>4. CASE EndUpdate
    <2>1. ~NeedsRollover /\ UNCHANGED now
      BY <1>4 DEF EndUpdate
    <2>2. ASSUME Len(entries') - Len(entries) \in Nat, entries' \in Seq(Entry)
          PROVE  call' \in Call
      <3> DEFINE n == call.returned + Len(entries') - Len(entries)
      <3>1. n \in Nat
        BY <1>0, <2>2 DEF Call
      <3>2. call' = [phase |-> "ready", ws |-> NoWorkspace, active |-> FALSE, returned |-> n]
        BY <1>4 DEF EndUpdate, Idle
      <3> QED
        BY <3>1, <3>2 DEF Call, Focus
    <2>3. now <= now /\ DayStart(now) = DayStart(now)
      BY <1>0
    <2>4. CASE OpenOnActivity
      <3>1. call' \in Call /\ UNCHANGED entries
        BY <1>0, <2>2, <2>4 DEF OpenOnActivity
      <3>2. \/ current' = NoSegment
            \/ current' = NewSegment(call.ws, now) /\ call.ws \in Workspaces
        BY <2>4 DEF OpenOnActivity
      <3>3. \A i \in 1..Len(entries) : entries[i].end <= now
        BY DEF IInv, EntriesPast
      <3> QED
        BY <1>0, <2>1, <2>3, <3>1, <3>2, <3>3, OpenOrTouch DEF NewSegment, Segment
    <2>5. CASE KeepFocus
      <3>1. call' \in Call /\ UNCHANGED entries
        BY <1>0, <2>2, <2>5 DEF KeepFocus
      <3>2. /\ current \in Segment /\ current.start \in Int /\ IsOpen
            /\ current' = Touched(current)
        BY <1>0, <2>5 DEF KeepFocus, Segment
      <3>3. /\ \A i \in 1..Len(entries) : entries[i].end <= current.start
            /\ current.start <= current.last /\ current.last <= now
            /\ current.start \in Times /\ current.last \in Times
            /\ DayStart(current.last) = DayStart(current.start)
            /\ DayStart(now) = DayStart(current.start)
        BY <2>1, <3>2 DEF IInv, OpenSegmentIsLatest, OpenWithinADay, NeedsRollover
      <3>4. CASE current' = current
        BY <2>1, <3>1, <3>2, <3>3, <3>4, OpenOrTouch
      <3>5. CASE current' = [current EXCEPT !.last = now]
        <4>1. /\ current' \in Segment
              /\ current'.start = current.start /\ current'.last = now
          BY <1>0, <3>2, <3>5 DEF Segment
        <4>2. current.start <= now
          BY <1>0, <3>2, <3>3, ParameterAssumption DEF Times
        <4> QED
          BY <1>0, <2>1, <2>3, <3>1, <3>3, <4>1, <4>2, OpenOrTouch
      <3> QED
        BY <3>2, <3>4, <3>5 DEF Touched
    <2>6. CASE CloseUnfocused
      <3>1. Closable(now) /\ "closed" \in Reasons
        BY <2>1, <2>6, NowIsClosable DEF CloseUnfocused, Reasons
      <3>2. Return(current, now, "closed") /\ current' = NoSegment
        BY <2>6 DEF CloseUnfocused
      <3>3. call' \in Call
        BY <2>2, <3>1, <3>2, ReturnKeepsLedger
      <3> QED
        BY <2>1, <3>1, <3>2, <3>3, CloseAndReopen
    <2>7. CASE SwitchFocus
      <3>1. Closable(now) /\ "switch" \in Reasons
        BY <2>1, <2>7, NowIsClosable DEF SwitchFocus, Reasons
      <3>2. /\ Return(current, now, "switch")
            /\ current' = NewSegment(call.ws, now) /\ call.ws \in Workspaces
        BY <2>7 DEF SwitchFocus
      <3>3. call' \in Call
        BY <2>2, <3>1, <3>2, ReturnKeepsLedger
      <3>4. /\ current' \in Segment /\ current'.start = now /\ current'.last = now
        BY <1>0, <3>2 DEF NewSegment, Segment
      <3>5. current.start <= now
        BY <1>0, <3>1, ParameterAssumption
        DEF Closable, IInv, OpenSegmentIsLatest, OpenWithinADay, Times
      <3> QED
        BY <1>0, <2>1, <2>3, <3>1, <3>2, <3>3, <3>4, <3>5, CloseAndReopen
    <2> QED
      BY <1>4, <2>4, <2>5, <2>6, <2>7 DEF EndUpdate
  <1>5. CASE Close("shutdown")
    <2>1. Closable(current.last)
      BY <1>5, LastIsClosable DEF Close
    <2>2. "shutdown" \in Reasons /\ Return(current, current.last, "shutdown")
      BY <1>5 DEF Close, Reasons
    <2>3. call' \in Call
      BY <1>5 DEF Close, Idle, Call, Focus
    <2> QED
      BY <1>5, <2>1, <2>2, <2>3, CloseAndReopen DEF Close
  <1>6. CASE UNCHANGED vars
    BY <1>0, <1>6, EntriesStay DEF IInv, vars, TypeOK
  <1> QED
    BY <1>1, <1>2, <1>3, <1>4, <1>5, <1>6 DEF Next

-----------------------------------------------------------------------------

\* The type invariant and its strengthening hold throughout every run on a
\* clock that is never set back.
THEOREM Invariance == ASSUME ForwardClock PROVE Spec => []IInv
  <1>1. IInv /\ [Next]_vars => IInv'
    BY NextInv
  <1> QED
    BY <1>1, InitInv, PTL DEF Spec

\* Every variable keeps its type (segments.py, SegmentTracker).
THEOREM TypeCorrect == ASSUME ForwardClock PROVE Spec => []TypeOK
  <1>1. IInv => TypeOK
    BY DEF IInv
  <1> QED
    BY <1>1, Invariance, PTL

-----------------------------------------------------------------------------

\* Whatever a step does, it adds at most the entry of the open segment, which
\* closes at a time it may close at.
LEMMA StepReturns ==
    ASSUME IInv, [Next]_vars, entries' # entries
    PROVE  \E end \in Int, reason \in Reasons :
              Closable(end) /\ Return(current, end, reason)
  <1> DEFINE Ends(end, reason) ==
                end \in Int /\ reason \in Reasons /\ Closable(end)
                /\ Return(current, end, reason)
  <1>1. CASE Tick \/ UNCHANGED vars
    BY <1>1 DEF Tick, vars
  <1>2. ASSUME NEW ws \in Focus, NEW active \in BOOLEAN, BeginUpdate(ws, active)
        PROVE  Ends(current.last, "idle")
    BY <1>2, LastIsClosable DEF BeginUpdate, IdleClose, Closable, Reasons
  <1>3. CASE Rollover
    <2>1. Closable(EndOfDay(current.start))
      BY <1>3, EndOfDayIsClosable DEF Rollover
    <2>2. Ends(EndOfDay(current.start), "rollover")
      BY <1>3, <2>1 DEF Rollover, Closable, Reasons
    <2> QED
      BY <2>2
  <1>4. CASE EndUpdate
    <2>1. CASE CloseUnfocused
      <3>1. Ends(now, "closed")
        BY <1>4, <2>1, NowIsClosable DEF EndUpdate, CloseUnfocused, Closable, Reasons
      <3> QED
        BY <3>1
    <2>2. CASE SwitchFocus
      <3>1. Ends(now, "switch")
        BY <1>4, <2>2, NowIsClosable DEF EndUpdate, SwitchFocus, Closable, Reasons
      <3> QED
        BY <3>1
    <2> QED
      BY <1>4, <2>1, <2>2 DEF EndUpdate, OpenOnActivity, KeepFocus
  <1>5. CASE Close("shutdown")
    <2>1. Ends(current.last, "shutdown")
      BY <1>5, LastIsClosable DEF Close, Closable, Reasons
    <2> QED
      BY <2>1
  <1> QED
    BY <1>1, <1>2, <1>3, <1>4, <1>5 DEF Next

\* Such an entry is one the ledger may record.
LEMMA ReturnIsRecord ==
    ASSUME IInv, NEW end \in Int, NEW reason \in Reasons, Closable(end),
           Return(current, end, reason), entries' # entries
    PROVE  TimeLedger!Next
  <1> DEFINE e == MakeEntry(current, end, reason)
  <1>1. entries' = Append(entries, e) /\ IsKept(current, end)
    BY DEF Return
  <1>2. current \in Segment /\ entries \in Seq(Entry) /\ IsOpen
    BY DEF IInv, TypeOK, Closable, IsOpen
  <1>3. e \in Entry
    BY <1>2 DEF MakeEntry, ClampedEnd, Segment, Entry
  <1>4. /\ entries' \in Seq(Entry)
        /\ Len(entries') = Len(entries) + 1
        /\ entries'[Len(entries')] = e
    BY <1>1, <1>2, <1>3
  <1>5. Sound(e)
    BY <1>4, ReturnKeepsLedger
  <1>6. TimeLedger!WellFormed(e)
    BY <1>5 DEF Sound, TimeLedger!WellFormed
  <1>7. TimeLedger!Follows(e)
    BY <1>2 DEF IInv, OpenSegmentIsLatest, MakeEntry, TimeLedger!Follows
  <1>8. e \in TimeLedger!Entry
    BY <1>3 DEF Entry, TimeLedger!Entry
  <1>9. entries' # <<>>
    BY <1>2, <1>4
  <1> QED
    BY <1>1, <1>4, <1>6, <1>7, <1>8, <1>9 DEF TimeLedger!Next, TimeLedger!Record

\* The tracker implements the ledger: on a forward clock, entries are only
\* ever appended, each a legal successor of those before it.
THEOREM ImplementsLedger == ASSUME ForwardClock PROVE Spec => IsLedger
  <1>1. Init => TimeLedger!Init
    BY DEF Init, TimeLedger!Init
  <1>2. IInv /\ [Next]_vars => [TimeLedger!Next]_entries
    BY StepReturns, ReturnIsRecord
  <1> QED
    BY <1>1, <1>2, Invariance, PTL DEF Spec, IsLedger, TimeLedger!Spec

-----------------------------------------------------------------------------

\* Attention's steps are the tracker's with a record of what they did: what
\* holds of every run of the tracker holds of every run of Attention.
LEMMA AttentionStep == [AttentionNext]_attentionVars => [Next]_vars
  BY DEF AttentionNext, attentionVars, AttentionBegin, AttentionRollover,
         AttentionEnd, AttentionClose, Next

\* The tracker that Attention drives keeps the invariant of SegmentTracker.
LEMMA TrackerInvariance == ASSUME ForwardClock PROVE AttentionSpec => []IInv
  <1>1. AttentionInit => Init
    BY DEF AttentionInit
  <1>2. AttentionSpec => Spec
    BY <1>1, AttentionStep, PTL DEF AttentionSpec, Spec
  <1> QED
    BY <1>2, Invariance, PTL

-----------------------------------------------------------------------------

OpenTime == IF IsOpen THEN Between(current.start, current.last) ELSE {}

Accounted == Billed \cup lost \cup OpenTime

SeenTyped ==
    /\ seen \in Times
    /\ seen <= now

\* Outside an update as well as inside one: the parts of update() that close
\* the open segment leave no second of it unaccounted for.
WorkAccounted == worked \subseteq Accounted

\* As long as the next sign of presence would make work of the time since the
\* last one, a segment is open that reaches back to it: an idle close needs
\* the idle timeout, and the midnight loop reopens what it closes.
PresenceIsTracked ==
    place \in Workspaces /\ now - seen < IdleTimeout =>
        /\ IsOpen
        /\ seen <= current.last
        /\ Between(seen, current.last) \subseteq Accounted

WInv ==
    /\ SeenTyped
    /\ WorkAccounted
    /\ PresenceIsTracked

\* What an entry adds to the time billed: all of the segment up to its end,
\* unless that is dropped.
LEMMA ReturnBills ==
    ASSUME IInv, IsOpen, NEW end \in Int, NEW reason \in Reasons,
           Return(current, end, reason)
    PROVE  /\ Billed \subseteq Billed'
           /\ Between(current.start, end) \subseteq Billed' \cup Dropped(end)
           /\ \A i \in 1..Len(entries') :
                 \/ i \in 1..Len(entries) /\ entries'[i] = entries[i]
                 \/ entries'[i].end = end
  <1>1. current \in Segment /\ entries \in Seq(Entry)
    BY DEF IInv, TypeOK, IsOpen
  <1>2. CASE IsKept(current, end)
    <2> DEFINE e == MakeEntry(current, end, reason)
    <2>1. end > current.start /\ ClampedEnd(current, end) = end
      BY <1>1, <1>2 DEF IsKept, ClampedEnd, Segment
    <2>2. e \in Entry /\ e.start = current.start /\ e.end = end
      BY <1>1, <2>1 DEF MakeEntry, Entry, Segment
    <2>3. entries' = Append(entries, e)
      BY <1>2 DEF Return
    <2>4. /\ Len(entries') = Len(entries) + 1
          /\ entries'[Len(entries')] = e
          /\ \A i \in 1..Len(entries) : entries'[i] = entries[i]
          /\ Len(entries) \in Nat
      BY <1>1, <2>2, <2>3
    <2> HIDE DEF e
    <2>5. 1..Len(entries) \subseteq 1..Len(entries') /\ Len(entries') \in 1..Len(entries')
      BY <2>4
    <2>6. Billed \subseteq Billed'
      BY <2>4, <2>5 DEF Billed
    <2>7. Between(current.start, end) \subseteq Billed'
      BY <2>2, <2>4, <2>5 DEF Billed
    <2>8. \A i \in 1..Len(entries') :
             \/ i \in 1..Len(entries) /\ entries'[i] = entries[i]
             \/ entries'[i].end = end
      BY <2>2, <2>4
    <2> QED
      BY <2>6, <2>7, <2>8
  <1>3. CASE ~IsKept(current, end)
    <2>1. entries' = entries
      BY <1>3 DEF Return
    <2> QED
      BY <1>1, <1>3, <2>1 DEF Billed, Dropped
  <1> QED
    BY <1>2, <1>3

\* WInv holds at the start.
LEMMA AttentionInitInv ==
    ASSUME AttentionInit
    PROVE  WInv
  <1>1. SeenTyped
    BY ParameterAssumption DEF AttentionInit, Init, SeenTyped, Times
  <1>2. WorkAccounted
    BY DEF AttentionInit, WorkAccounted
  <1>3. PresenceIsTracked
    BY WorkspaceAssumption DEF AttentionInit, PresenceIsTracked
  <1> QED
    BY <1>1, <1>2, <1>3 DEF WInv

\* Time passes: what is longer ago than the idle timeout stays so.
LEMMA LongAgoStays ==
    \A t, u, v \in Int : t <= u /\ u - v < IdleTimeout => t - v < IdleTimeout
  BY ParameterAssumption

\* Every action keeps the work accounted for, on a clock that only moves
\* forward.
LEMMA AttentionNextInv ==
    ASSUME ForwardClock, IInv, IInv', WInv, [AttentionNext]_attentionVars
    PROVE  WInv'
  <1> USE DEF WInv
  <1>0. /\ now \in Times /\ now \in Int /\ seen \in Int /\ entries \in Seq(Entry)
        /\ IsOpen => /\ current \in Segment /\ current.start <= current.last
                     /\ current.last <= now /\ current.start \in Int /\ current.last \in Int
        /\ "idle" \in Reasons /\ "rollover" \in Reasons /\ "closed" \in Reasons
        /\ "switch" \in Reasons /\ "shutdown" \in Reasons
    BY ParameterAssumption
    DEF IInv, TypeOK, Times, IsOpen, OpenSegmentIsLatest, SeenTyped, Segment, Reasons
  <1>1. CASE Tick /\ UNCHANGED history
    <2>1. now' \in Times /\ now' \in Int /\ now <= now'
      BY <1>0, <1>1, ParameterAssumption DEF Tick, ForwardClock, Times
    <2>2. SeenTyped'
      BY <1>0, <1>1, <2>1 DEF SeenTyped, history
    <2>3. Accounted' = Accounted
      BY <1>1 DEF Tick, history, Accounted, Billed, OpenTime, IsOpen
    <2>4. WorkAccounted'
      BY <1>1, <2>3 DEF history, WorkAccounted
    <2>5. PresenceIsTracked'
      <3>1. now' - seen < IdleTimeout => now - seen < IdleTimeout
        BY <1>0, <2>1, LongAgoStays
      <3> QED
        BY <1>1, <2>3, <3>1 DEF PresenceIsTracked, history, Tick, IsOpen
    <2> QED
      BY <2>2, <2>4, <2>5
  <1>2. ASSUME NEW ws \in Focus, NEW active \in BOOLEAN, AttentionBegin(ws, active)
        PROVE  WInv'
    <2>1. UNCHANGED <<now, seen, place, worked>>
      BY <1>2 DEF AttentionBegin, BeginUpdate
    <2>2. SeenTyped'
      BY <2>1 DEF SeenTyped
    <2>3. CASE IdleClose
      <3>1. /\ IsOpen /\ now - current.last >= IdleTimeout
            /\ Return(current, current.last, "idle")
            /\ current' = NoSegment /\ lost' = lost \cup Dropped(current.last)
        BY <1>2, <2>3 DEF IdleClose, AttentionBegin, IdleFor
      <3>2. Accounted \subseteq Accounted'
        <4>1. /\ Billed \subseteq Billed'
              /\ Between(current.start, current.last) \subseteq Billed' \cup Dropped(current.last)
          BY <1>0, <3>1, ReturnBills
        <4> QED
          BY <3>1, <4>1 DEF Accounted, OpenTime
      <3>3. WorkAccounted'
        BY <2>1, <3>2 DEF WorkAccounted
      <3>4. PresenceIsTracked'
        <4> SUFFICES ASSUME place \in Workspaces, now - seen < IdleTimeout
                     PROVE  FALSE
          BY <2>1 DEF PresenceIsTracked
        <4>1. seen <= current.last
          BY DEF PresenceIsTracked
        <4> QED
          BY <1>0, <3>1, <4>1, ParameterAssumption
      <3> QED
        BY <2>2, <3>3, <3>4
    <2>4. CASE UNCHANGED <<current, entries>>
      <3>1. lost \subseteq lost'
        BY <1>2 DEF AttentionBegin
      <3>2. Accounted \subseteq Accounted'
        BY <2>4, <3>1 DEF Accounted, Billed, OpenTime, IsOpen
      <3> QED
        BY <2>1, <2>2, <2>4, <3>2 DEF WorkAccounted, PresenceIsTracked, IsOpen
    <2> QED
      BY <1>2, <2>3, <2>4 DEF AttentionBegin, BeginUpdate
  <1>3. CASE AttentionRollover
    <2> DEFINE s == current.start
               eod == EndOfDay(s)
               resume == NextDay(s)
    <2>1. /\ IsOpen /\ NeedsRollover /\ Return(current, eod, "rollover")
          /\ current' = CarriedOver(current)
          /\ lost' = lost \cup Between(eod, resume) \cup Dropped(eod)
          /\ UNCHANGED <<now, seen, place, worked>>
      BY <1>3 DEF AttentionRollover, Rollover, NeedsRollover
    <2>2. /\ resume \in Int /\ resume \in Times /\ eod \in Int
          /\ current.last < resume /\ resume <= now
      BY <2>1, EndOfDayIsClosable, ParameterAssumption DEF Closable, Times, EndOfDay
    <2>3. /\ Billed \subseteq Billed'
          /\ Between(s, eod) \subseteq Billed' \cup Dropped(eod)
      BY <1>0, <2>1, <2>2, ReturnBills
    <2>4. /\ current' = [ws |-> current.ws, start |-> resume, last |-> resume]
          /\ current.ws \in Workspaces
      BY <1>0, <2>1, <2>2 DEF CarriedOver, Segment
    <2>5. IsOpen'
      BY <2>4, WorkspaceAssumption DEF IsOpen, NoSegment
    <2> HIDE DEF eod, resume
    <2>6. Between(s, resume) \subseteq Billed' \cup lost'
      BY <1>0, <2>1, <2>2, <2>3 DEF Between
    <2>7. Accounted \subseteq Accounted'
      <3>1. OpenTime \subseteq Between(s, resume)
        BY <1>0, <2>1, <2>2 DEF OpenTime, Between
      <3> QED
        BY <2>1, <2>3, <2>6, <3>1 DEF Accounted
    <2>8. SeenTyped' /\ WorkAccounted'
      BY <2>1, <2>7 DEF SeenTyped, WorkAccounted
    <2>9. PresenceIsTracked'
      <3> SUFFICES ASSUME place \in Workspaces, now - seen < IdleTimeout
                   PROVE  seen <= resume /\ Between(seen, resume) \subseteq Accounted'
        BY <2>1, <2>4, <2>5 DEF PresenceIsTracked
      <3>1. seen <= current.last /\ Between(seen, current.last) \subseteq Accounted
        BY DEF PresenceIsTracked
      <3>2. Between(seen, resume) \subseteq Between(seen, current.last) \cup Between(s, resume)
        BY <1>0, <2>1, <2>2 DEF Between
      <3> QED
        BY <1>0, <2>1, <2>2, <2>6, <2>7, <3>1, <3>2 DEF Accounted
    <2> QED
      BY <2>8, <2>9
  <1>4. CASE AttentionEnd
    <2>1. /\ EndUpdate /\ UNCHANGED now
          /\ OpenOnActivity \/ CloseUnfocused \/ SwitchFocus \/ KeepFocus
          /\ lost' = IF IsOpen /\ call.ws # current.ws
                     THEN lost \cup Dropped(now) ELSE lost
          /\ IF ShowsPresence
             THEN /\ seen' = now
                  /\ place' = call.ws
                  /\ worked' = worked \cup WorkedSinceSeen
             ELSE UNCHANGED <<seen, place, worked>>
          /\ call.ws \in Focus /\ call.active \in BOOLEAN
      BY <1>4 DEF AttentionEnd, EndUpdate, IInv, TypeOK, Call
    <2>2. SeenTyped'
      BY <1>0, <2>1 DEF SeenTyped
    \* Whatever the update does with the open segment, it keeps its time: up to
    \* its last activity, and up to now when there was a sign of presence.
    <2>3. /\ Accounted \subseteq Accounted'
          /\ IsOpen /\ ShowsPresence => Between(current.start, now) \subseteq Accounted'
          /\ ~ShowsPresence => UNCHANGED current
          /\ ShowsPresence /\ call.ws \in Workspaces => IsOpen' /\ current'.last = now
      <3>1. CASE OpenOnActivity
        <4>1. ~IsOpen /\ lost' = lost /\ Billed' = Billed
          BY <2>1, <3>1 DEF OpenOnActivity, Billed
        <4>2. ShowsPresence <=> call.active /\ call.ws \in Workspaces
          BY <4>1 DEF ShowsPresence
        <4>3. CASE call.active /\ call.ws \in Workspaces
          <5>1. current' = [ws |-> call.ws, start |-> now, last |-> now]
            BY <3>1, <4>3 DEF OpenOnActivity, NewSegment
          <5>2. IsOpen'
            BY <4>3, <5>1, WorkspaceAssumption DEF IsOpen, NoSegment
          <5> QED
            BY <4>1, <4>2, <4>3, <5>1, <5>2 DEF Accounted, OpenTime
        <4>4. CASE ~(call.active /\ call.ws \in Workspaces)
          BY <3>1, <4>1, <4>2, <4>4 DEF OpenOnActivity, Accounted, OpenTime, IsOpen
        <4> QED
          BY <4>3, <4>4
      <3>2. CASE CloseUnfocused \/ SwitchFocus
        <4>1. /\ IsOpen
              /\ \E reason \in Reasons : Return(current, now, reason)
              /\ call.ws # current.ws
          BY <1>0, <3>2, WorkspaceAssumption DEF CloseUnfocused, SwitchFocus, Segment
        <4>2. Billed \subseteq Billed' /\ Between(current.start, now) \subseteq Billed' \cup Dropped(now)
          BY <1>0, <4>1, ReturnBills
        <4>3. ShowsPresence /\ lost' = lost \cup Dropped(now)
          BY <2>1, <4>1 DEF ShowsPresence
        <4>4. Between(current.start, now) \subseteq Accounted'
          BY <4>2, <4>3 DEF Accounted
        <4>5. OpenTime \subseteq Between(current.start, now)
          BY <1>0, <4>1 DEF OpenTime, Between
        <4>6. Accounted \subseteq Accounted'
          BY <4>2, <4>3, <4>4, <4>5 DEF Accounted
        <4>7. ASSUME call.ws \in Workspaces
              PROVE  IsOpen' /\ current'.last = now
          <5>1. current' = [ws |-> call.ws, start |-> now, last |-> now]
            BY <3>2, <4>7, WorkspaceAssumption DEF CloseUnfocused, SwitchFocus, NewSegment
          <5> QED
            BY <4>7, <5>1, WorkspaceAssumption DEF IsOpen, NoSegment
        <4> QED
          BY <4>3, <4>4, <4>6, <4>7
      <3>3. CASE KeepFocus
        <4>1. /\ IsOpen /\ call.ws = current.ws /\ call.ws \in Workspaces
              /\ lost' = lost /\ Billed' = Billed
          BY <1>0, <2>1, <3>3 DEF KeepFocus, Billed, Segment
        <4>2. ShowsPresence <=> call.active
          BY <4>1 DEF ShowsPresence
        <4>3. CASE call.active
          <5>1. current' = [current EXCEPT !.last = now]
            BY <3>3, <4>3 DEF KeepFocus, Touched
          <5>2. current'.ws = current.ws /\ current'.start = current.start /\ current'.last = now
            BY <1>0, <4>1, <5>1 DEF Segment
          <5>3. IsOpen'
            BY <4>1, <5>2, WorkspaceAssumption DEF IsOpen, NoSegment
          <5>4. OpenTime' = Between(current.start, now)
            BY <2>1, <5>2, <5>3 DEF OpenTime, Between
          <5>5. OpenTime \subseteq OpenTime'
            <6>1. OpenTime = Between(current.start, current.last)
              BY <4>1 DEF OpenTime
            <6>2. Between(current.start, current.last) \subseteq Between(current.start, now)
              BY <1>0, <4>1 DEF Between
            <6> QED
              BY <5>4, <6>1, <6>2
          <5> QED
            BY <4>1, <4>2, <4>3, <5>2, <5>3, <5>4, <5>5 DEF Accounted
        <4>4. CASE ~call.active
          <5>1. current' = current
            BY <3>3, <4>4 DEF KeepFocus, Touched
          <5> QED
            BY <4>1, <4>2, <4>4, <5>1 DEF Accounted, OpenTime, IsOpen
        <4> QED
          BY <4>3, <4>4
      <3> QED
        BY <2>1, <3>1, <3>2, <3>3
    <2>4. WorkAccounted'
      <3>1. CASE ~ShowsPresence
        BY <2>1, <2>3, <3>1 DEF WorkAccounted
      <3>2. CASE ShowsPresence
        <4>1. ASSUME place \in Workspaces, now - seen < IdleTimeout
              PROVE  Between(seen, now) \subseteq Accounted'
          <5>1. IsOpen /\ Between(seen, current.last) \subseteq Accounted
            BY <4>1 DEF PresenceIsTracked
          <5>2. Between(seen, now) \subseteq Between(seen, current.last) \cup Between(current.start, now)
            BY <1>0, <5>1 DEF Between
          <5> QED
            BY <2>3, <3>2, <5>1, <5>2
        <4>2. WorkedSinceSeen \subseteq Accounted'
          BY <4>1 DEF WorkedSinceSeen
        <4> QED
          BY <2>1, <2>3, <3>2, <4>2 DEF WorkAccounted
      <3> QED
        BY <3>1, <3>2
    <2>5. PresenceIsTracked'
      <3>1. CASE ~ShowsPresence
        <4>1. current' = current /\ seen' = seen /\ place' = place /\ now' = now
          BY <2>1, <2>3, <3>1
        <4> QED
          BY <2>3, <4>1 DEF PresenceIsTracked, IsOpen
      <3>2. CASE ShowsPresence
        <4>1. Between(now, now) = {}
          BY <1>0 DEF Between
        <4>2. ASSUME call.ws \in Workspaces
              PROVE  IsOpen' /\ seen' = now /\ current'.last = now
          BY <2>1, <2>3, <3>2, <4>2
        <4>3. place' \in Workspaces => call.ws \in Workspaces
          BY <2>1, <3>2
        <4> QED
          BY <1>0, <4>1, <4>2, <4>3 DEF PresenceIsTracked
      <3> QED
        BY <3>1, <3>2
    <2> QED
      BY <2>2, <2>4, <2>5
  <1>5. CASE AttentionClose
    <2>1. /\ IsOpen /\ Return(current, current.last, "shutdown")
          /\ current' = NoSegment /\ UNCHANGED <<now, seen, worked>>
          /\ lost' = lost \cup Dropped(current.last) /\ place' = NoWorkspace
      BY <1>5 DEF AttentionClose, Close
    <2>2. /\ Billed \subseteq Billed'
          /\ Between(current.start, current.last) \subseteq Billed' \cup Dropped(current.last)
      BY <1>0, <2>1, ReturnBills
    <2>3. Accounted \subseteq Accounted'
      BY <2>1, <2>2 DEF Accounted, OpenTime
    <2> QED
      BY <2>1, <2>3, WorkspaceAssumption DEF SeenTyped, WorkAccounted, PresenceIsTracked
  <1>6. CASE UNCHANGED attentionVars
    <2>1. UNCHANGED <<now, current, entries, call, seen, place, worked, lost>>
      BY <1>6 DEF attentionVars, vars, history
    <2>2. Accounted' = Accounted
      BY <2>1 DEF Accounted, Billed, OpenTime, IsOpen
    <2> QED
      BY <2>1, <2>2 DEF SeenTyped, WorkAccounted, PresenceIsTracked, IsOpen
  <1> QED
    BY <1>1, <1>2, <1>3, <1>4, <1>5, <1>6 DEF AttentionNext

\* On a clock that is never set back, every second of work is in an entry or
\* in the open segment, or was dropped on purpose, for every calendar, timeout
\* and minimum length (segments.py:6-18).
THEOREM WorkCorrect == ASSUME ForwardClock PROVE AttentionSpec => []WorkIsBilled
  <1>1. IInv /\ IInv' /\ WInv /\ [AttentionNext]_attentionVars => WInv'
    BY AttentionNextInv
  <1>2. AttentionInit => WInv
    BY AttentionInitInv
  <1>3. WInv => WorkIsBilled
    BY DEF WInv, WorkAccounted, Accounted, OpenTime, WorkIsBilled
  <1> QED
    BY <1>1, <1>2, <1>3, TrackerInvariance, PTL DEF AttentionSpec

-----------------------------------------------------------------------------

\* A day is at least as long as the idle timeout.  config.py accepts a longer
\* one, and then every midnight restarts the wait before it is over: an
\* absence is billed day after day.
DaysOutlastTimeout == \A t \in Times : IdleTimeout <= NextDay(t) - DayStart(t)

\* The last activity of the open segment is the last sign of presence, or it
\* is the midnight that followed within an idle timeout.
LastIsSeen ==
    IsOpen =>
        \/ current.last = seen
        \/ /\ current.last = current.start
           /\ DayStart(current.start) = current.start
           /\ seen <= current.last
           /\ current.last < seen + IdleTimeout

\* A segment that an update has not closed as idle has not been quiet for the
\* timeout, and the midnight loop does not change that.
NotIdleInLoop == call.phase = "rollover" /\ IsOpen => IdleFor < IdleTimeout

\* No entry reaches further than two timeouts past the last sign of presence.
Horizon == \A i \in 1..Len(entries) : entries[i].end < seen + 2 * IdleTimeout

OInv ==
    /\ SeenTyped
    /\ LastIsSeen
    /\ NotIdleInLoop
    /\ Horizon
    /\ OverCountBelowTwoTimeouts

\* A day begins at its own midnight.
LEMMA MidnightStartsDay ==
    ASSUME NEW t \in Times, NextDay(t) \in Times
    PROVE  DayStart(NextDay(t)) = NextDay(t)
  <1> DEFINE m == NextDay(t)
             v == DayStart(m)
  <1>1. t \in Int /\ m \in Int /\ v \in Int /\ v <= m /\ t < m /\ 0 <= t
    BY CalendarAssumption, ParameterAssumption DEF Times
  <1>2. DayStart(m) # DayStart(t)
    BY <1>1, CalendarAssumption
  <1>3. ~(v <= t)
    BY <1>1, <1>2, CalendarAssumption
  <1>4. ASSUME v < m
        PROVE  FALSE
    <2>1. v \in Times
      BY <1>1, <1>3, <1>4, ParameterAssumption DEF Times
    <2>2. DayStart(t) <= t
      BY CalendarAssumption
    <2>3. DayStart(v) = DayStart(t)
      BY <1>1, <1>3, <1>4, <2>1, <2>2, CalendarAssumption
    <2>4. DayStart(v) = DayStart(m)
      BY <1>1, <1>4, <2>1, CalendarAssumption
    <2> QED
      BY <1>2, <2>3, <2>4
  <1> QED
    BY <1>1, <1>4

\* Entries that end within two timeouts of a time hold fewer seconds than that
\* after it.
LEMMA HorizonBounds ==
    ASSUME NEW log \in Seq(Entry), NEW from \in Int,
           \A i \in 1..Len(log) : log[i].end < from + 2 * IdleTimeout
    PROVE  LET all == UNION {Between(log[i].start, log[i].end) : i \in 1..Len(log)}
           IN  Cardinality({t \in all : t >= from}) < 2 * IdleTimeout
  <1> DEFINE all == UNION {Between(log[i].start, log[i].end) : i \in 1..Len(log)}
             S == {t \in all : t >= from}
             last == from + 2 * IdleTimeout - 2
  <1>1. IdleTimeout \in Nat \ {0} /\ last \in Int /\ from <= last
    BY ParameterAssumption
  <1>2. S \subseteq from..last
    <2> SUFFICES ASSUME NEW i \in 1..Len(log), NEW t \in Between(log[i].start, log[i].end),
                        t >= from
                 PROVE  t \in from..last
      OBVIOUS
    <2>1. log[i] \in Entry
      OBVIOUS
    <2>2. log[i].start \in Int /\ log[i].end \in Int
      BY <2>1 DEF Entry
    <2>3. t \in Int /\ t <= log[i].end - 1
      BY <2>2 DEF Between
    <2>4. log[i].end < from + 2 * IdleTimeout
      OBVIOUS
    <2> QED
      BY <1>1, <2>2, <2>3, <2>4
  <1> HIDE DEF S
  <1>3. IsFiniteSet(from..last) /\ Cardinality(from..last) = last - from + 1
    BY <1>1, FS_Interval
  <1>4. Cardinality(S) <= last - from + 1 /\ IsFiniteSet(S)
    BY <1>2, <1>3, FS_Subset, ZenonT(40)
  <1>5. Cardinality(S) \in Nat
    BY <1>4, FS_CardinalityType
  <1>6. Cardinality(S) < 2 * IdleTimeout
    BY <1>1, <1>4, <1>5
  <1> QED
    BY <1>6 DEF S

\* The entry of a segment that closes at most one timeout after its last
\* activity stays within the horizon.
LEMMA ReturnWithinHorizon ==
    ASSUME IInv, SeenTyped, LastIsSeen, Horizon, IsOpen, NEW end \in Int,
           end < current.last + IdleTimeout, NEW reason \in Reasons,
           Return(current, end, reason)
    PROVE  \A i \in 1..Len(entries') : entries'[i].end < seen + 2 * IdleTimeout
  <1>1. seen \in Int /\ current.last \in Int /\ IdleTimeout \in Nat \ {0}
    BY ParameterAssumption
    DEF SeenTyped, Times, IInv, TypeOK, IsOpen, Segment
  <1>2. current.last < seen + IdleTimeout
    BY <1>1 DEF LastIsSeen
  <1>3. end < seen + 2 * IdleTimeout
    BY <1>1, <1>2
  <1> QED
    BY <1>3, ReturnBills DEF Horizon

\* OInv holds at the start.
LEMMA OverCountInitInv ==
    ASSUME AttentionInit
    PROVE  OInv
  <1>1. SeenTyped
    BY ParameterAssumption DEF AttentionInit, Init, SeenTyped, Times
  <1>2. LastIsSeen /\ NotIdleInLoop /\ Horizon
    BY DEF AttentionInit, Init, Idle, LastIsSeen, NotIdleInLoop, Horizon, IsOpen
  <1>3. OverCountBelowTwoTimeouts
    BY ParameterAssumption DEF AttentionInit, OverCountBelowTwoTimeouts
  <1> QED
    BY <1>1, <1>2, <1>3 DEF OInv

\* Every action keeps the time billed in an absence below two timeouts.
LEMMA OverCountNextInv ==
    ASSUME ForwardClock, DaysOutlastTimeout, IInv, IInv', OInv,
           [AttentionNext]_attentionVars
    PROVE  OInv'
  <1>0. /\ now \in Times /\ now \in Int /\ seen \in Int /\ seen <= now
        /\ IdleTimeout \in Nat \ {0}
        /\ entries \in Seq(Entry) /\ entries' \in Seq(Entry)
        /\ IsOpen => /\ current \in Segment /\ current.start <= current.last
                     /\ current.last <= now /\ current.start \in Int /\ current.last \in Int
        /\ "idle" \in Reasons /\ "rollover" \in Reasons /\ "closed" \in Reasons
        /\ "switch" \in Reasons /\ "shutdown" \in Reasons
    BY ParameterAssumption
    DEF IInv, TypeOK, Times, IsOpen, OpenSegmentIsLatest, OInv, SeenTyped, Segment, Reasons
  <1>a. SeenTyped /\ LastIsSeen /\ NotIdleInLoop /\ Horizon /\ OverCountBelowTwoTimeouts
    BY DEF OInv
  <1>1. CASE Tick /\ UNCHANGED history
    <2>1. now' \in Times /\ now' \in Int /\ now <= now'
      BY <1>0, <1>1, ParameterAssumption DEF Tick, ForwardClock, Times
    <2>2. SeenTyped'
      BY <1>0, <1>1, <1>a, <2>1 DEF SeenTyped, history
    <2>3. LastIsSeen' /\ Horizon' /\ OverCountBelowTwoTimeouts'
      BY <1>1, <1>a
      DEF Tick, history, LastIsSeen, Horizon, OverCountBelowTwoTimeouts, IsOpen
    <2>4. NotIdleInLoop'
      BY <1>1 DEF Tick, NotIdleInLoop
    <2> QED
      BY <2>2, <2>3, <2>4 DEF OInv
  <1>2. ASSUME NEW ws \in Focus, NEW active \in BOOLEAN, AttentionBegin(ws, active)
        PROVE  OInv'
    <2>1. UNCHANGED <<now, seen, absent>> /\ BeginUpdate(ws, active)
      BY <1>2 DEF AttentionBegin, BeginUpdate
    <2>2. SeenTyped' /\ OverCountBelowTwoTimeouts'
      BY <1>a, <2>1 DEF SeenTyped, OverCountBelowTwoTimeouts
    <2>3. CASE IdleClose
      <3>1. IsOpen /\ Return(current, current.last, "idle") /\ ~IsOpen'
        BY <2>3 DEF IdleClose, IsOpen
      <3>2. current.last < current.last + IdleTimeout
        BY <1>0, <3>1
      <3>3. Horizon'
        BY <1>0, <1>a, <2>1, <3>1, <3>2, ReturnWithinHorizon DEF Horizon
      <3> QED
        BY <2>2, <3>1, <3>3 DEF OInv, LastIsSeen, NotIdleInLoop
    <2>4. CASE UNCHANGED <<current, entries>> /\ ~(IsOpen /\ IdleFor >= IdleTimeout)
      <3>1. LastIsSeen' /\ Horizon'
        BY <1>a, <2>1, <2>4 DEF LastIsSeen, Horizon, IsOpen
      <3>2. IsOpen' => IdleFor' < IdleTimeout
        BY <1>0, <2>1, <2>4 DEF IsOpen, IdleFor
      <3> QED
        BY <2>2, <3>1, <3>2 DEF OInv, NotIdleInLoop
    <2> QED
      BY <2>1, <2>3, <2>4 DEF BeginUpdate, IdleClose
  <1>3. CASE AttentionRollover
    <2> DEFINE s == current.start
               eod == EndOfDay(s)
               resume == NextDay(s)
    <2>1. /\ IsOpen /\ NeedsRollover /\ Return(current, eod, "rollover")
          /\ current' = CarriedOver(current) /\ call.phase = "rollover"
          /\ UNCHANGED <<now, seen, absent>>
      BY <1>3 DEF AttentionRollover, Rollover, NeedsRollover
    <2>2. /\ resume \in Int /\ resume \in Times /\ eod \in Int
          /\ current.last < resume /\ resume <= now /\ eod < resume /\ s \in Times
      BY <2>1, EndOfDayIsClosable, ParameterAssumption
      DEF Closable, Times, EndOfDay, IInv, OpenWithinADay
    <2>3. now < current.last + IdleTimeout
      BY <1>0, <1>a, <2>1 DEF NotIdleInLoop, IdleFor
    \* A segment that starts at a midnight and has not been active since is
    \* closed as idle before it meets the next one.
    <2>4. current.last = seen
      <3> SUFFICES ASSUME current.last = s, DayStart(s) = s
                   PROVE  FALSE
        BY <1>a, <2>1 DEF LastIsSeen
      <3>1. s + IdleTimeout <= resume
        BY <1>0, <2>1, <2>2 DEF DaysOutlastTimeout
      <3>2. now < resume
        BY <1>0, <2>1, <2>2, <2>3, <3>1
      <3> QED
        BY <1>0, <2>2, <3>2
    <2>5. current' = [ws |-> current.ws, start |-> resume, last |-> resume]
      BY <1>0, <2>1, <2>2 DEF CarriedOver, Segment
    <2>6. DayStart(resume) = resume
      BY <2>2, MidnightStartsDay
    <2> HIDE DEF eod, resume
    <2>7. LastIsSeen'
      BY <1>0, <2>1, <2>2, <2>3, <2>4, <2>5, <2>6 DEF LastIsSeen
    <2>8. NotIdleInLoop'
      BY <1>0, <2>1, <2>2, <2>3, <2>5 DEF NotIdleInLoop, IdleFor
    <2>9. eod < current.last + IdleTimeout
      BY <1>0, <2>1, <2>2, <2>3
    <2>10. Horizon'
      BY <1>0, <1>a, <2>1, <2>2, <2>9, ReturnWithinHorizon DEF Horizon
    <2> QED
      BY <1>a, <2>1, <2>7, <2>8, <2>10 DEF OInv, SeenTyped, OverCountBelowTwoTimeouts
  <1>4. CASE AttentionEnd
    <2>1. /\ UNCHANGED now /\ call.phase = "rollover" /\ call'.phase = "ready"
          /\ OpenOnActivity \/ CloseUnfocused \/ SwitchFocus \/ KeepFocus
          /\ absent' = Cardinality({t \in Billed' : t >= seen})
          /\ IF ShowsPresence THEN seen' = now ELSE seen' = seen
          /\ call.ws \in Focus /\ call.active \in BOOLEAN
      BY <1>4 DEF AttentionEnd, EndUpdate, IInv, TypeOK, Call, Idle
    <2>2. SeenTyped'
      BY <1>0, <1>a, <2>1 DEF SeenTyped
    <2>3. \A i \in 1..Len(entries') : entries'[i].end < seen + 2 * IdleTimeout
      <3>1. CASE OpenOnActivity \/ KeepFocus
        BY <1>a, <3>1 DEF OpenOnActivity, KeepFocus, Horizon
      <3>2. CASE CloseUnfocused \/ SwitchFocus
        <4>1. IsOpen /\ \E reason \in Reasons : Return(current, now, reason)
          BY <1>0, <3>2 DEF CloseUnfocused, SwitchFocus
        <4>2. now < current.last + IdleTimeout
          BY <1>0, <1>a, <2>1, <4>1 DEF NotIdleInLoop, IdleFor
        <4> QED
          BY <1>0, <1>a, <4>1, <4>2, ReturnWithinHorizon
      <3> QED
        BY <2>1, <3>1, <3>2
    <2>4. OverCountBelowTwoTimeouts'
      BY <1>0, <2>1, <2>3, HorizonBounds DEF OverCountBelowTwoTimeouts, Billed
    <2>5. Horizon'
      <3> SUFFICES ASSUME NEW i \in 1..Len(entries')
                   PROVE  entries'[i].end < seen' + 2 * IdleTimeout
        BY DEF Horizon
      <3>1. entries'[i] \in Entry
        BY <1>0
      <3>2. entries'[i].end \in Int
        BY <3>1 DEF Entry
      <3> QED
        BY <1>0, <2>1, <2>3, <3>2
    <2>6. LastIsSeen'
      <3>1. CASE OpenOnActivity
        <4>1. CASE call.ws \in Workspaces /\ call.active
          BY <2>1, <3>1, <4>1 DEF OpenOnActivity, NewSegment, ShowsPresence, LastIsSeen
        <4>2. CASE ~(call.ws \in Workspaces /\ call.active)
          BY <3>1, <4>2 DEF OpenOnActivity, LastIsSeen, IsOpen
        <4> QED
          BY <4>1, <4>2
      <3>2. CASE CloseUnfocused
        BY <3>2 DEF CloseUnfocused, LastIsSeen, IsOpen
      <3>3. CASE SwitchFocus
        BY <2>1, <3>3 DEF SwitchFocus, NewSegment, ShowsPresence, LastIsSeen
      <3>4. CASE KeepFocus
        <4>1. IsOpen /\ call.ws = current.ws /\ call.ws \in Workspaces
          BY <1>0, <3>4 DEF KeepFocus, Segment
        <4>2. CASE call.active
          BY <1>0, <2>1, <3>4, <4>1, <4>2
          DEF KeepFocus, Touched, ShowsPresence, LastIsSeen, Segment
        <4>3. CASE ~call.active
          <5>1. current' = current /\ seen' = seen
            BY <2>1, <3>4, <4>1, <4>3 DEF KeepFocus, Touched, ShowsPresence
          <5> QED
            BY <1>a, <5>1 DEF LastIsSeen, IsOpen
        <4> QED
          BY <4>2, <4>3
      <3> QED
        BY <2>1, <3>1, <3>2, <3>3, <3>4
    <2>7. NotIdleInLoop'
      BY <2>1 DEF NotIdleInLoop
    <2> QED
      BY <2>2, <2>4, <2>5, <2>6, <2>7 DEF OInv
  <1>5. CASE AttentionClose
    <2>1. /\ IsOpen /\ Return(current, current.last, "shutdown")
          /\ ~IsOpen' /\ UNCHANGED <<now, seen, absent>>
      BY <1>5 DEF AttentionClose, Close, IsOpen
    <2>2. current.last < current.last + IdleTimeout
      BY <1>0, <2>1
    <2>3. Horizon'
      BY <1>0, <1>a, <2>1, <2>2, ReturnWithinHorizon DEF Horizon
    <2> QED
      BY <1>a, <2>1, <2>3
      DEF OInv, SeenTyped, LastIsSeen, NotIdleInLoop, OverCountBelowTwoTimeouts
  <1>6. CASE UNCHANGED attentionVars
    <2>1. UNCHANGED <<now, current, entries, call, seen, absent>>
      BY <1>6 DEF attentionVars, vars, history
    <2> QED
      BY <1>a, <2>1
      DEF OInv, SeenTyped, LastIsSeen, NotIdleInLoop, Horizon, OverCountBelowTwoTimeouts,
          IsOpen, IdleFor
  <1> QED
    BY <1>1, <1>2, <1>3, <1>4, <1>5, <1>6 DEF AttentionNext

\* On a clock that is never set back, and with days no shorter than the idle
\* timeout, what an absence adds to the entries stays below two timeouts,
\* however many updates, rollovers and switches it spans (segments.py:157-222).
THEOREM OverCountCorrect ==
    ASSUME ForwardClock, DaysOutlastTimeout
    PROVE  AttentionSpec => []OverCountBelowTwoTimeouts
  <1>1. IInv /\ IInv' /\ OInv /\ [AttentionNext]_attentionVars => OInv'
    BY OverCountNextInv
  <1>2. AttentionInit => OInv
    BY OverCountInitInv
  <1>3. OInv => OverCountBelowTwoTimeouts
    BY DEF OInv
  <1> QED
    BY <1>1, <1>2, <1>3, TrackerInvariance, PTL DEF AttentionSpec

-----------------------------------------------------------------------------

\* The open segment is of the Space in which the user was last seen, and has
\* not been opened before the user came there.
OpenIsHere ==
    /\ arrived \in Int /\ arrived <= now
    /\ IsOpen => current.ws = place /\ arrived <= current.start

\* Every action keeps the open segment where the user is.
LEMMA HereNextInv ==
    ASSUME ForwardClock, IInv, IInv', OpenIsHere, [AttentionNext]_attentionVars
    PROVE  OpenIsHere'
  <1>0. /\ now \in Int /\ now' \in Int /\ arrived \in Int /\ arrived <= now
        /\ IsOpen => /\ current \in Segment /\ current.start \in Int
                     /\ current.ws = place /\ arrived <= current.start
    BY ParameterAssumption DEF IInv, TypeOK, Times, IsOpen, Segment, OpenIsHere
  <1>1. CASE Tick /\ UNCHANGED history
    <2>1. now <= now'
      BY <1>0, <1>1, ParameterAssumption DEF Tick, ForwardClock
    <2> QED
      BY <1>0, <1>1, <2>1 DEF Tick, history, OpenIsHere, IsOpen
  <1>2. ASSUME NEW ws \in Focus, NEW active \in BOOLEAN, AttentionBegin(ws, active)
        PROVE  OpenIsHere'
    BY <1>0, <1>2 DEF AttentionBegin, BeginUpdate, IdleClose, OpenIsHere, IsOpen
  <1>3. CASE AttentionRollover
    <2>1. /\ IsOpen /\ current' = CarriedOver(current)
          /\ UNCHANGED <<now, place, arrived>>
      BY <1>3 DEF AttentionRollover, Rollover, NeedsRollover
    <2>2. NextDay(current.start) \in Int /\ current.start < NextDay(current.start)
      BY <1>0, <2>1, CalendarAssumption DEF IInv, OpenWithinADay
    <2>3. current'.ws = place /\ current'.start = NextDay(current.start)
      BY <1>0, <2>1 DEF CarriedOver
    <2> QED
      BY <1>0, <2>1, <2>2, <2>3 DEF OpenIsHere
  <1>4. CASE AttentionEnd
    <2>1. /\ now' = now
          /\ OpenOnActivity \/ CloseUnfocused \/ SwitchFocus \/ KeepFocus
          /\ IF ShowsPresence
             THEN /\ place' = call.ws
                  /\ arrived' = IF call.ws = place THEN arrived ELSE now
             ELSE UNCHANGED <<place, arrived>>
      BY <1>4 DEF AttentionEnd, EndUpdate
    <2>2. arrived' \in Int /\ arrived' <= now'
      BY <1>0, <2>1
    <2>3. ASSUME IsOpen'
          PROVE  current'.ws = place' /\ arrived' <= current'.start
      <3>1. CASE OpenOnActivity
        <4>1. ShowsPresence /\ current' = [ws |-> call.ws, start |-> now, last |-> now]
          BY <2>3, <3>1 DEF OpenOnActivity, NewSegment, ShowsPresence, IsOpen
        <4> QED
          BY <1>0, <2>1, <2>2, <4>1
      <3>2. CASE CloseUnfocused
        BY <2>3, <3>2 DEF CloseUnfocused, IsOpen
      <3>3. CASE SwitchFocus
        <4>1. ShowsPresence /\ current' = [ws |-> call.ws, start |-> now, last |-> now]
          BY <3>3 DEF SwitchFocus, NewSegment, ShowsPresence
        <4> QED
          BY <1>0, <2>1, <2>2, <4>1
      <3>4. CASE KeepFocus
        <4>1. /\ IsOpen /\ call.ws = current.ws
              /\ current'.ws = current.ws /\ current'.start = current.start
          BY <1>0, <3>4 DEF KeepFocus, Touched, Segment
        <4>2. place' = place /\ arrived' = arrived
          BY <1>0, <2>1, <4>1
        <4> QED
          BY <1>0, <4>1, <4>2
      <3> QED
        BY <2>1, <3>1, <3>2, <3>3, <3>4
    <2> QED
      BY <2>2, <2>3 DEF OpenIsHere
  <1>5. CASE AttentionClose
    BY <1>0, <1>5 DEF AttentionClose, Close, OpenIsHere, IsOpen
  <1>6. CASE UNCHANGED attentionVars
    BY <1>0, <1>6 DEF attentionVars, vars, history, OpenIsHere, IsOpen
  <1> QED
    BY <1>1, <1>2, <1>3, <1>4, <1>5, <1>6 DEF AttentionNext

\* The entry that a step records is the open segment's, up to now at most.
LEMMA RecordedHere ==
    ASSUME IInv, OpenIsHere, [Next]_vars, entries' # entries
    PROVE  LET e == entries'[Len(entries')]
           IN  e.ws = place /\ arrived <= e.start /\ e.end <= now
  <1>1. PICK end \in Int, reason \in Reasons :
            Closable(end) /\ Return(current, end, reason)
    BY StepReturns
  <1> DEFINE e == MakeEntry(current, end, reason)
  <1>2. entries' = Append(entries, e) /\ IsKept(current, end)
    BY <1>1 DEF Return
  <1>3. current \in Segment /\ entries \in Seq(Entry) /\ IsOpen /\ end <= now
    BY <1>1 DEF IInv, TypeOK, Closable, IsOpen
  <1>4. end > current.start /\ ClampedEnd(current, end) = end
    BY <1>1, <1>2, <1>3 DEF IsKept, ClampedEnd, Segment
  <1>5. e.ws = current.ws /\ e.start = current.start /\ e.end = end
    BY <1>4 DEF MakeEntry
  <1>6. e \in Entry
    BY <1>1, <1>3, <1>4 DEF MakeEntry, Entry, Segment
  <1> HIDE DEF e
  <1>7. entries'[Len(entries')] = e
    BY <1>2, <1>3, <1>6
  <1> QED
    BY <1>3, <1>5, <1>7 DEF OpenIsHere

\* On a clock that is never set back, every second of an entry is billed to the
\* Space in which the user was last seen, over any number of switches, idle
\* closes and midnights (segments.py:161-198).
THEOREM AttributionCorrect == ASSUME ForwardClock PROVE AttentionSpec => BilledWhereSeen
  <1>1. IInv /\ IInv' /\ OpenIsHere /\ [AttentionNext]_attentionVars => OpenIsHere'
    BY HereNextInv
  <1>2. AttentionInit => OpenIsHere
    BY ParameterAssumption DEF AttentionInit, Init, OpenIsHere, IsOpen, Times
  <1>3. IInv /\ OpenIsHere /\ [AttentionNext]_attentionVars =>
          [entries' # entries =>
             LET e == entries'[Len(entries')]
             IN  e.ws = place /\ arrived <= e.start /\ e.end <= now]_attentionVars
    BY AttentionStep, RecordedHere
  <1> QED
    BY <1>1, <1>2, <1>3, TrackerInvariance, PTL DEF AttentionSpec, BilledWhereSeen
==============================================================================
