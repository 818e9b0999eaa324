--------------------------- MODULE SegmentTracker ----------------------------
(***************************************************************************)
(* workspace-time-tracker/src/segments.py: when a time entry opens, when   *)
(* it closes and at which time it ends.  The caller polls and hands        *)
(* update() the focused Space and whether anything counted as activity     *)
(* since the last call.                                                    *)
(*                                                                         *)
(* update() reads the clock once and has three parts that can close the    *)
(* open segment: the idle close, the midnight loop and the comparison with *)
(* the focused Space.  BeginUpdate is the first, every iteration of the    *)
(* loop is a Rollover and EndUpdate is the rest; nothing else happens      *)
(* between them, but the loop is not assumed to end.                       *)
(*                                                                         *)
(* Times are integers, in any unit that divides a second.  Local days have *)
(* the lengths the calendar gives them (DayStart and NextDay), so a change *)
(* of daylight saving time is covered.  label and cwd, which a poll        *)
(* refreshes, and the counter of discarded entries are not modelled.       *)
(***************************************************************************)
EXTENDS Integers, Sequences

CONSTANTS
    Workspaces,     \* the Spaces that can have the focus
    NoWorkspace,    \* update(None, _): no Space has the focus
    DayStart(_),    \* the local midnight at or before a time
    NextDay(_),     \* the local midnight after a time
    Second,         \* one second, in clock units
    IdleTimeout,    \* idleTimeoutSec
    MinEntry,       \* minEntrySec; 0 keeps every entry of positive length
    ClockSteps,     \* what the wall clock can move by between two readings
    MaxClock        \* bound: the last time considered

ASSUME WorkspaceAssumption == NoWorkspace \notin Workspaces

ASSUME ParameterAssumption ==
    /\ Second \in Nat \ {0}
    /\ IdleTimeout \in Nat \ {0}
    /\ MinEntry \in Nat
    /\ ClockSteps \subseteq Int
    /\ MaxClock \in Nat

Times == 0..MaxClock

\* Days are longer than a second and do not overlap.
ASSUME CalendarAssumption ==
    \A t \in Times :
        /\ DayStart(t) \in Int
        /\ NextDay(t) \in Int
        /\ DayStart(t) <= t
        /\ t < NextDay(t)
        /\ DayStart(t) < NextDay(t) - Second
        /\ \A u \in Times :
              /\ DayStart(u) = DayStart(t) <=> DayStart(t) <= u /\ u < NextDay(t)
              /\ DayStart(u) = DayStart(t) => NextDay(u) = NextDay(t)

VARIABLES
    now,        \* the wall clock
    current,    \* self.current, the open segment
    entries,    \* every entry returned so far, oldest first
    call        \* the update() in progress, if any

vars == <<now, current, entries, call>>

-----------------------------------------------------------------------------

Reasons == {"switch", "idle", "closed", "rollover", "shutdown", "recovered"}

Focus == Workspaces \cup {NoWorkspace}

Segment == [ws : Workspaces, start : Int, last : Int]

NoSegment == [ws |-> NoWorkspace, start |-> 0, last |-> 0]

Entry == [ws : Workspaces, start : Int, end : Int, reason : Reasons]

Idle == [phase |-> "ready", ws |-> NoWorkspace, active |-> FALSE, returned |-> 0]

Call == [phase : {"ready", "rollover"}, ws : Focus, active : BOOLEAN, returned : Nat]

IsOpen == current # NoSegment

NewSegment(ws, at) == [ws |-> ws, start |-> at, last |-> at]

EndOfDay(t) == NextDay(t) - Second

\* Where an entry that closes at `end` really ends: never before its start.
ClampedEnd(seg, end) == IF end < seg.start THEN seg.start ELSE end

\* An entry of no length is never kept, whatever minEntrySec says.
IsKeptWhateverItsLength(seg, end) == TRUE

IsKept(seg, end) ==
    /\ ClampedEnd(seg, end) > seg.start
    /\ ClampedEnd(seg, end) - seg.start >= MinEntry

MakeEntry(seg, end, reason) ==
    [ws |-> seg.ws, start |-> seg.start, end |-> ClampedEnd(seg, end), reason |-> reason]

\* _finish(): the entry that the segment leaves, if it is long enough, joins
\* those to be returned.
Return(seg, end, reason) ==
    entries' = IF IsKept(seg, end)
               THEN Append(entries, MakeEntry(seg, end, reason)) ELSE entries

IdleFor == now - current.last

-----------------------------------------------------------------------------

Init ==
    /\ now \in Times
    /\ current = NoSegment
    /\ entries = <<>>
    /\ call = Idle

\* The wall clock moves between two polls.
Tick ==
    /\ call.phase = "ready"
    /\ \E d \in ClockSteps : now' = now + d
    /\ now' \in Times
    /\ UNCHANGED <<current, entries, call>>

IdleCloseAtNow ==
    /\ IsOpen
    /\ IdleFor >= IdleTimeout
    /\ Return(current, now, "idle")
    /\ current' = NoSegment

IdleClose ==
    /\ IsOpen
    /\ IdleFor >= IdleTimeout
    /\ Return(current, current.last, "idle")
    /\ current' = NoSegment

\* update(ws, active) is called; an open segment that has been quiet for too
\* long closes at its last activity.
BeginUpdate(ws, active) ==
    /\ call.phase = "ready"
    /\ \/ IdleClose
       \/ /\ ~(IsOpen /\ IdleFor >= IdleTimeout)
          /\ UNCHANGED <<current, entries>>
    /\ call' = [phase |-> "rollover", ws |-> ws, active |-> active,
                returned |-> Len(entries') - Len(entries)]
    /\ UNCHANGED now

NeedsRollover == IsOpen /\ DayStart(now) # DayStart(current.start)

CarriedOverNothing(seg) == NoSegment

CarriedOverToFocus(seg) ==
    LET resume == NextDay(seg.start)
    IN  [ws |-> IF call.ws \in Workspaces THEN call.ws ELSE seg.ws, start |-> resume,
         last |-> IF seg.last > resume THEN seg.last ELSE resume]

CarriedOver(seg) ==
    LET resume == NextDay(seg.start)
    IN  [ws |-> seg.ws, start |-> resume,
         last |-> IF seg.last > resume THEN seg.last ELSE resume]

\* One turn of the midnight loop: the day's part of the segment closes a
\* second before midnight and the rest of it opens at midnight.  The second
\* conjunct is the bound on the clock; it never stops a loop that approaches
\* `now`.
Rollover ==
    /\ call.phase = "rollover"
    /\ NeedsRollover
    /\ NextDay(current.start) \in Times
    /\ Return(current, EndOfDay(current.start), "rollover")
    /\ current' = CarriedOver(current)
    /\ call' = [call EXCEPT !.returned = @ + Len(entries') - Len(entries)]
    /\ UNCHANGED now

Touched(seg) == IF call.active THEN [seg EXCEPT !.last = now] ELSE seg

\* Nothing is open: only activity in a focused Space opens a segment.
OpenOnActivity ==
    /\ ~IsOpen
    /\ current' = IF call.ws \in Workspaces /\ call.active
                  THEN NewSegment(call.ws, now) ELSE NoSegment
    /\ UNCHANGED entries

CloseUnfocused ==
    /\ IsOpen
    /\ call.ws = NoWorkspace
    /\ Return(current, now, "closed")
    /\ current' = NoSegment

SwitchFocus ==
    /\ IsOpen
    /\ call.ws \in Workspaces
    /\ call.ws # current.ws
    /\ Return(current, now, "switch")
    /\ current' = NewSegment(call.ws, now)

KeepFocus ==
    /\ IsOpen
    /\ call.ws = current.ws
    /\ current' = Touched(current)
    /\ UNCHANGED entries

\* The rest of update(): the focused Space is compared with the open
\* segment's, and activity is recorded.
EndUpdate ==
    /\ call.phase = "rollover"
    /\ ~NeedsRollover
    /\ OpenOnActivity \/ CloseUnfocused \/ SwitchFocus \/ KeepFocus
    /\ call' = [Idle EXCEPT !.returned = call.returned + Len(entries') - Len(entries)]
    /\ UNCHANGED now

\* close(): the daemon stops, and the segment ends at its last activity.
Close(reason) ==
    /\ call.phase = "ready"
    /\ IsOpen
    /\ Return(current, current.last, reason)
    /\ current' = NoSegment
    /\ call' = Idle
    /\ UNCHANGED now

\* recover(): a segment found on disk is closed at its last recorded
\* activity.
Recover(seg) ==
    /\ call.phase = "ready"
    /\ ~IsOpen
    /\ Return(seg, seg.last, "recovered")
    /\ UNCHANGED <<now, current, call>>

Next ==
    \/ Tick
    \/ \E ws \in Focus, active \in BOOLEAN : BeginUpdate(ws, active)
    \/ Rollover
    \/ EndUpdate
    \/ Close("shutdown")

Spec == Init /\ [][Next]_vars

-----------------------------------------------------------------------------

\* Every variable has its type, and an update in progress has a phase.
TypeOK ==
    /\ now \in Times
    /\ current \in Segment \cup {NoSegment}
    /\ entries \in Seq(Entry)
    /\ call \in Call

\* update() returns 0, 1 or 2 entries, as its docstring says
\* (segments.py:157).
ReturnsAtMostTwo == call.returned <= 2

\* The entries are a ledger: Ledger.tla states what the rest of the program
\* may assume of them.
TimeLedger == INSTANCE Ledger

IsLedger == TimeLedger!Spec
==============================================================================
