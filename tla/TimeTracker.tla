----------------------------- MODULE TimeTracker -----------------------------
(***************************************************************************)
(* workspace-time-tracker/src/main.py and store.py: the daemon of one      *)
(* Herdr session, from the recovery of what a killed predecessor left, to  *)
(* the poll loop, to the close on a signal or on the loss of the server.   *)
(*                                                                         *)
(* What the daemon knows is in memory (current, pending, call, seeded,     *)
(* lastFocus); what survives it is on disk: entries.jsonl (log) and        *)
(* current.json (mirror).  Every write to the disk is a step of its own,   *)
(* and the process can be killed before and after each.  One daemon runs   *)
(* at a time: the lock that sees to it is the same as in Caffeinate.tla.   *)
(*                                                                         *)
(* A poll whose snapshot is unusable changes nothing and is a stuttering   *)
(* step.  The panes of a snapshot are reduced to whether they are a sign   *)
(* of activity.                                                            *)
(***************************************************************************)
EXTENDS Integers, Sequences, FiniteSets

CONSTANTS
    Workspaces, NoWorkspace, DayStart(_), NextDay(_), Second, IdleTimeout,
    MinEntry, ClockSteps, MaxClock,     \* as in SegmentTracker
    MaxFaults,                          \* bound: how many faults can happen
    Faults                              \* which: "kill", "append", "mirror"

VARIABLES
    now,        \* the wall clock
    focus,      \* the Space with the focus in the Herdr server
    server,     \* whether the Herdr server answers
    pc,         \* where the daemon is
    stop,       \* stop_flag["stop"]
    seeded,     \* whether the first snapshot has been seen
    lastFocus,  \* last_workspace_id
    current,    \* tracker.current
    pending,    \* entries returned by the tracker and not yet appended
    call,       \* tracker.update() in progress
    log,        \* entries.jsonl
    mirror,     \* current.json
    faults,     \* the faults so far
    earned,     \* history: seconds in the log or the mirror after some poll
    unwritten   \* history: an append has failed

memory == <<stop, seeded, lastFocus, current, pending, call>>
disk == <<log, mirror>>
environment == <<now, focus, server>>
history == <<faults, earned, unwritten>>
vars == <<environment, pc, memory, disk, history>>

Tracker == INSTANCE SegmentTracker WITH entries <- pending
Report == INSTANCE Report

\* The tracker's own assumptions, for the constants this module gives it.
ASSUME TrackerAssumption ==
    /\ Tracker!WorkspaceAssumption
    /\ Tracker!ParameterAssumption
    /\ Tracker!CalendarAssumption

ASSUME FaultAssumption ==
    /\ MaxFaults \in Nat
    /\ Faults \subseteq {"kill", "append", "mirror"}

Nothing == Tracker!NoSegment

\* "recovered", "emit" and "closed" are the three calls of emit().
Places == {"down", "recover", "recovered", "recoverClear", "poll", "update", "emit",
           "mirror", "finally", "closed", "closeClear"}

Emitting == {"recovered", "emit", "closed"}

-----------------------------------------------------------------------------

Ticks(from, to) == from..(to - 1)

Logged == UNION {Ticks(log[i].start, log[i].end) : i \in 1..Len(log)}

\* The seconds an entry would bill if the segment closed at its last activity.
\* Those after end_of_day(), in the last second of a day, are never promised: the
\* midnight loop leaves them out.
Promised(seg) ==
    LET end == Tracker!EndOfDay(seg.start)
    IN  IF seg.last <= end THEN seg.last ELSE end

Billable(seg) ==
    IF seg = Nothing \/ Promised(seg) - seg.start < MinEntry
    THEN {} ELSE Ticks(seg.start, Promised(seg))

-----------------------------------------------------------------------------

Init ==
    /\ now = 0
    /\ focus \in Tracker!Focus
    /\ server = "up"
    /\ pc = "down"
    /\ stop = FALSE
    /\ seeded = FALSE
    /\ lastFocus = NoWorkspace
    /\ current = Nothing
    /\ pending = <<>>
    /\ call = Tracker!Idle
    /\ log = <<>>
    /\ mirror = Nothing
    /\ faults = 0
    /\ earned = {}
    /\ unwritten = FALSE

\* The environment acts while the daemon sleeps or is down: a poll is short,
\* and reads the clock, the focus and the server once.
Tick ==
    /\ pc \in {"down", "poll"}
    /\ \E d \in ClockSteps : now' = now + d
    /\ now' \in Tracker!Times
    /\ UNCHANGED <<focus, server, pc, memory, disk, history>>

FocusOn(ws) ==
    /\ pc \in {"down", "poll"}
    /\ ws # focus
    /\ focus' = ws
    /\ UNCHANGED <<now, server, pc, memory, disk, history>>

ServerStops ==
    /\ pc = "poll"
    /\ server = "up"
    /\ server' = "gone"
    /\ UNCHANGED <<now, focus, pc, memory, disk, history>>

ServerStarts ==
    /\ pc \in {"down", "poll"}
    /\ server = "gone"
    /\ server' = "up"
    /\ UNCHANGED <<now, focus, pc, memory, disk, history>>

\* A hook or the user runs `track daemon` while no daemon holds the lock.
Start ==
    /\ pc = "down"
    /\ server = "up"
    /\ pc' = "recover"
    /\ UNCHANGED <<environment, memory, disk, history>>

\* SIGTERM, from `track stop`, `track flush` or `daemon --restart`.
Stop ==
    /\ pc # "down"
    /\ ~stop
    /\ stop' = TRUE
    /\ UNCHANGED <<environment, pc, seeded, lastFocus, current, pending, call, disk, history>>

\* The memory of a process that is gone.
Forget ==
    /\ stop' = FALSE
    /\ seeded' = FALSE
    /\ lastFocus' = NoWorkspace
    /\ current' = Nothing
    /\ pending' = <<>>
    /\ call' = Tracker!Idle

\* kill -9, or the machine goes down.
Kill ==
    /\ "kill" \in Faults
    /\ faults < MaxFaults
    /\ pc # "down"
    /\ pc' = "down"
    /\ Forget
    /\ faults' = faults + 1
    /\ UNCHANGED <<environment, disk, earned, unwritten>>

-----------------------------------------------------------------------------

RecoverClearingFirst ==
    /\ pc = "recover"
    /\ mirror' = Nothing
    /\ IF mirror = Nothing
       THEN pc' = "poll" /\ UNCHANGED <<now, current, pending, call>>
       ELSE pc' = "recovered" /\ Tracker!Recover(mirror)
    /\ UNCHANGED <<focus, server, stop, seeded, lastFocus, log, history>>

\* current.json of a daemon that did not exit is closed at its last recorded
\* activity.
Recover ==
    /\ pc = "recover"
    /\ IF mirror = Nothing
       THEN pc' = "poll" /\ UNCHANGED <<now, current, pending, call>>
       ELSE pc' = "recovered" /\ Tracker!Recover(mirror)
    /\ UNCHANGED <<focus, server, stop, seeded, lastFocus, disk, history>>

AppendEntryTwice ==
    /\ pc \in Emitting
    /\ pending # <<>>
    /\ log' = log \o <<Head(pending), Head(pending)>>
    /\ pending' = Tail(pending)
    /\ UNCHANGED <<environment, pc, stop, seeded, lastFocus, current, call, mirror, history>>

\* emit(): the entries that the tracker returned are appended one by one.
AppendEntry ==
    /\ pc \in Emitting
    /\ pending # <<>>
    /\ log' = Append(log, Head(pending))
    /\ pending' = Tail(pending)
    /\ UNCHANGED <<environment, pc, stop, seeded, lastFocus, current, call, mirror, history>>

\* Every entry is written.  The recovery and the shutdown go on to remove
\* current.json, a poll to rewrite it.
AfterEmit ==
    [recovered |-> "recoverClear", emit |-> "mirror", closed |-> "closeClear"]

Emitted ==
    /\ pc \in Emitting
    /\ pending = <<>>
    /\ pc' = AfterEmit[pc]
    /\ UNCHANGED <<environment, memory, disk, history>>

\* The append raises: the rest of the entries are lost.  The exception leaves
\* the process, but a poll passes through the finally clause of the loop.
AppendFails ==
    /\ "append" \in Faults
    /\ faults < MaxFaults
    /\ pc \in Emitting
    /\ pending # <<>>
    /\ IF pc = "emit"
       THEN /\ pc' = "finally"
            /\ pending' = <<>>
            /\ UNCHANGED <<stop, seeded, lastFocus, current, call>>
       ELSE pc' = "down" /\ Forget
    /\ faults' = faults + 1
    /\ unwritten' = TRUE
    /\ UNCHANGED <<environment, disk, earned>>

ClearAfterRecovery ==
    /\ pc = "recoverClear"
    /\ mirror' = Nothing
    /\ pc' = "poll"
    /\ UNCHANGED <<environment, memory, log, history>>

-----------------------------------------------------------------------------

\* The loop asks for a snapshot: the server is "up" and answers, or it is "gone".
Asked(answer) == pc = "poll" /\ ~stop /\ server = answer

\* Why a poll counts as activity: the focus moved, which the first snapshot
\* cannot tell, or there is another sign: an agent in an active status, or a plain
\* pane that changed or whose screen did.
FocusMoved == seeded /\ focus # NoWorkspace /\ focus # lastFocus
Active(otherSign) == FocusMoved \/ otherSign

SnapshotIgnoringStop(otherSign) ==
    /\ pc = "poll"
    /\ server = "up"
    /\ Tracker!BeginUpdate(focus, Active(otherSign))
    /\ seeded' = TRUE
    /\ lastFocus' = IF ~seeded \/ focus # NoWorkspace THEN focus ELSE lastFocus
    /\ pc' = "update"
    /\ UNCHANGED <<focus, server, stop, disk, history>>

Snapshot(otherSign) ==
    /\ Asked("up")
    /\ Tracker!BeginUpdate(focus, Active(otherSign))
    /\ seeded' = TRUE
    /\ lastFocus' = IF ~seeded \/ focus # NoWorkspace THEN focus ELSE lastFocus
    /\ pc' = "update"
    /\ UNCHANGED <<focus, server, stop, disk, history>>

UpdateLoop ==
    /\ pc = "update"
    /\ Tracker!Rollover
    /\ UNCHANGED <<focus, server, pc, stop, seeded, lastFocus, disk, history>>

UpdateEnds ==
    /\ pc = "update"
    /\ Tracker!EndUpdate
    /\ pc' = "emit"
    /\ UNCHANGED <<focus, server, stop, seeded, lastFocus, disk, history>>

\* The open segment is mirrored, or current.json removed when there is none.
Mirror ==
    /\ pc = "mirror"
    /\ mirror' = current
    /\ earned' = earned \cup Logged \cup Billable(current)
    /\ pc' = "poll"
    /\ UNCHANGED <<environment, memory, log, faults, unwritten>>

\* write_current() swallows an error and leaves the file as it was.
MirrorFails ==
    /\ "mirror" \in Faults
    /\ faults < MaxFaults
    /\ pc = "mirror"
    /\ current # Nothing
    /\ faults' = faults + 1
    /\ pc' = "poll"
    /\ UNCHANGED <<environment, memory, disk, earned, unwritten>>

ServerGoneRetried ==
    /\ Asked("gone")
    /\ UNCHANGED vars

\* ServerGone: the open segment closes and current.json goes, open or not.
ServerGone ==
    /\ Asked("gone")
    /\ IF current # Nothing
       THEN pc' = "closed" /\ Tracker!Close("shutdown")
       ELSE pc' = "closeClear" /\ UNCHANGED <<now, current, pending, call>>
    /\ UNCHANGED <<focus, server, stop, seeded, lastFocus, disk, history>>

LoopEnds ==
    /\ pc = "poll"
    /\ stop
    /\ pc' = "finally"
    /\ UNCHANGED <<environment, memory, disk, history>>

FinallyWithoutClose ==
    /\ pc = "finally"
    /\ pc' = "down"
    /\ Forget
    /\ UNCHANGED <<environment, disk, history>>

\* The finally clause of run_loop.
Finally ==
    /\ pc = "finally"
    /\ IF current # Nothing
       THEN /\ pc' = "closed"
            /\ Tracker!Close("shutdown")
            /\ UNCHANGED <<stop, seeded, lastFocus>>
       ELSE pc' = "down" /\ Forget /\ UNCHANGED now
    /\ UNCHANGED <<focus, server, disk, history>>

ClearAfterClose ==
    /\ pc = "closeClear"
    /\ mirror' = Nothing
    /\ pc' = "down"
    /\ Forget
    /\ UNCHANGED <<environment, log, history>>

-----------------------------------------------------------------------------

Daemon ==
    \/ Recover \/ AppendEntry \/ Emitted \/ ClearAfterRecovery
    \/ \E otherSign \in BOOLEAN : Snapshot(otherSign)
    \/ UpdateLoop \/ UpdateEnds \/ Mirror
    \/ ServerGone \/ LoopEnds \/ Finally \/ ClearAfterClose

Environment ==
    \/ Tick \/ ServerStops \/ ServerStarts \/ Start \/ Stop
    \/ \E ws \in Tracker!Focus : FocusOn(ws)

Fault == Kill \/ AppendFails \/ MirrorFails

Next == Daemon \/ Environment \/ Fault

Spec == Init /\ [][Next]_vars

\* A daemon that is not killed keeps running.
FairSpec == Spec /\ WF_vars(Daemon)

-----------------------------------------------------------------------------

Overlap(i, j) == log[i].start < log[j].end /\ log[j].start < log[i].end

\* Work that some poll has seen stays on disk through every later step and
\* crash: it is in the log or in the mirrored segment, so a kill -9 loses at
\* most the poll it hits (segments.py:210-211).  An append that failed is the
\* exception: its entry is gone.
EarnedStaysOnDisk == unwritten \/ earned \subseteq Logged \cup Billable(mirror)

\* Two entries of the session overlap only when the later one recovers a
\* segment that was already billed: same Space, same start, and an end that is no
\* later, or later within the last second of the day, which a rollover leaves out.
OverlapOnlyByRecovery ==
    \A i, j \in 1..Len(log) : i < j /\ Overlap(i, j) =>
        /\ log[j].reason = "recovered"
        /\ log[i].ws = log[j].ws
        /\ log[i].start = log[j].start
        /\ log[j].end < log[i].end + Second

\* The seconds in the log that belong to a Space, or to a day, of this range.
SecondsOf(key, by, since, until) ==
    LET mine == {i \in DOMAIN log : by = "day" \/ log[i].ws = key}
    IN  {t \in UNION {Ticks(log[i].start, log[i].end) : i \in mine} :
            /\ since <= DayStart(t) /\ DayStart(t) <= until
            /\ by = "day" => DayStart(t) = key}

Days == {DayStart(t) : t \in Tracker!Times}

\* Whatever was killed in between, the report of a range of days adds up the
\* seconds of these days that are in the log, by Space and by day, each once, or
\* more than once and then says so: no second of another day, no note without a
\* reason, none missing (report.py:3-5, 66-71).  (Of one day the sum by day is the
\* same as the total.)
ReportIsTrue ==
    \A since, until \in Days, by \in {"workspace", "day"} :
        since < until \/ (since = until /\ by = "workspace") =>
        LET report == Report!Summarise(log, by, since, until)
            keys == IF by = "day" THEN Days ELSE Workspaces
            seconds == [k \in keys |-> SecondsOf(k, by, since, until)]
            all == UNION {seconds[k] : k \in keys}
        IN  /\ report.overlapping <=> report.total_seconds > Cardinality(all)
            /\ DOMAIN report.totals = {k \in keys : seconds[k] # {}}
            /\ report.overlapping \/ \A k \in DOMAIN report.totals :
                   report.totals[k] = Cardinality(seconds[k])

\* A daemon that exits by itself leaves no segment behind to be recovered.
CleanExitLeavesNothing == pc = "down" /\ faults = 0 => mirror = Nothing

\* A daemon that is told to stop does, and hands back the lock
\* (main.py:282-305 waits for it).
StopIsObeyed == stop ~> pc = "down"

\* A daemon does not outlive its server.
FollowsServer == (server = "gone" /\ pc # "down") ~> (pc = "down" \/ server = "up")
==============================================================================
