---------------------------- MODULE TrackCommands ----------------------------
(***************************************************************************)
(* workspace-time-tracker/src/main.py and daemonize.py: the processes of   *)
(* one session.  A hook or the user runs `track daemon` (with or without   *)
(* --ensure), `daemon --restart`, `stop` or `flush`, at any time and next  *)
(* to each other; they meet in a lock, in the pid that the lock file       *)
(* names, and in signals.                                                  *)
(*                                                                         *)
(* What a daemon does in its loop is TimeTracker; here a daemon opens at   *)
(* most one segment in its life, mirrors it, and appends it when it is     *)
(* told to stop.  The daemons of other sessions append to the same         *)
(* entries.jsonl.  The Herdr server is up, and its socket is in the        *)
(* environment of each process.  Pids are not recycled.                    *)
(***************************************************************************)
EXTENDS Journal

CONSTANTS
    Proc,           \* the processes that are launched at some time
    NoProc,         \* no process
    Other,          \* a daemon of another session
    MaxOther,       \* bound: appends of other sessions
    MaxFaults,      \* bound: how many faults can happen
    Faults          \* which: "kill", "short", "slow"

VARIABLES
    pc,         \* where each process is
    kind,       \* what it was launched as
    target,     \* pid, in _stop_running
    stop,       \* stop_flag["stop"]
    opened,     \* whether it has opened a segment
    lock,       \* the process that holds the flock
    pidFile,    \* the pid in the lock file
    mirror,     \* current.json: whose segment is in it
    appends,    \* the writes to entries.jsonl so far
    others,     \* how many of them are of other sessions
    faults,     \* history: the processes that were killed, the other faults
    stopped     \* history: a user asked for no daemon, or a wait was too short

memory == <<pc, kind, target, stop, opened>>
disk == <<pidFile, mirror, appends, others>>
history == <<faults, stopped>>
vars == <<memory, lock, disk, history>>

ASSUME BoundAssumption ==
    /\ NoProc \notin Proc /\ Other \notin Proc
    /\ MaxOther \in Nat /\ MaxFaults \in Nat
    /\ Faults \subseteq {"kill", "short", "slow"}

\* json.dumps leaves no newline in an entry.
ASSUME EntryAssumption == Newline \notin Proc \cup {Other}

Kinds == {"daemon", "restart", "stop", "flush"}
Loop == {"recover", "recoverClear", "loop", "clear", "release"}
Daemons == {"claimed", "named"} \cup Loop
Commanding == {"read", "signal", "wait", "probed", "spawn", "acquire", "claimed", "named"}
Gone == {"ended", "zombie", "gone"}

Killed == {f.proc : f \in {g \in faults : g.what = "kill"}}

MayFail(what) == what \in Faults /\ Cardinality(faults) < MaxFaults

\* pid_alive(): a process that has exited answers until its parent has
\* waited for it.
Alive(p) == p # NoProc /\ pc[p] \notin {"idle", "ended", "gone"}

-----------------------------------------------------------------------------

Init ==
    /\ pc = [p \in Proc |-> "idle"]
    /\ kind = [p \in Proc |-> "daemon"]
    /\ target = [p \in Proc |-> NoProc]
    /\ stop = [p \in Proc |-> FALSE]
    /\ opened = [p \in Proc |-> FALSE]
    /\ lock = NoProc
    /\ pidFile = NoProc
    /\ mirror = NoProc
    /\ appends = <<>>
    /\ others = 0
    /\ faults = {}
    /\ stopped = FALSE

Idle == {p \in Proc : pc[p] = "idle"}
Flushes == {p \in Proc : kind[p] = "flush" /\ pc[p] \in Commanding}

\* A hook, a key or a shell.  (A flush under way has its successor reserved.)
Launch(p, k) ==
    /\ pc[p] = "idle"
    /\ Cardinality(Idle) > Cardinality(Flushes) + (IF k = "flush" THEN 1 ELSE 0)
    /\ kind' = [kind EXCEPT ![p] = k]
    /\ pc' = [pc EXCEPT ![p] = IF k = "daemon" THEN "acquire" ELSE "read"]
    /\ stopped' = (stopped \/ k = "stop")
    /\ UNCHANGED <<target, stop, opened, lock, disk, faults>>

-----------------------------------------------------------------------------
(* _stop_running(), of stop, flush and daemon --restart.                   *)

Returned(p, ok) ==
    pc' = [pc EXCEPT ![p] = CASE kind[p] = "restart" -> "acquire"
                              [] kind[p] = "flush" /\ ok -> "spawn"
                              [] OTHER -> "ended"]

ReadHolder(p) ==
    /\ pc[p] = "read"
    /\ target' = [target EXCEPT ![p] = pidFile]
    /\ IF Alive(pidFile) THEN pc' = [pc EXCEPT ![p] = "signal"] ELSE Returned(p, FALSE)
    /\ UNCHANGED <<kind, stop, opened, lock, disk, history>>

\* SIGTERM sets the flag of a daemon that has its handlers, and ends one that
\* has not; a zombie takes it without effect.
Signal(p) ==
    /\ pc[p] = "signal"
    /\ LET t == target[p] IN
       CASE pc[t] = "named" ->
                /\ pc' = [pc EXCEPT ![p] = "wait", ![t] = "gone"]
                /\ lock' = NoProc
                /\ UNCHANGED stop
         [] pc[t] \in Loop ->
                /\ pc' = [pc EXCEPT ![p] = "wait"]
                /\ stop' = [stop EXCEPT ![t] = TRUE]
                /\ UNCHANGED lock
         [] pc[t] = "zombie" ->
                pc' = [pc EXCEPT ![p] = "wait"] /\ UNCHANGED <<stop, lock>>
         [] pc[t] = "gone" ->
                Returned(p, FALSE) /\ UNCHANGED <<stop, lock>>
    /\ UNCHANGED <<kind, target, opened, disk, history>>

\* Who goes on at once finds the lock still taken.
ProbeNothing(p) ==
    /\ pc[p] = "wait"
    /\ Returned(p, TRUE)
    /\ UNCHANGED <<kind, target, stop, opened, lock, disk, history>>

\* The wait is for the lock, not for the pid.
Probe(p) ==
    /\ pc[p] = "wait"
    /\ lock = NoProc
    /\ lock' = p
    /\ pc' = [pc EXCEPT ![p] = "probed"]
    /\ UNCHANGED <<kind, target, stop, opened, disk, history>>

ReleaseProbe(p) ==
    /\ pc[p] = "probed"
    /\ lock' = NoProc
    /\ Returned(p, TRUE)
    /\ UNCHANGED <<kind, target, stop, opened, disk, history>>

\* Another daemon has taken the lock and keeps it: 10 s pass.
GiveUp(p) ==
    /\ pc[p] = "wait"
    /\ lock # NoProc
    /\ pc[lock] = "loop" /\ ~stop[lock]
    /\ Returned(p, FALSE)
    /\ UNCHANGED <<kind, target, stop, opened, lock, disk, history>>

\* The daemon needs more than 10 s to stop.
GiveUpOnSlow(p) ==
    /\ MayFail("slow")
    /\ pc[p] = "wait"
    /\ lock = target[p]
    /\ Returned(p, FALSE)
    /\ faults' = faults \cup {[what |-> "slow", proc |-> p]}
    /\ stopped' = TRUE
    /\ UNCHANGED <<kind, target, stop, opened, lock, disk>>

\* cmd_flush() launches a daemon and does not wait for it.
Spawn(p) ==
    /\ pc[p] = "spawn"
    /\ \E q \in Idle :
        /\ pc' = [pc EXCEPT ![p] = "ended", ![q] = "acquire"]
        /\ kind' = [kind EXCEPT ![q] = "daemon"]
    /\ UNCHANGED <<target, stop, opened, lock, disk, history>>

-----------------------------------------------------------------------------
(* cmd_daemon() and run_loop().                                            *)

\* A start that finds the lock taken ends, with or without a message.
Acquire(p) ==
    /\ pc[p] = "acquire"
    /\ IF lock = NoProc
       THEN lock' = p /\ pc' = [pc EXCEPT ![p] = "claimed"]
       ELSE pc' = [pc EXCEPT ![p] = "ended"] /\ UNCHANGED lock
    /\ UNCHANGED <<kind, target, stop, opened, disk, history>>

WritePid(p) ==
    /\ pc[p] = "claimed"
    /\ pidFile' = p
    /\ pc' = [pc EXCEPT ![p] = "named"]
    /\ UNCHANGED <<kind, target, stop, opened, lock, mirror, appends, others, history>>

InstallHandlers(p) ==
    /\ pc[p] = "named"
    /\ pc' = [pc EXCEPT ![p] = "recover"]
    /\ UNCHANGED <<kind, target, stop, opened, lock, disk, history>>

\* append_entry(): a short write is no error to it.
Appended(e) ==
    \/ /\ appends' = Append(appends, [of |-> e, length |-> Len(Line(e))])
       /\ UNCHANGED faults
    \/ /\ MayFail("short")
       /\ \E n \in 0..(Len(Line(e)) - 1) :
              appends' = Append(appends, [of |-> e, length |-> n])
       /\ faults' = faults \cup {[what |-> "short", proc |-> e]}

Recover(p) ==
    /\ pc[p] = "recover"
    /\ IF mirror = NoProc
       THEN pc' = [pc EXCEPT ![p] = "loop"] /\ UNCHANGED <<appends, faults>>
       ELSE pc' = [pc EXCEPT ![p] = "recoverClear"] /\ Appended(mirror)
    /\ UNCHANGED <<kind, target, stop, opened, lock, pidFile, mirror, others, stopped>>

ClearRecovered(p) ==
    /\ pc[p] = "recoverClear"
    /\ mirror' = NoProc
    /\ pc' = [pc EXCEPT ![p] = "loop"]
    /\ UNCHANGED <<kind, target, stop, opened, lock, pidFile, appends, others, history>>

OpenSegment(p) ==
    /\ pc[p] = "loop"
    /\ ~stop[p] /\ ~opened[p]
    /\ opened' = [opened EXCEPT ![p] = TRUE]
    /\ mirror' = p
    /\ UNCHANGED <<pc, kind, target, stop, lock, pidFile, appends, others, history>>

LeaveUnlocking(p) ==
    /\ pc[p] = "loop"
    /\ stop[p]
    /\ lock' = IF opened[p] THEN NoProc ELSE lock
    /\ IF opened[p]
       THEN pc' = [pc EXCEPT ![p] = "clear"] /\ Appended(p)
       ELSE pc' = [pc EXCEPT ![p] = "release"] /\ UNCHANGED <<appends, faults>>
    /\ UNCHANGED <<kind, target, stop, opened, pidFile, mirror, others, stopped>>

\* The finally clause of run_loop: the open segment is appended ...
Leave(p) ==
    /\ pc[p] = "loop"
    /\ stop[p]
    /\ IF opened[p]
       THEN pc' = [pc EXCEPT ![p] = "clear"] /\ Appended(p)
       ELSE pc' = [pc EXCEPT ![p] = "release"] /\ UNCHANGED <<appends, faults>>
    /\ UNCHANGED <<kind, target, stop, opened, lock, pidFile, mirror, others, stopped>>

\* ... and current.json removed.
ClearMirror(p) ==
    /\ pc[p] = "clear"
    /\ mirror' = NoProc
    /\ pc' = [pc EXCEPT ![p] = "release"]
    /\ UNCHANGED <<kind, target, stop, opened, lock, pidFile, appends, others, history>>

\* The lock is the last thing to go; the pid stays in the file.
Release(p) ==
    /\ pc[p] = "release"
    /\ lock' = NoProc
    /\ pc' = [pc EXCEPT ![p] = "zombie"]
    /\ UNCHANGED <<kind, target, stop, opened, disk, history>>

\* The parent waits for its child, or the process has no parent but init.
Reap(p) ==
    /\ pc[p] = "zombie"
    /\ pc' = [pc EXCEPT ![p] = "gone"]
    /\ UNCHANGED <<kind, target, stop, opened, lock, disk, history>>

-----------------------------------------------------------------------------

Kill(p) ==
    /\ MayFail("kill")
    /\ pc[p] \in Daemons
    /\ pc' = [pc EXCEPT ![p] = "zombie"]
    /\ lock' = IF lock = p THEN NoProc ELSE lock
    /\ faults' = faults \cup {[what |-> "kill", proc |-> p]}
    /\ UNCHANGED <<kind, target, stop, opened, disk, stopped>>

OtherAppends ==
    /\ others < MaxOther
    /\ Appended(Other)
    /\ others' = others + 1
    /\ UNCHANGED <<memory, lock, pidFile, mirror, stopped>>

Step(p) ==
    \/ ReadHolder(p) \/ Signal(p) \/ Probe(p) \/ ReleaseProbe(p) \/ GiveUp(p) \/ Spawn(p)
    \/ Acquire(p) \/ WritePid(p) \/ InstallHandlers(p) \/ Recover(p) \/ ClearRecovered(p)
    \/ Leave(p) \/ ClearMirror(p) \/ Release(p)

Next ==
    \/ \E p \in Proc :
        \/ Step(p) \/ OpenSegment(p) \/ Reap(p) \/ Kill(p) \/ GiveUpOnSlow(p)
        \/ \E k \in Kinds : Launch(p, k)
    \/ OtherAppends

Spec == Init /\ [][Next]_vars

-----------------------------------------------------------------------------

InJournal(p) == \E i \in DOMAIN appends : appends[i].of = p

\* When stop, flush or restart has seen the lock free, the daemon it signalled
\* has written the entry it had open, and removed it from current.json
\* (main.py:285-287): "flushed" is true.  Of a daemon that was killed, the entry
\* is in one of the two.
FlushedMeansWritten ==
    \A p \in Proc : pc[p] = "probed" =>
        LET t == target[p] IN
        /\ pc[t] \in Gone
        /\ opened[t] => InJournal(t) \/ mirror = t
        /\ t \notin Killed => mirror # t

AtRest == \A p \in Proc : pc[p] \in {"idle"} \cup Gone \/ (pc[p] = "loop" /\ ~stop[p])

\* flush and restart leave a daemon behind, also next to each other and next to
\* a hook: a process that fails on the lock does so because of one that runs or
\* because of a probe whose process goes on to launch one (main.py:309-313).
\* Only a stop, a kill, and a daemon that needs more than 10 s to stop leave none.
SomeoneRuns ==
    AtRest /\ ~stopped /\ Killed = {} /\ (\E p \in Proc : pc[p] # "idle" /\ kind[p] # "flush")
        => \E p \in Proc : pc[p] = "loop"

\* Every write that was cut short costs the report at most one entry more than
\* its own, in whatever session that was written (store.py:8-10, 44-45).
ShortWriteCostsOneMore ==
    Cardinality({i \in DOMAIN appends : Whole(appends[i])})
        - Cardinality(GoodLines(Text(appends)))
    <= Cardinality({i \in DOMAIN appends : ~Whole(appends[i])})
==============================================================================
