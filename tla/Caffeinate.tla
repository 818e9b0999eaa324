------------------------------ MODULE Caffeinate ------------------------------
(***************************************************************************)
(* agent-caffeinate/src: the processes of one Herdr session (main.py,      *)
(* daemonize.py), the inhibitor each daemon spawns (inhibitor.py) and the  *)
(* grace period after which it is released (tracker.py).                   *)
(*                                                                         *)
(* Processes share the session's directory: the flock on daemon.lock, the  *)
(* pid written in it, daemon.json (its age is all a taker reads of it) and *)
(* inhibitor.json.  Each access to one of them is a step of its own.       *)
(*                                                                         *)
(* Time: one Tick is one clock unit.  A process that is not stuck does     *)
(* everything except waiting in less than a unit; `wedged` is the set of   *)
(* the processes that are stuck.  An inhibitor is named after the daemon   *)
(* that spawned it: start() never runs two, and a daemon that ends one     *)
(* removes its record before it spawns the next.                           *)
(***************************************************************************)
EXTENDS Integers, FiniteSets

CONSTANTS
    Procs,          \* the processes that can run; a pid is never recycled
    NoProc,         \* no process: a free lock, an absent file
    PollInterval,   \* pollIntervalSec
    Grace,          \* idleGraceSec
    StaleAfter,     \* _staleness_bounds: when a status is stale
    ConfirmDelay,   \* _staleness_bounds: how long a takeover looks again
    Faults,         \* the kinds of fault that can happen
    MaxFaults       \* bound: how many

ASSUME ProcAssumption == NoProc \notin Procs

ASSUME TimingAssumption ==
    /\ PollInterval \in Nat \ {0}
    /\ Grace \in Nat
    /\ StaleAfter \in Nat /\ StaleAfter > PollInterval
    /\ ConfirmDelay \in Nat /\ ConfirmDelay > PollInterval
    /\ MaxFaults \in Nat

VARIABLES
    pc,             \* where each process is
    kind,           \* "daemon", "restart" or "stop"; restart becomes daemon
    target,         \* the pid each process read from the lock file
    mem,            \* the daemon's stop flag, sleep and tracker
    lock,           \* the owner of the flock on daemon.lock
    pidfile,        \* the pid in daemon.lock
    age,            \* the age of daemon.json; NoStatus when it is not there
    inhibitors,     \* the daemons whose inhibitor process is alive
    recorded,       \* inhibitor.json: whose inhibitor it names
    server,         \* what a snapshot would find: "up", "gone" or "garbled"
    working,        \* whether some pane has an active status
    wedged,         \* the processes that are stuck
    faults,         \* the faults so far
    silent,         \* history: stuck or answered garbage since its last report
    unrecorded,     \* history: the inhibitors that no record will lead to
    quiet           \* history: time since a poll found an active pane, while an
                    \* inhibitor runs

files == <<pidfile, age, recorded>>
environment == <<server, working>>
history == <<silent, unrecorded, quiet>>
vars == <<pc, kind, target, mem, lock, files, inhibitors, environment, wedged, faults,
          history>>

-----------------------------------------------------------------------------

NoStatus == -1

NotIdle == -1

\* The longest quiet told apart.
QuietCap == Grace + PollInterval + 1

Fresh == [stop |-> FALSE, leaving |-> FALSE, nap |-> 0, holding |-> FALSE, idle |-> NotIdle]

\* The places where SIGTERM sets the stop flag: the handlers are installed.
Looping == {"adopt", "reaped", "poll", "backoff", "spawn", "record", "release",
            "unrecord", "report", "exit"}

\* The places between acquire() and the handlers.
Starting == {"claimed", "named"}

Ended == {"none", "done", "dead"}

Commanding == {"stopping", "signal", "await", "probed", "acquire", "rejected",
               "takeover", "confirm", "term", "termwait", "killwait"}

Alive(p) == p \in Procs /\ pc[p] \notin Ended

IsStale == age >= StaleAfter

\* A daemon that hands back its lock soon after SIGTERM.
Responsive(p) == p = lock /\ p \notin wedged /\ pc[p] # "backoff"

Runs(p) == Alive(p) /\ p \notin wedged

At(p, place) == Runs(p) /\ pc[p] = place

Goto(p, place) == pc' = [pc EXCEPT ![p] = place]

\* _stop_running() or _take_over() returns: its target is of no more use.
Forget(p) ==
    /\ target' = [target EXCEPT ![p] = NoProc]
    /\ kind' = [kind EXCEPT ![p] = "daemon"]

Init ==
    /\ pc = [p \in Procs |-> "none"]
    /\ kind = [p \in Procs |-> "daemon"]
    /\ target = [p \in Procs |-> NoProc]
    /\ mem = [p \in Procs |-> Fresh]
    /\ lock = NoProc
    /\ pidfile = NoProc
    /\ age = NoStatus
    /\ inhibitors = {}
    /\ recorded = NoProc
    /\ server = "up"
    /\ working = FALSE
    /\ wedged = {}
    /\ faults = 0
    /\ silent = {}
    /\ unrecorded = {}
    /\ quiet = 0

-----------------------------------------------------------------------------
\* Signals and the end of a process.

\* The kernel closes the files of a process that dies, and with them the lock.
\* A daemon that dies between Popen and _write_state leaves no record of its
\* inhibitor.
Dies(q) ==
    /\ lock' = IF lock = q THEN NoProc ELSE lock
    /\ mem' = [mem EXCEPT ![q] = Fresh]
    /\ wedged' = wedged \ {q}
    /\ silent' = silent \ {q}
    /\ unrecorded' = IF pc[q] = "record" THEN unrecorded \cup {q} ELSE unrecorded

Survives == UNCHANGED <<lock, mem, wedged, silent, unrecorded>>

SigtermUnhandled(p, q, place) ==
    IF Alive(q)
    THEN /\ pc' = [pc EXCEPT ![p] = place, ![q] = "dead"]
         /\ Dies(q)
    ELSE Goto(p, place) /\ Survives

\* p sends SIGTERM to q and goes on to `place`.
Sigterm(p, q, place) ==
    IF Alive(q) /\ pc[q] \notin Looping
    THEN /\ pc' = [pc EXCEPT ![p] = place, ![q] = "dead"]
         /\ Dies(q)
    ELSE /\ Goto(p, place)
         /\ mem' = IF Alive(q) THEN [mem EXCEPT ![q].stop = TRUE] ELSE mem
         /\ UNCHANGED <<lock, wedged, silent, unrecorded>>

\* p sends SIGKILL to q and goes on to `place`.
Sigkill(p, q, place) ==
    IF Alive(q)
    THEN /\ pc' = [pc EXCEPT ![p] = place, ![q] = "dead"]
         /\ Dies(q)
    ELSE Goto(p, place) /\ Survives

-----------------------------------------------------------------------------
\* `stop`, and the first half of `daemon --restart`: _stop_running().

AfterStopping(p) == IF kind[p] = "restart" THEN "acquire" ELSE "done"

ReadHolder(p) ==
    /\ At(p, "stopping")
    /\ target' = [target EXCEPT ![p] = pidfile]
    /\ Goto(p, IF Alive(pidfile) THEN "signal" ELSE AfterStopping(p))
    /\ UNCHANGED <<kind, mem, lock, files, inhibitors, environment, wedged, faults, history>>

SignalHolder(p) ==
    /\ At(p, "signal")
    /\ Sigterm(p, target[p], IF Alive(target[p]) THEN "await" ELSE AfterStopping(p))
    /\ UNCHANGED <<kind, target, files, inhibitors, environment, faults, quiet>>

\* The wait is for the lock: it is acquired and then released again.
ProbeLock(p) ==
    /\ At(p, "await")
    /\ lock = NoProc
    /\ lock' = p
    /\ Goto(p, "probed")
    /\ UNCHANGED <<kind, target, mem, files, inhibitors, environment, wedged, faults, history>>

StopTimesOutIfDead(p) ==
    /\ At(p, "await")
    /\ lock # NoProc
    /\ ~Alive(target[p])
    /\ Goto(p, AfterStopping(p))
    /\ Forget(p)
    /\ UNCHANGED <<mem, lock, files, inhibitors, environment, wedged, faults,
                   history>>

\* Ten seconds have passed.
StopTimesOut(p) ==
    /\ At(p, "await")
    /\ lock # NoProc
    /\ ~Responsive(target[p])
    /\ Goto(p, AfterStopping(p))
    /\ Forget(p)
    /\ UNCHANGED <<mem, lock, files, inhibitors, environment, wedged, faults,
                   history>>

ReleaseProbe(p) ==
    /\ At(p, "probed")
    /\ lock' = NoProc
    /\ Goto(p, AfterStopping(p))
    /\ Forget(p)
    /\ UNCHANGED <<mem, files, inhibitors, environment, wedged, faults, history>>

-----------------------------------------------------------------------------
\* cmd_daemon up to the loop, and _take_over().

Acquire(p) ==
    /\ At(p, "acquire")
    /\ IF lock = NoProc
       THEN lock' = p /\ Goto(p, "claimed")
       ELSE Goto(p, "rejected") /\ UNCHANGED lock
    /\ UNCHANGED <<kind, target, mem, files, inhibitors, environment, wedged, faults, history>>

\* A holder that reports, or of which nothing is known, is left alone.
JudgeHolder(p) ==
    /\ At(p, "rejected")
    /\ Goto(p, IF IsStale THEN "takeover" ELSE "done")
    /\ UNCHANGED <<kind, target, mem, lock, files, inhibitors, environment, wedged, faults,
                   history>>

ReadTargetWithoutDelay(p) ==
    /\ At(p, "takeover")
    /\ target' = [target EXCEPT ![p] = pidfile]
    /\ Goto(p, "confirm")
    /\ UNCHANGED <<kind, mem, lock, files, inhibitors, environment, wedged, faults, history>>

ReadTarget(p) ==
    /\ At(p, "takeover")
    /\ target' = [target EXCEPT ![p] = pidfile]
    /\ mem' = [mem EXCEPT ![p].nap = ConfirmDelay]
    /\ Goto(p, "confirm")
    /\ UNCHANGED <<kind, lock, files, inhibitors, environment, wedged, faults, history>>

HolderRecovered(p) ==
    /\ At(p, "confirm")
    /\ age # NoStatus /\ ~IsStale
    /\ mem' = [mem EXCEPT ![p] = Fresh]
    /\ Goto(p, "done")
    /\ Forget(p)
    /\ UNCHANGED <<lock, files, inhibitors, environment, wedged, faults, history>>

ConfirmedIgnoringLock(p) ==
    /\ At(p, "confirm")
    /\ mem[p].nap = 0
    /\ IsStale
    /\ IF Alive(target[p])
       THEN Goto(p, "term") /\ UNCHANGED lock
       ELSE Goto(p, "claimed") /\ lock' = p
    /\ UNCHANGED <<kind, target, mem, files, inhibitors, environment, wedged, faults, history>>

\* Still stale after the delay.  A holder that died meanwhile leaves the lock
\* to whoever comes first.
Confirmed(p) ==
    /\ At(p, "confirm")
    /\ mem[p].nap = 0
    /\ IsStale
    /\ IF Alive(target[p])
       THEN Goto(p, "term") /\ UNCHANGED lock
       ELSE IF lock = NoProc
            THEN Goto(p, "claimed") /\ lock' = p
            ELSE Goto(p, "done") /\ UNCHANGED lock
    /\ UNCHANGED <<kind, target, mem, files, inhibitors, environment, wedged, faults, history>>

TerminateHolder(p) ==
    /\ At(p, "term")
    /\ Sigterm(p, target[p], "termwait")
    /\ UNCHANGED <<kind, target, files, inhibitors, environment, faults, quiet>>

TakeLock(p) ==
    /\ At(p, "termwait") \/ At(p, "killwait")
    /\ lock = NoProc
    /\ lock' = p
    /\ Goto(p, "claimed")
    /\ UNCHANGED <<kind, target, mem, files, inhibitors, environment, wedged, faults, history>>

KillHolderPolitely(p) ==
    /\ At(p, "termwait")
    /\ lock # NoProc
    /\ ~Responsive(target[p])
    /\ Sigterm(p, target[p], "killwait")
    /\ UNCHANGED <<kind, target, files, inhibitors, environment, faults, quiet>>

\* Five seconds after SIGTERM.
KillHolder(p) ==
    /\ At(p, "termwait")
    /\ lock # NoProc
    /\ ~Responsive(target[p])
    /\ Sigkill(p, target[p], "killwait")
    /\ UNCHANGED <<kind, target, files, inhibitors, environment, faults, quiet>>

\* Two seconds after SIGKILL: another process has the lock.
GiveUp(p) ==
    /\ At(p, "killwait")
    /\ lock # NoProc
    /\ Goto(p, "done")
    /\ Forget(p)
    /\ UNCHANGED <<mem, lock, files, inhibitors, environment, wedged, faults,
                   history>>

WritePid(p) ==
    /\ At(p, "claimed")
    /\ pidfile' = p
    /\ mem' = [mem EXCEPT ![p] = Fresh]
    /\ Goto(p, "named")
    /\ Forget(p)
    /\ UNCHANGED <<lock, age, recorded, inhibitors, environment, wedged, faults,
                   history>>

InstallHandlers(p) ==
    /\ At(p, "named")
    /\ Goto(p, "adopt")
    /\ UNCHANGED <<kind, target, mem, lock, files, inhibitors, environment, wedged, faults,
                   history>>

-----------------------------------------------------------------------------
\* run_loop and the inhibitor.

AdoptWithoutReaping(p) ==
    /\ At(p, "adopt")
    /\ recorded' = NoProc
    /\ Goto(p, "poll")
    /\ UNCHANGED <<kind, target, mem, lock, pidfile, age, inhibitors, environment, wedged,
                   faults, history>>

\* _terminate(): a TERM, then a KILL; it returns when the inhibitor is gone.
Terminated(q) == inhibitors' = inhibitors \ {q}

\* adopt_stale(): the inhibitor on record is killed if it is alive; a record
\* of one that is not is removed.
AdoptStale(p) ==
    /\ At(p, "adopt")
    /\ IF recorded \in inhibitors
       THEN /\ Terminated(recorded)
            /\ Goto(p, "reaped")
            /\ UNCHANGED recorded
       ELSE /\ recorded' = NoProc
            /\ Goto(p, "poll")
            /\ UNCHANGED inhibitors
    /\ UNCHANGED <<kind, target, mem, lock, pidfile, age, environment, wedged, faults, history>>

\* inhibitorCommand has changed: the record does not match and is removed.  It
\* takes another fault to leave such a record, so this one is not counted.
AdoptMismatch(p) ==
    /\ "config" \in Faults
    /\ At(p, "adopt")
    /\ recorded \in inhibitors
    /\ recorded' = NoProc
    /\ unrecorded' = unrecorded \cup {recorded}
    /\ Goto(p, "poll")
    /\ UNCHANGED <<kind, target, mem, lock, pidfile, age, inhibitors, environment, wedged,
                   faults, silent, quiet>>

ClearReaped(p) ==
    /\ At(p, "reaped")
    /\ recorded' = NoProc
    /\ Goto(p, "poll")
    /\ UNCHANGED <<kind, target, mem, lock, pidfile, age, inhibitors, environment, wedged,
                   faults, history>>

\* The loop goes round: it is not asked to stop, and its sleep is over.
Polls(p) ==
    /\ At(p, "poll") \/ At(p, "backoff")
    /\ ~mem[p].stop
    /\ mem[p].nap = 0

UpdatedKeepingIdle(m) ==
    IF working
    THEN [m EXCEPT !.holding = TRUE]
    ELSE LET idle == IF m.idle = NotIdle THEN 0 ELSE m.idle
         IN  [m EXCEPT !.idle = idle, !.holding = @ /\ idle < Grace]

\* Tracker.update().
Updated(m) ==
    IF working
    THEN [m EXCEPT !.idle = NotIdle, !.holding = TRUE]
    ELSE LET idle == IF m.idle = NotIdle THEN 0 ELSE m.idle
         IN  [m EXCEPT !.idle = idle, !.holding = @ /\ idle < Grace]

NextWakeupIgnoringStop(m) == PollInterval

\* Tracker.next_wakeup(): the poll interval, or less if a release is due.
NextWakeup(m) ==
    IF m.holding /\ m.idle # NotIdle /\ Grace - m.idle < PollInterval
    THEN Grace - m.idle ELSE PollInterval

PollServer(p) ==
    /\ Polls(p)
    /\ server = "up"
    /\ LET m == Updated(mem[p])
       IN  /\ mem' = [mem EXCEPT ![p] = m]
           /\ Goto(p, IF m.holding = mem[p].holding THEN "report"
                      ELSE IF m.holding THEN "spawn" ELSE "release")
    /\ quiet' = IF working THEN 0 ELSE quiet
    /\ UNCHANGED <<kind, target, lock, files, inhibitors, environment, wedged, faults, silent,
                   unrecorded>>

\* ProtocolError: no report, and a sleep that the stop flag does not end.
PollGarbled(p) ==
    /\ Polls(p)
    /\ server = "garbled"
    /\ mem' = [mem EXCEPT ![p].nap = PollInterval]
    /\ Goto(p, "backoff")
    /\ silent' = silent \cup {p}
    /\ UNCHANGED <<kind, target, lock, files, inhibitors, environment, wedged, faults,
                   unrecorded, quiet>>

LeaveWithoutRelease(p) ==
    /\ \/ Polls(p) /\ server = "gone"
       \/ At(p, "poll") /\ mem[p].stop
       \/ At(p, "backoff") /\ mem[p].stop /\ mem[p].nap = 0
    /\ mem' = [mem EXCEPT ![p].leaving = TRUE]
    /\ Goto(p, "report")
    /\ UNCHANGED <<kind, target, lock, files, inhibitors, environment, wedged, faults, history>>

LeaveOnlyWhenStopped(p) ==
    /\ \/ At(p, "poll") /\ mem[p].stop
       \/ At(p, "backoff") /\ mem[p].stop /\ mem[p].nap = 0
    /\ mem' = [mem EXCEPT ![p].leaving = TRUE]
    /\ Goto(p, "release")
    /\ UNCHANGED <<kind, target, lock, files, inhibitors, environment, wedged, faults, history>>

\* ServerGone, or the stop flag: the finally clause releases the inhibitor.
Leave(p) ==
    /\ \/ Polls(p) /\ server = "gone"
       \/ At(p, "poll") /\ mem[p].stop
       \/ At(p, "backoff") /\ mem[p].stop /\ mem[p].nap = 0
    /\ mem' = [mem EXCEPT ![p].leaving = TRUE]
    /\ Goto(p, "release")
    /\ UNCHANGED <<kind, target, lock, files, inhibitors, environment, wedged, faults, history>>

\* Popen.
Spawn(p) ==
    /\ At(p, "spawn")
    /\ inhibitors' = inhibitors \cup {p}
    /\ Goto(p, IF p \in inhibitors THEN "report" ELSE "record")
    /\ UNCHANGED <<kind, target, mem, lock, files, environment, wedged, faults, history>>

SpawnFails(p) ==
    /\ "spawn" \in Faults /\ faults < MaxFaults
    /\ At(p, "spawn")
    /\ faults' = faults + 1
    /\ Goto(p, "report")
    /\ UNCHANGED <<kind, target, mem, lock, files, inhibitors, environment, wedged, history>>

\* _write_state().
Record(p) ==
    /\ At(p, "record")
    /\ recorded' = p
    /\ Goto(p, "report")
    /\ UNCHANGED <<kind, target, mem, lock, pidfile, age, inhibitors, environment, wedged,
                   faults, history>>

RecordFails(p) ==
    /\ "record" \in Faults /\ faults < MaxFaults
    /\ At(p, "record")
    /\ faults' = faults + 1
    /\ unrecorded' = unrecorded \cup {p}
    /\ Goto(p, "report")
    /\ UNCHANGED <<kind, target, mem, lock, files, inhibitors, environment, wedged, silent,
                   quiet>>

\* stop(): the inhibitor is terminated, if it still runs.
Release(p) ==
    /\ At(p, "release")
    /\ Terminated(p)
    /\ Goto(p, "unrecord")
    /\ UNCHANGED <<kind, target, mem, lock, files, environment, wedged, faults, history>>

\* _clear_state().
Unrecord(p) ==
    /\ At(p, "unrecord")
    /\ recorded' = NoProc
    /\ Goto(p, "report")
    /\ UNCHANGED <<kind, target, mem, lock, pidfile, age, inhibitors, environment, wedged,
                   faults, history>>

\* _write_status(), and the sleep of the loop.
Report(p) ==
    /\ At(p, "report")
    /\ age' = 0
    /\ silent' = silent \ {p}
    /\ IF mem[p].leaving
       THEN Goto(p, "exit") /\ UNCHANGED mem
       ELSE /\ Goto(p, "poll")
            /\ mem' = [mem EXCEPT ![p].nap = NextWakeup(mem[p])]
    /\ UNCHANGED <<kind, target, lock, pidfile, recorded, inhibitors, environment, wedged,
                   faults, unrecorded, quiet>>

Exit(p) ==
    /\ At(p, "exit")
    /\ lock' = NoProc
    /\ mem' = [mem EXCEPT ![p] = Fresh]
    /\ Goto(p, "done")
    /\ UNCHANGED <<kind, target, files, inhibitors, environment, wedged, faults, history>>

-----------------------------------------------------------------------------
\* The environment.

Launch(p, k) ==
    /\ pc[p] = "none"
    /\ kind' = [kind EXCEPT ![p] = k]
    /\ Goto(p, IF k = "daemon" THEN "acquire" ELSE "stopping")
    /\ UNCHANGED <<target, mem, lock, files, inhibitors, environment, wedged, faults, history>>

\* A process that only waits lets time pass.
Waits(p) ==
    \/ pc[p] = "poll" /\ mem[p].nap > 0 /\ ~mem[p].stop
    \/ pc[p] = "backoff" /\ mem[p].nap > 0
    \/ pc[p] = "confirm" /\ mem[p].nap > 0 /\ IsStale
    \/ pc[p] \in {"await", "termwait", "killwait"} /\ lock # NoProc

AtMost(n, bound) == IF n < bound THEN n ELSE bound

Older(m) ==
    [m EXCEPT !.nap = IF @ > 0 THEN @ - 1 ELSE 0,
              !.idle = IF @ = NotIdle THEN @ ELSE AtMost(@ + 1, Grace)]

Tick ==
    /\ \A p \in Procs : Runs(p) => Waits(p)
    /\ mem' = [p \in Procs |-> IF Alive(p) THEN Older(mem[p]) ELSE mem[p]]
    /\ age' = IF age = NoStatus THEN age ELSE AtMost(age + 1, StaleAfter)
    /\ quiet' = IF inhibitors = {} THEN 0 ELSE AtMost(quiet + 1, QuietCap)
    /\ UNCHANGED <<pc, kind, target, lock, pidfile, recorded, inhibitors, environment, wedged,
                   faults, silent, unrecorded>>

ServerChanges(s) ==
    /\ s # server
    /\ server' = s
    /\ s = "garbled" => "garbled" \in Faults /\ faults < MaxFaults
    /\ faults' = IF s = "garbled" THEN faults + 1 ELSE faults
    /\ UNCHANGED <<pc, kind, target, mem, lock, files, inhibitors, working, wedged, history>>

AgentsChange ==
    /\ working' = ~working
    /\ UNCHANGED <<pc, kind, target, mem, lock, files, inhibitors, server, wedged, faults,
                   history>>

\* Only a process that has the lock keeps others waiting when it is stuck.
Wedge(p) ==
    /\ "wedge" \in Faults /\ faults < MaxFaults
    /\ Runs(p) /\ lock = p
    /\ wedged' = wedged \cup {p}
    /\ silent' = silent \cup {p}
    /\ faults' = faults + 1
    /\ UNCHANGED <<pc, kind, target, mem, lock, files, inhibitors, environment, unrecorded,
                   quiet>>

Unwedge(p) ==
    /\ p \in wedged
    /\ wedged' = wedged \ {p}
    /\ UNCHANGED <<pc, kind, target, mem, lock, files, inhibitors, environment, faults, history>>

Kill(p) ==
    /\ "kill" \in Faults /\ faults < MaxFaults
    /\ Alive(p)
    /\ Goto(p, "dead")
    /\ Dies(p)
    /\ faults' = faults + 1
    /\ UNCHANGED <<kind, target, files, inhibitors, environment, quiet>>

InhibitorDies(p) ==
    /\ "child" \in Faults /\ faults < MaxFaults
    /\ p \in inhibitors
    /\ inhibitors' = inhibitors \ {p}
    /\ faults' = faults + 1
    /\ UNCHANGED <<pc, kind, target, mem, lock, files, environment, wedged, history>>

\* The machine sleeps: the wall clock, by which naps and ages are told, leaps.
MachineSleeps ==
    /\ "sleep" \in Faults /\ faults < MaxFaults
    /\ age' = IF age = NoStatus THEN age ELSE StaleAfter
    /\ mem' = [p \in Procs |-> [mem[p] EXCEPT !.nap = 0]]
    /\ silent' = silent \cup {p \in Procs : Alive(p)}
    /\ faults' = faults + 1
    /\ UNCHANGED <<pc, kind, target, lock, pidfile, recorded, inhibitors, environment, wedged,
                   unrecorded, quiet>>

-----------------------------------------------------------------------------

Stopping(p) ==
    ReadHolder(p) \/ SignalHolder(p) \/ ProbeLock(p) \/ StopTimesOut(p) \/ ReleaseProbe(p)

Claiming(p) ==
    \/ Acquire(p) \/ JudgeHolder(p) \/ ReadTarget(p) \/ HolderRecovered(p) \/ Confirmed(p)
    \/ TerminateHolder(p) \/ TakeLock(p) \/ KillHolder(p) \/ GiveUp(p)
    \/ WritePid(p) \/ InstallHandlers(p)

Running(p) ==
    \/ AdoptStale(p) \/ ClearReaped(p) \/ PollServer(p) \/ PollGarbled(p) \/ Leave(p)
    \/ Spawn(p) \/ Record(p) \/ Release(p) \/ Unrecord(p) \/ Report(p) \/ Exit(p)

Step(p) == Stopping(p) \/ Claiming(p) \/ Running(p)

Environment ==
    \/ \E p \in Procs, k \in {"daemon", "restart", "stop"} : Launch(p, k)
    \/ Tick
    \/ \E s \in {"up", "gone", "garbled"} : ServerChanges(s)
    \/ AgentsChange

Fault ==
    \/ \E p \in Procs : Wedge(p) \/ Unwedge(p) \/ Kill(p) \/ InhibitorDies(p)
    \/ \E p \in Procs : SpawnFails(p) \/ RecordFails(p) \/ AdoptMismatch(p)
    \/ MachineSleeps

Next == (\E p \in Procs : Step(p)) \/ Environment \/ Fault

Spec == Init /\ [][Next]_vars

\* Processes that are not stuck run, and time passes.
FairSpec == Spec /\ WF_vars(Tick) /\ \A p \in Procs : WF_vars(Step(p))

-----------------------------------------------------------------------------

\* One daemon per Herdr server (daemonize.py:5-8), whatever starts, stops,
\* takeovers and kills are under way.
OneDaemon ==
    \A p, q \in Procs :
        pc[p] \in Starting \cup Looping /\ pc[q] \in Starting \cup Looping => p = q

\* Once a daemon polls, no other inhibitor than its own keeps the machine
\* awake, over any number of kills and takeovers: those of its predecessors
\* are reaped.  The exceptions are inhibitors that were never on record.
OrphansAreReaped ==
    \A p \in Procs : pc[p] \in Looping \ {"adopt"} => inhibitors \subseteq {p} \cup unrecorded

\* Who has let go of the lock, and was not killed, has released its inhibitor:
\* so when `stop` finds the lock free, nothing keeps the machine awake any more
\* (main.py:274-277), and a daemon that ends on its own strands no inhibitor.
UnlockedMeansReleased == \A p \in inhibitors : lock = p \/ pc[p] = "dead"

\* The inhibitors whose daemon is not there any more are no more than the faults
\* so far: a daemon killed between Popen and its record leaves one that nobody
\* will find (inhibitor.py:95-107), but no stop, restart or takeover adds one,
\* however they race, and a fault that befalls a daemon and its successors in
\* turn costs one and not one each.
StraysAreCounted == Cardinality(inhibitors \ {lock}) <= faults

\* p makes up its mind to displace q.
Condemns(p, q) ==
    Confirmed(p) /\ pc'[p] = "term" /\ q = target[p] /\ pc[q] \in Looping

\* A takeover never turns on a daemon that keeps reporting: only on one that
\* has been stuck, asleep or fed with garbage since its last report.
TakeoverSparesTheHealthy == [][\A p, q \in Procs : Condemns(p, q) => q \in silent]_vars

\* A running daemon releases its inhibitor only after idleGraceSec without an
\* active pane in any poll, however the agents flap.
NeverReleasedEarly ==
    [][\A p \in inhibitors : Release(p) /\ ~mem[p].leaving => quiet >= Grace]_vars

\* Without faults, an inhibitor outlives the last active poll by one poll
\* interval and idleGraceSec at most: the loop wakes for the release.
HeldNoLongerThanGrace ==
    faults = 0 =>
        \A p \in inhibitors : pc[p] = "poll" => quiet <= Grace + PollInterval

\* A daemon whose server is gone ends, unless it is stuck or the server is
\* back; with UnlockedMeansReleased, a dead server strands no inhibitor.
FollowsServer ==
    \A p \in Procs :
        (server = "gone" /\ pc[p] \in Looping) ~>
            (pc[p] \in Ended \/ server # "gone" \/ p \in wedged)

\* A takeover that goes ahead ends with the lock out of the wedged holder's
\* hands, unless the taker is killed.
WedgedIsDisplaced ==
    \A p, q \in Procs :
        (pc[p] = "term" /\ target[p] = q /\ lock = q) ~> (lock # q \/ pc[p] = "dead")

\* Every command comes to an end, or becomes the daemon.
CommandsEnd ==
    \A p \in Procs :
        pc[p] \in Commanding ~> (pc[p] \in Ended \cup Starting \cup Looping \/ p \in wedged)
==============================================================================
