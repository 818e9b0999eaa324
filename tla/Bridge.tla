-------------------------------- MODULE Bridge --------------------------------
(***************************************************************************)
(* bridge-keepawake: the launcher script with its flock, restart and       *)
(* foreground modes (bin/bridge-keepawake), the daemon that pings          *)
(* devc-bridge while some agent works (src/main.ts, bridge.ts, sock.ts),   *)
(* the files by which they know of each other (daemonize.ts), and what the *)
(* indicator tells the user from those files.                              *)
(*                                                                         *)
(* A launch is one run of the daemon pipeline: setsid, flock, deno.  The   *)
(* flock is on an open file that flock(1) and deno share, and the ping     *)
(* command too where deno lets it through: the lock is free when all of    *)
(* them are gone.  A pid in the pid file is that of the deno of a launch.  *)
(* Each access to the lock, a file, a process, the socket is a step of its *)
(* own, except that a status is put together, written and renamed in one.  *)
(***************************************************************************)
EXTENDS Naturals, FiniteSets

CONSTANTS
    MaxLaunches,    \* bound: how many launches
    StaleAfter,     \* staleAfterSec, of the poll interval
    HoldTime,       \* indicatorHoldSec
    PingKeepsLock   \* whether the ping command inherits the locked file

ASSUME BridgeAssumption ==
    /\ MaxLaunches \in Nat
    /\ StaleAfter \in Nat /\ HoldTime \in Nat
    /\ PingKeepsLock \in BOOLEAN

Launches == 1 .. MaxLaunches
NoLaunch == 0

VARIABLES
    pc,         \* where each launch is
    kind,       \* whether it is launched under "flock" or in the "foreground"
    mem,        \* each daemon's stop flag and lastActiveAt
    pinging,    \* the launches whose ping command runs
    pidFile,    \* daemon.pid
    status,     \* daemon.json
    command,    \* the `stop` or `daemon --restart` under way
    server,     \* the Herdr server: "up" or "gone"
    seen,       \* history: time since a poll last found an active pane
    pinged      \* history: time since a ping last succeeded

files == <<pidFile, status>>
history == <<seen, pinged>>
vars == <<pc, kind, mem, pinging, files, command, server, history>>

\* A time in a file, in memory or in history is kept as its age, up to the age from
\* which on nobody can tell; lastActiveAt is "idle".
LongIdle == HoldTime + 1
Unwritten == StaleAfter + 1

PingResults == {"ok", "failed"}
Statuses == [active : BOOLEAN, ping : {"none"} \cup PingResults,
             age : 0 .. Unwritten, idle : 0 .. LongIdle]
NoStatus == [active |-> FALSE, ping |-> "none", age |-> Unwritten, idle |-> LongIdle]
NoMemory == [stop |-> FALSE, idle |-> LongIdle]
NoCommand == [op |-> "none", pid |-> NoLaunch]

\* The loop, until the pid file is removed; deno before and in the loop; and what
\* keeps the locked file open: deno, until it has died, and flock(1), which waits
\* for it (deno is "dying" until it has been collected) and exits ("reaped").
InLoop == {"poll", "ping", "sleep", "final", "unlink"}
Running == {"init", "listen"} \cup InLoop
Locking == Running \cup {"dying", "reaped"}
Leaving == {"dying", "reaped", "gone"}

\* kill -0 of a launch's deno.
Alive(d) == d # NoLaunch /\ pc[d] \in Running \cup {"dying"}

Holds(d) ==
    /\ kind[d] = "flock"
    /\ pc[d] \in Locking \/ (PingKeepsLock /\ d \in pinging)
\* The shell trusts the pid file instead.
HolderOnRecord == Alive(pidFile)
LockHeld == \E d \in Launches : Holds(d)

\* staleAfterSec, and indicatorState.
Stale == status.age = StaleAfter
Indicator ==
    IF ~Alive(pidFile) \/ status.age = Unwritten THEN "absent"
    ELSE IF Stale THEN "wedged"
    ELSE IF status.ping = "failed" THEN "fault"
    ELSE IF status.active \/ status.idle <= HoldTime THEN "holding"
    ELSE "idle"

Init ==
    /\ pc = [d \in Launches |-> "unused"]
    /\ kind = [d \in Launches |-> "flock"]
    /\ mem = [d \in Launches |-> NoMemory]
    /\ pinging = {}
    /\ pidFile = NoLaunch
    /\ status = NoStatus
    /\ command = NoCommand
    /\ server = "up"
    /\ seen = LongIdle
    /\ pinged = StaleAfter

Go(d, from, to) == pc[d] = from /\ pc' = [pc EXCEPT ![d] = to]

\* Deno is about to be gone, with its memory.
Dies(d) == pc' = [pc EXCEPT ![d] = "dying"] /\ mem' = [mem EXCEPT ![d] = NoMemory]

(***************************************************************************)
(* The launcher script.                                                    *)
(***************************************************************************)
\* The next launch.  The script has returned before flock(1) runs.
Launch(k, first) ==
    \E d \in Launches :
        /\ \A e \in Launches : e < d => pc[e] # "unused"
        /\ Go(d, "unused", first)
        /\ kind' = [kind EXCEPT ![d] = k]
        /\ UNCHANGED <<mem, pinging, files, server, history>>

\* [[startup]] and workspace.focused: plain `daemon` and `--ensure` are the same.
Hook == server = "up" /\ Launch("flock", "spawned") /\ UNCHANGED command

\* `--foreground`: in a terminal, without a flock.
Foreground == Launch("foreground", "init") /\ UNCHANGED command

\* flock -n: silent when the lock is held.
TryLock(d) ==
    /\ \E from \in {"spawned", "respawned"} :
        Go(d, from, IF LockHeld THEN "gone" ELSE "init")
    /\ UNCHANGED <<kind, mem, pinging, files, command, server, history>>

\* Both commands look up the pid on record and send it a TERM if it is alive. It sets
\* the flag once the listeners are there; before, it kills.
SendTerm(op) ==
    /\ command = NoCommand /\ Alive(pidFile)
    /\ command' = [op |-> op, pid |-> pidFile]
    /\ IF pc[pidFile] \in {"init", "listen"} THEN Dies(pidFile)
       ELSE /\ mem' = [mem EXCEPT ![pidFile].stop = @ \/ pc[pidFile] \in InLoop]
            /\ UNCHANGED pc
    /\ UNCHANGED <<kind, pinging, files, server, history>>

\* The daemon is gone, or something it waits for has taken too long: the stop gives
\* up after 10 s, the restart sends a KILL after 5 s.
EndWait ==
    /\ command.op \in {"stop", "restart"}
    /\ ~Alive(command.pid) \/ pc[command.pid] \in {"poll", "ping"}
    /\ IF command.op = "stop" THEN command' = NoCommand
       ELSE command' = [op |-> "launch", pid |-> NoLaunch]
    /\ IF command.op = "restart" /\ Alive(command.pid) THEN Dies(command.pid)
       ELSE UNCHANGED <<pc, mem>>
    /\ UNCHANGED <<kind, pinging, files, server, history>>

\* "Then fall through to the normal flock-guarded start", at once if there was
\* nobody to signal.
Restart ==
    /\ command.op = "launch" \/ (command = NoCommand /\ ~Alive(pidFile))
    /\ command' = NoCommand
    /\ Launch("flock", IF command.op = "launch" THEN "respawned" ELSE "spawned")

(***************************************************************************)
(* The daemon.                                                             *)
(***************************************************************************)
\* cmdDaemon: the pid file is written without a look at what is in it.
WritePid(d) ==
    /\ Go(d, "init", "listen")
    /\ pidFile' = d
    /\ UNCHANGED <<kind, mem, pinging, status, command, server, history>>

\* A config error or a missing socket path: nothing has been written.
Refuse(d) ==
    /\ pc[d] = "init" /\ Dies(d)
    /\ UNCHANGED <<kind, pinging, files, command, server, history>>

\* The predecessor's status is not read.
BeginLoopAfresh(d) ==
    /\ Go(d, "listen", "poll")
    /\ UNCHANGED <<kind, mem, pinging, files, command, server, history>>

\* The signal listeners; then runLoop carries lastActiveAt over from the status of
\* its predecessor.
BeginLoop(d) ==
    /\ Go(d, "listen", "poll")
    /\ mem' = [mem EXCEPT ![d].idle = status.idle]
    /\ UNCHANGED <<kind, pinging, files, command, server, history>>

\* writeStatus, best effort.
Report(active, ping, idle) ==
    status' \in {status, [active |-> active, ping |-> ping, age |-> 0, idle |-> idle]}

\* ServerGone, an unexpected exception, or the stop flag (by TERM or INT) at the top of
\* the loop. A server that is up can fail to answer in time.
LeaveLoop(d) ==
    /\ Go(d, "poll", "final")
    /\ UNCHANGED <<kind, mem, pinging, files, command, server, history>>

\* paneStatuses is called, and the server answers.
Answered(d) == ~mem[d].stop /\ server = "up"

\* A server that is gone is polled again.
SkipPollWhateverHappens(d) ==
    /\ ~mem[d].stop
    /\ Go(d, "poll", "sleep")
    /\ UNCHANGED <<kind, mem, pinging, files, command, server, history>>

\* ProtocolError: no status is written.
SkipPoll(d) ==
    /\ Answered(d)
    /\ Go(d, "poll", "sleep")
    /\ UNCHANGED <<kind, mem, pinging, files, command, server, history>>

\* lastActiveAt is set on every poll.
FindIdleAsActive(d) ==
    /\ Answered(d)
    /\ Go(d, "poll", "sleep")
    /\ Report(FALSE, "none", 0)
    /\ UNCHANGED <<kind, mem, pinging, pidFile, command, server, history>>

\* A snapshot without a pane in activeStatuses: no ping, lastActiveAt is carried on.
FindIdle(d) ==
    /\ Answered(d)
    /\ Go(d, "poll", "sleep")
    /\ Report(FALSE, "none", mem[d].idle)
    /\ UNCHANGED <<kind, mem, pinging, pidFile, command, server, history>>

\* A snapshot with one.
FindActive(d) ==
    /\ Answered(d)
    /\ Go(d, "poll", "ping")
    /\ mem' = [mem EXCEPT ![d].idle = 0]
    /\ pinging' = pinging \cup {d}
    /\ seen' = 0
    /\ UNCHANGED <<kind, files, command, server, pinged>>

\* The ping command ends, or cannot be started. Nothing makes it end.
PingEnds(d) ==
    /\ Go(d, "ping", "sleep")
    /\ pinging' = pinging \ {d}
    /\ \E ping \in PingResults :
        /\ Report(TRUE, ping, mem[d].idle)
        /\ pinged' = IF ping = "ok" THEN 0 ELSE pinged
    /\ UNCHANGED <<kind, mem, pidFile, command, server, seen>>

\* sleepInterruptible: pollIntervalSec, or until the stop flag.
Wake(d) ==
    /\ Go(d, "sleep", "poll")
    /\ UNCHANGED <<kind, mem, pinging, files, command, server, history>>

\* The finally clause of runLoop.
Final(d) ==
    /\ Go(d, "final", "unlink")
    /\ Report(FALSE, "none", mem[d].idle)
    /\ UNCHANGED <<kind, mem, pinging, pidFile, command, server, history>>

\* The finally clause of cmdDaemon removes the pid file, whoever is in it.
Unlink(d) ==
    /\ pc[d] = "unlink" /\ Dies(d)
    /\ pidFile' = NoLaunch
    /\ UNCHANGED <<kind, pinging, status, command, server, history>>

\* Deno has died and flock(1) collects it; then flock(1) exits.
Reap(d) ==
    /\ Go(d, "dying", IF kind[d] = "foreground" THEN "gone" ELSE "reaped")
    /\ UNCHANGED <<kind, mem, pinging, files, command, server, history>>
FlockExits(d) ==
    /\ Go(d, "reaped", "gone")
    /\ UNCHANGED <<kind, mem, pinging, files, command, server, history>>

\* A ping command that has outlived its daemon.
OrphanEnds(d) ==
    /\ d \in pinging /\ pc[d] \notin Running
    /\ pinging' = pinging \ {d}
    /\ UNCHANGED <<pc, kind, mem, files, command, server, history>>

(***************************************************************************)
(* The environment.                                                        *)
(***************************************************************************)
\* kill -9 or out of memory.
Kill(d) ==
    /\ pc[d] \in Running
    /\ Dies(d)
    /\ UNCHANGED <<kind, pinging, files, command, server, history>>

Older(age, limit) == IF age < limit THEN age + 1 ELSE age

Tick ==
    /\ status' = [status EXCEPT !.age = IF @ = Unwritten THEN @ ELSE Older(@, StaleAfter),
                               !.idle = Older(@, LongIdle)]
    /\ mem' = [d \in Launches |-> [mem[d] EXCEPT !.idle = Older(@, LongIdle)]]
    /\ seen' = Older(seen, LongIdle)
    /\ pinged' = Older(pinged, StaleAfter)
    /\ UNCHANGED <<pc, kind, pinging, pidFile, command, server>>

ServerExits ==
    /\ server = "up" /\ server' = "gone"
    /\ UNCHANGED <<pc, kind, mem, pinging, files, command, history>>

Step(d) ==
    \/ TryLock(d) \/ WritePid(d) \/ Refuse(d) \/ BeginLoop(d)
    \/ LeaveLoop(d) \/ SkipPoll(d) \/ FindIdle(d) \/ FindActive(d)
    \/ Wake(d) \/ Final(d) \/ Unlink(d)
    \/ Reap(d) \/ FlockExits(d)

Commands ==
    \/ \E op \in {"restart", "stop"} : SendTerm(op)
    \/ EndWait \/ Restart

Next ==
    \/ Hook \/ Foreground \/ Commands
    \/ \E d \in Launches : Step(d) \/ PingEnds(d) \/ OrphanEnds(d) \/ Kill(d)
    \/ Tick \/ ServerExits

Spec == Init /\ [][Next]_vars

\* Each process is run. Nothing is assumed of the ping command.
FairSpec == Spec /\ \A d \in Launches : WF_vars(Step(d))

(***************************************************************************)
(* Properties.                                                             *)
(***************************************************************************)
PlacesOK ==
    /\ pc \in [Launches -> {"unused", "spawned", "respawned", "gone"} \cup Locking]
    /\ kind \in [Launches -> {"flock", "foreground"}]
    /\ pinging \subseteq Launches
    /\ \A d \in Launches : pc[d] \notin Leaving => (pc[d] = "ping" <=> d \in pinging)
    /\ server \in {"up", "gone"}

NamesOK ==
    /\ pidFile \in Launches \cup {NoLaunch}
    /\ command \in [op : {"none", "restart", "stop", "launch"},
                    pid : Launches \cup {NoLaunch}]
    /\ command.op \in {"restart", "stop"} => command.pid \in Launches

TimesOK ==
    /\ mem \in [Launches -> [stop : BOOLEAN, idle : 0 .. LongIdle]]
    /\ status \in Statuses
    /\ seen \in 0 .. LongIdle /\ pinged \in 0 .. StaleAfter

\* Every variable has its type; a daemon that waits for a ping has one running,
\* and a ping without one is an orphan. (main.ts:139)
TypeOK == PlacesOK /\ NamesOK /\ TimesOK

NoForeground == \A d \in Launches : kind[d] = "flock"

\* As long as nobody has used --foreground, the pid file names the daemon that is
\* in the loop: a predecessor on its way out, killed or not, neither removes the
\* record of its successor nor is still in the loop. Otherwise stop, restart and
\* the indicator would act on a daemon that is not there. (main.ts:207, 223)
PidFileNamesTheLoop ==
    NoForeground => \A d \in Launches : pc[d] \in InLoop => pidFile = d

\* The coffee cup means that a ping has succeeded within staleAfterSec, or that a
\* pane was active within indicatorHoldSec: whatever was killed, restarted or run
\* in the foreground, and whoever wrote the status that is shown. (main.ts:413)
HoldingIsEarned ==
    Indicator = "holding" => pinged < StaleAfter \/ seen <= HoldTime

\* The time of the last activity in daemon.json never goes back, over restarts and
\* kills, as long as nobody has used --foreground: it only ages with the clock.
\* (main.ts:113-115)
LastActiveNeverBack ==
    [][NoForeground /\ status'.idle > status.idle => Tick]_vars

\* Unless some ping command never ends, every daemon leaves the loop once the
\* server is gone. (main.ts:122, bridge.ts:15)
ExitsWithServer ==
    (\A d \in Launches : []<>(pc[d] # "ping"))
        => (server = "gone" ~> \A d \in Launches : pc[d] \notin InLoop)

\* "It just always replaces" (bin/bridge-keepawake:92): when the launch with which
\* a restart ends, after it has signalled somebody, finds the lock held, then by a
\* daemon that will go on.
RestartReplaces ==
    [][\A d \in Launches :
         pc[d] = "respawned" /\ pc'[d] = "gone"
           => \E e \in Launches : pc[e] \in Running /\ ~mem[e].stop]_vars
===============================================================================
