--------------------------- MODULE CaffeinateProofs --------------------------
(***************************************************************************)
(* Proofs about Caffeinate for any number of processes, any times and any  *)
(* faults: one daemon of a session at a time is past its claim of the      *)
(* lock, who has let go of it has released its inhibitor, a daemon that    *)
(* polls has reaped those of its predecessors, the inhibitors without a    *)
(* daemon are no more than the faults, an inhibitor is released            *)
(* idleGraceSec after the last activity, and a takeover spares a daemon    *)
(* that reports.                                                           *)
(***************************************************************************)
EXTENDS Caffeinate, FiniteSetTheorems, TLAPS

Places == Ended \cup Commanding \cup Starting \cup Looping

\* The places that are reached with the lock in hand and left by releasing it.
Holding == Starting \cup Looping \cup {"probed"}

\* The inductive invariant: whoever is at such a place owns the flock.
HoldersOwnTheLock ==
    /\ pc \in [Procs -> Places]
    /\ \A p \in Procs : pc[p] \in Holding => lock = p

\* A process goes from a place to another that needs no more of the lock.
LEMMA WalkOn ==
    ASSUME HoldersOwnTheLock, NEW p \in Procs, NEW place \in Places,
           Goto(p, place), lock' = lock, place \in Holding => pc[p] \in Holding
    PROVE  HoldersOwnTheLock'
BY DEF HoldersOwnTheLock, Goto

\* A process claims the free lock.
LEMMA Claim ==
    ASSUME HoldersOwnTheLock, NEW p \in Procs, NEW place \in Places,
           Goto(p, place), lock = NoProc, lock' = p
    PROVE  HoldersOwnTheLock'
BY ProcAssumption DEF HoldersOwnTheLock, Goto

\* The owner of the lock hands it back.
LEMMA HandBack ==
    ASSUME HoldersOwnTheLock, NEW p \in Procs, NEW place \in Places \ Holding,
           pc[p] \in Holding, Goto(p, place), lock' = NoProc
    PROVE  HoldersOwnTheLock'
BY DEF HoldersOwnTheLock, Goto

\* A process dies, and the lock is free if it was its owner.
LEMMA Death ==
    ASSUME HoldersOwnTheLock, NEW p \in Procs, NEW q \in Procs, NEW place \in Places \ Holding,
           p = q \/ pc[p] \notin Holding,
           pc' = [pc EXCEPT ![p] = place, ![q] = "dead"], Dies(q)
    PROVE  HoldersOwnTheLock'
BY DEF HoldersOwnTheLock, Dies, Places, Holding, Ended, Commanding, Starting, Looping

LEMMA SignalSafe ==
    ASSUME HoldersOwnTheLock, NEW p \in Procs, NEW q, NEW place \in Places \ Holding,
           pc[p] \notin Holding, Sigterm(p, q, place) \/ Sigkill(p, q, place)
    PROVE  HoldersOwnTheLock'
<1>1. CASE Alive(q) /\ pc' = [pc EXCEPT ![p] = place, ![q] = "dead"] /\ Dies(q)
  BY <1>1, Death DEF Alive
<1>2. CASE Goto(p, place) /\ lock' = lock
  BY <1>2, WalkOn
<1> QED
  BY <1>1, <1>2 DEF Sigterm, Sigkill, Survives

\* What a step of another process or of the environment leaves alone.
LEMMA Unmoved ==
    ASSUME HoldersOwnTheLock, UNCHANGED <<pc, lock>>
    PROVE  HoldersOwnTheLock'
BY DEF HoldersOwnTheLock

LEMMA StoppingSafe ==
    ASSUME HoldersOwnTheLock, NEW p \in Procs, Stopping(p)
    PROVE  HoldersOwnTheLock'
<1> USE DEF Places, Holding, Ended, Commanding, Starting, Looping, At, AfterStopping
<1>1. CASE ReadHolder(p)
  BY <1>1, WalkOn DEF ReadHolder
<1>2. CASE SignalHolder(p)
  BY <1>2, SignalSafe DEF SignalHolder
<1>3. CASE ProbeLock(p)
  BY <1>3, Claim DEF ProbeLock
<1>4. CASE StopTimesOut(p)
  BY <1>4, WalkOn DEF StopTimesOut
<1>5. CASE ReleaseProbe(p)
  BY <1>5, HandBack DEF ReleaseProbe
<1> QED
  BY <1>1, <1>2, <1>3, <1>4, <1>5 DEF Stopping

LEMMA ClaimingSafe ==
    ASSUME HoldersOwnTheLock, NEW p \in Procs, Claiming(p)
    PROVE  HoldersOwnTheLock'
<1> USE DEF Places, Holding, Ended, Commanding, Starting, Looping, At
<1>1. CASE Acquire(p)
  BY <1>1, Claim, WalkOn DEF Acquire
<1>2. CASE JudgeHolder(p)
  BY <1>2, WalkOn DEF JudgeHolder
<1>3. CASE ReadTarget(p)
  BY <1>3, WalkOn DEF ReadTarget
<1>4. CASE HolderRecovered(p)
  BY <1>4, WalkOn DEF HolderRecovered
<1>5. CASE Confirmed(p)
  BY <1>5, WalkOn, Claim DEF Confirmed
<1>6. CASE TerminateHolder(p)
  BY <1>6, SignalSafe DEF TerminateHolder
<1>7. CASE TakeLock(p)
  BY <1>7, Claim DEF TakeLock
<1>8. CASE KillHolder(p)
  BY <1>8, SignalSafe DEF KillHolder
<1>9. CASE GiveUp(p)
  BY <1>9, WalkOn DEF GiveUp
<1>10. CASE WritePid(p)
  BY <1>10, WalkOn DEF WritePid
<1>11. CASE InstallHandlers(p)
  BY <1>11, WalkOn DEF InstallHandlers
<1> QED
  BY <1>1, <1>2, <1>3, <1>4, <1>5, <1>6, <1>7, <1>8, <1>9, <1>10, <1>11 DEF Claiming

LEMMA RunningSafe ==
    ASSUME HoldersOwnTheLock, NEW p \in Procs, Running(p)
    PROVE  HoldersOwnTheLock'
<1> USE DEF Places, Holding, Ended, Commanding, Starting, Looping, At
<1>1. CASE AdoptStale(p)
  BY <1>1, WalkOn DEF AdoptStale
<1>2. CASE ClearReaped(p)
  BY <1>2, WalkOn DEF ClearReaped
<1>3. CASE PollServer(p)
  BY <1>3, WalkOn DEF PollServer, Polls
<1>4. CASE PollGarbled(p)
  BY <1>4, WalkOn DEF PollGarbled, Polls
<1>5. CASE Leave(p)
  BY <1>5, WalkOn DEF Leave, Polls
<1>6. CASE Spawn(p)
  BY <1>6, WalkOn DEF Spawn
<1>7. CASE Record(p)
  BY <1>7, WalkOn DEF Record
<1>8. CASE Release(p)
  BY <1>8, WalkOn DEF Release
<1>9. CASE Unrecord(p)
  BY <1>9, WalkOn DEF Unrecord
<1>10. CASE Report(p)
  BY <1>10, WalkOn DEF Report
<1>11. CASE Exit(p)
  BY <1>11, HandBack DEF Exit
<1> QED
  BY <1>1, <1>2, <1>3, <1>4, <1>5, <1>6, <1>7, <1>8, <1>9, <1>10, <1>11 DEF Running

LEMMA EnvironmentSafe ==
    ASSUME HoldersOwnTheLock, Environment
    PROVE  HoldersOwnTheLock'
<1>1. CASE \E p \in Procs, k \in {"daemon", "restart", "stop"} : Launch(p, k)
  <2>1. PICK p \in Procs, k \in {"daemon", "restart", "stop"} : Launch(p, k)
    BY <1>1
  <2> QED
    BY <2>1, WalkOn DEF Launch, Places, Holding, Commanding, Starting, Looping
<1>2. CASE Tick
  BY <1>2, Unmoved DEF Tick
<1>3. CASE \E s \in {"up", "gone", "garbled"} : ServerChanges(s)
  BY <1>3, Unmoved DEF ServerChanges
<1>4. CASE AgentsChange
  BY <1>4, Unmoved DEF AgentsChange
<1> QED
  BY <1>1, <1>2, <1>3, <1>4 DEF Environment

LEMMA FaultSafe ==
    ASSUME HoldersOwnTheLock, Fault
    PROVE  HoldersOwnTheLock'
<1> USE DEF Places, Holding, Ended, Commanding, Starting, Looping
<1>1. ASSUME NEW p \in Procs, Wedge(p) \/ Unwedge(p) \/ InhibitorDies(p)
      PROVE  HoldersOwnTheLock'
  BY <1>1, Unmoved DEF Wedge, Unwedge, InhibitorDies
<1>2. ASSUME NEW p \in Procs, Kill(p)
      PROVE  HoldersOwnTheLock'
  <2>1. pc' = [pc EXCEPT ![p] = "dead", ![p] = "dead"]
    BY <1>2 DEF Kill, Goto, HoldersOwnTheLock
  <2> QED
    BY <1>2, <2>1, Death DEF Kill
<1>3. ASSUME NEW p \in Procs, SpawnFails(p) \/ RecordFails(p) \/ AdoptMismatch(p)
      PROVE  HoldersOwnTheLock'
  BY <1>3, WalkOn DEF SpawnFails, RecordFails, AdoptMismatch, At
<1>4. CASE MachineSleeps
  BY <1>4, Unmoved DEF MachineSleeps
<1> QED
  BY <1>1, <1>2, <1>3, <1>4 DEF Fault

\* Every step keeps the invariant.
LEMMA NextHoldersOwnTheLock ==
    ASSUME HoldersOwnTheLock, [Next]_vars
    PROVE  HoldersOwnTheLock'
<1>1. CASE \E p \in Procs : Step(p)
  BY <1>1, StoppingSafe, ClaimingSafe, RunningSafe DEF Step
<1>2. CASE Environment
  BY <1>2, EnvironmentSafe
<1>3. CASE Fault
  BY <1>3, FaultSafe
<1>4. CASE UNCHANGED vars
  BY <1>4, Unmoved DEF vars
<1> QED
  BY <1>1, <1>2, <1>3, <1>4 DEF Next

\* At most one process of a session is between its claim of the lock and its
\* end as a daemon, whatever takeovers, restarts and kills are under way:
\* the lock of daemonize.py is never had by two.
THEOREM OneDaemonCorrect == Spec => []OneDaemon
<1>1. Init => HoldersOwnTheLock
  BY DEF Init, HoldersOwnTheLock, Places, Holding, Ended, Starting, Looping
<1>2. HoldersOwnTheLock /\ [Next]_vars => HoldersOwnTheLock'
  BY NextHoldersOwnTheLock
<1>3. HoldersOwnTheLock => OneDaemon
  BY DEF HoldersOwnTheLock, OneDaemon, Holding
<1> QED
  BY <1>1, <1>2, <1>3, PTL DEF Spec

-----------------------------------------------------------------------------
\* Why a free lock means that the inhibitor is released.

Memory == [stop : BOOLEAN, leaving : BOOLEAN, nap : Int, holding : BOOLEAN, idle : Int]

\* Where a daemon is with an inhibitor of its own, or on the way to release it.
Keeping == {"poll", "backoff", "spawn", "record", "release", "report"}

\* Where a daemon is after the finally clause of the loop has begun.
Leaving == {"release", "unrecord", "report", "exit"}

\* The inhibitor of a process that is not dead is still to be released; the
\* report after the release is the last one.
WillRelease(p) ==
    /\ mem[p].leaving => pc[p] \in Leaving
    /\ p \in inhibitors => pc[p] \in Keeping \cup {"dead"}
    /\ p \in inhibitors /\ pc[p] = "report" => ~mem[p].leaving

ReleaseInv ==
    /\ pc \in [Procs -> Places]
    /\ mem \in [Procs -> Memory]
    /\ inhibitors \subseteq Procs
    /\ \A p \in Procs : WillRelease(p)

\* The lengths of sleeps are numbers, and a daemon starts with a clean memory.
LEMMA Times == /\ PollInterval \in Int /\ Grace \in Int /\ ConfirmDelay \in Int
               /\ NotIdle \in Int /\ Fresh \in Memory /\ ~Fresh.leaving
BY TimingAssumption DEF Fresh, Memory, NotIdle

\* A step of p that touches no other process, though it may end inhibitors.
LEMMA OneMoves ==
    ASSUME ReleaseInv, NEW p \in Procs, NEW place \in Places, Goto(p, place),
           NEW m \in Memory, mem' = [mem EXCEPT ![p] = m],
           inhibitors' \subseteq inhibitors \cup {p},
           m.leaving => place \in Leaving,
           p \in inhibitors' => place \in Keeping \cup {"dead"},
           p \in inhibitors' /\ place = "report" => ~m.leaving
    PROVE  ReleaseInv'
BY DEF ReleaseInv, WillRelease, Goto

\* A process that is not a daemon yet moves on to where it is none either.
LEMMA CommandMoves ==
    ASSUME ReleaseInv, NEW p \in Procs, NEW place \in Places \ {"report"}, Goto(p, place),
           pc[p] \notin Keeping \cup Leaving \cup {"dead"},
           NEW m \in Memory, mem' = [mem EXCEPT ![p] = m], m.leaving => mem[p].leaving,
           inhibitors' \subseteq inhibitors
    PROVE  ReleaseInv'
BY OneMoves DEF ReleaseInv, WillRelease

\* What p sends q leaves q's inhibitor to be released, or q dead.
LEMMA SignalMoves ==
    ASSUME ReleaseInv, NEW p \in Procs, NEW q, NEW place \in Places \ {"report"},
           pc[p] \notin Keeping \cup Leaving \cup {"dead"},
           Sigterm(p, q, place) \/ Sigkill(p, q, place), UNCHANGED inhibitors
    PROVE  ReleaseInv'
<1> USE DEF ReleaseInv, WillRelease
<1>1. CASE Alive(q) /\ pc' = [pc EXCEPT ![p] = place, ![q] = "dead"] /\ Dies(q)
  <2>1. q \in Procs /\ "dead" \in Places
    BY <1>1 DEF Alive, Places, Ended
  <2>2. mem' = [mem EXCEPT ![q] = Fresh]
    BY <1>1 DEF Dies
  <2> QED
    BY <1>1, <2>1, <2>2, Times
<1>2. CASE Goto(p, place) /\ mem' = mem
  <2>1. mem' = [mem EXCEPT ![p] = mem[p]]
    BY <1>2
  <2> QED
    BY <1>2, <2>1, CommandMoves
<1>3. CASE Goto(p, place) /\ Alive(q) /\ mem' = [mem EXCEPT ![q].stop = TRUE]
  <2>1. q \in Procs
    BY <1>3 DEF Alive
  <2>2. mem' \in [Procs -> Memory]
    BY <1>3, <2>1 DEF Memory
  <2>3. \A r \in Procs : mem'[r].leaving = mem[r].leaving
    BY <1>3, <2>1 DEF Memory
  <2> QED
    BY <1>3, <2>2, <2>3 DEF Goto
<1> QED
  BY <1>1, <1>2, <1>3 DEF Sigterm, Sigkill, Survives

LEMMA StoppingReleases ==
    ASSUME ReleaseInv, NEW p \in Procs, Stopping(p)
    PROVE  ReleaseInv'
<1> USE DEF Places, Ended, Commanding, Starting, Looping, Keeping, Leaving, At, AfterStopping
<1>1. mem' = mem => mem' = [mem EXCEPT ![p] = mem[p]] /\ mem[p] \in Memory
  BY DEF ReleaseInv
<1>2. CASE ReadHolder(p)
  BY <1>1, <1>2, CommandMoves DEF ReadHolder
<1>3. CASE SignalHolder(p)
  BY <1>3, SignalMoves DEF SignalHolder
<1>4. CASE ProbeLock(p)
  BY <1>1, <1>4, CommandMoves DEF ProbeLock
<1>5. CASE StopTimesOut(p)
  BY <1>1, <1>5, CommandMoves DEF StopTimesOut
<1>6. CASE ReleaseProbe(p)
  BY <1>1, <1>6, CommandMoves DEF ReleaseProbe
<1> QED
  BY <1>2, <1>3, <1>4, <1>5, <1>6 DEF Stopping

LEMMA ClaimingReleases ==
    ASSUME ReleaseInv, NEW p \in Procs, Claiming(p)
    PROVE  ReleaseInv'
<1> USE DEF Places, Ended, Commanding, Starting, Looping, Keeping, Leaving, At
<1>1. mem' = mem => mem' = [mem EXCEPT ![p] = mem[p]] /\ mem[p] \in Memory
  BY DEF ReleaseInv
<1>2. CASE Acquire(p)
  BY <1>1, <1>2, CommandMoves DEF Acquire
<1>3. CASE JudgeHolder(p)
  BY <1>1, <1>3, CommandMoves DEF JudgeHolder
<1>4. CASE ReadTarget(p)
  <2> DEFINE m == [mem[p] EXCEPT !.nap = ConfirmDelay]
  <2>1. m \in Memory /\ m.leaving = mem[p].leaving
    BY Times DEF ReleaseInv, Memory
  <2>2. mem' = [mem EXCEPT ![p] = m]
    BY <1>4 DEF ReadTarget
  <2> QED
    BY <1>4, <2>1, <2>2, CommandMoves DEF ReadTarget
<1>5. CASE HolderRecovered(p)
  BY <1>5, Times, CommandMoves DEF HolderRecovered
<1>6. CASE Confirmed(p)
  BY <1>1, <1>6, CommandMoves DEF Confirmed
<1>7. CASE TerminateHolder(p)
  BY <1>7, SignalMoves DEF TerminateHolder
<1>8. CASE TakeLock(p)
  BY <1>1, <1>8, CommandMoves DEF TakeLock
<1>9. CASE KillHolder(p)
  BY <1>9, SignalMoves DEF KillHolder
<1>10. CASE GiveUp(p)
  BY <1>1, <1>10, CommandMoves DEF GiveUp
<1>11. CASE WritePid(p)
  BY <1>11, Times, CommandMoves DEF WritePid
<1>12. CASE InstallHandlers(p)
  BY <1>1, <1>12, CommandMoves DEF InstallHandlers
<1> QED
  BY <1>2, <1>3, <1>4, <1>5, <1>6, <1>7, <1>8, <1>9, <1>10, <1>11, <1>12 DEF Claiming

\* What a poll does to the memory of the tracker.
LEMMA TrackerSound ==
    ASSUME NEW m \in Memory
    PROVE  /\ Updated(m) \in Memory /\ Updated(m).leaving = m.leaving
           /\ NextWakeup(m) \in Int
<1>1. ASSUME NEW idle \in Int, NEW holding \in BOOLEAN
      PROVE  LET n == [m EXCEPT !.idle = idle, !.holding = holding]
             IN  n \in Memory /\ n.leaving = m.leaving
  BY DEF Memory
<1>2. Updated(m) \in Memory /\ Updated(m).leaving = m.leaving
  <2>1. CASE working
    BY <1>1, <2>1, Times DEF Updated
  <2>2. CASE ~working
    <3> DEFINE idle == IF m.idle = NotIdle THEN 0 ELSE m.idle
    <3>1. idle \in Int /\ (m.holding /\ idle < Grace) \in BOOLEAN
      BY DEF Memory
    <3> QED
      BY <1>1, <2>2, <3>1 DEF Updated
  <2> QED
    BY <2>1, <2>2
<1>3. NextWakeup(m) \in Int
  BY Times DEF NextWakeup, Memory
<1> QED
  BY <1>2, <1>3

LEMMA RunningReleases ==
    ASSUME ReleaseInv, NEW p \in Procs, Running(p)
    PROVE  ReleaseInv'
<1> USE DEF Places, Ended, Commanding, Starting, Looping, Keeping, Leaving, At
<1>m. /\ mem[p] \in Memory
      /\ mem' = mem => mem' = [mem EXCEPT ![p] = mem[p]]
  BY DEF ReleaseInv
<1>w. WillRelease(p)
  BY DEF ReleaseInv
<1>1. CASE AdoptStale(p)
  BY <1>1, <1>m, <1>w, OneMoves DEF AdoptStale, Terminated, WillRelease
<1>2. CASE ClearReaped(p)
  BY <1>2, <1>m, <1>w, OneMoves DEF ClearReaped, WillRelease
<1>3. CASE PollServer(p)
  <2> DEFINE m == Updated(mem[p])
  <2>1. m \in Memory /\ m.leaving = mem[p].leaving
    BY <1>m, TrackerSound
  <2>2. mem' = [mem EXCEPT ![p] = m] /\ UNCHANGED inhibitors
    BY <1>3 DEF PollServer
  <2>3. PICK place \in {"report", "spawn", "release"} : Goto(p, place)
    BY <1>3 DEF PollServer
  <2>4. pc[p] \in {"poll", "backoff"} /\ ~m.leaving
    BY <1>3, <1>w, <2>1 DEF PollServer, Polls, WillRelease
  <2> HIDE DEF m
  <2> QED
    BY <2>1, <2>2, <2>3, <2>4, OneMoves
<1>4. CASE PollGarbled(p)
  <2> DEFINE m == [mem[p] EXCEPT !.nap = PollInterval]
  <2>1. m \in Memory /\ m.leaving = mem[p].leaving
    BY <1>m, Times DEF Memory
  <2>2. mem' = [mem EXCEPT ![p] = m]
    BY <1>4 DEF PollGarbled
  <2> HIDE DEF m
  <2> QED
    BY <1>4, <1>w, <2>1, <2>2, OneMoves DEF PollGarbled, Polls, WillRelease
<1>5. CASE Leave(p)
  <2> DEFINE m == [mem[p] EXCEPT !.leaving = TRUE]
  <2>1. m \in Memory
    BY <1>m DEF Memory
  <2>2. mem' = [mem EXCEPT ![p] = m]
    BY <1>5 DEF Leave
  <2>3. pc[p] \in {"poll", "backoff"} /\ Goto(p, "release") /\ UNCHANGED inhibitors
    BY <1>5 DEF Leave, Polls
  <2>4. "release" \in Places /\ "release" \in Leaving /\ "release" \in Keeping
    OBVIOUS
  <2> HIDE DEF m
  <2> QED
    BY <2>1, <2>2, <2>3, <2>4, OneMoves
<1>6. CASE Spawn(p)
  BY <1>6, <1>m, <1>w, OneMoves DEF Spawn, WillRelease
<1>7. CASE Record(p)
  BY <1>7, <1>m, <1>w, OneMoves DEF Record, WillRelease
<1>8. CASE Release(p)
  BY <1>8, <1>m, <1>w, OneMoves DEF Release, Terminated, WillRelease
<1>9. CASE Unrecord(p)
  BY <1>9, <1>m, <1>w, OneMoves DEF Unrecord, WillRelease
<1>10. CASE Report(p)
  <2>1. CASE mem[p].leaving
    BY <1>10, <2>1, <1>m, <1>w, OneMoves DEF Report, WillRelease
  <2>2. CASE ~mem[p].leaving
    <3> DEFINE m == [mem[p] EXCEPT !.nap = NextWakeup(mem[p])]
    <3>1. m \in Memory /\ m.leaving = mem[p].leaving
      BY <1>m, TrackerSound DEF Memory
    <3>2. mem' = [mem EXCEPT ![p] = m]
      BY <1>10, <2>2 DEF Report
    <3> HIDE DEF m
    <3> QED
      BY <1>10, <2>2, <3>1, <3>2, OneMoves DEF Report
  <2> QED
    BY <2>1, <2>2
<1>11. CASE Exit(p)
  BY <1>11, <1>w, Times, OneMoves DEF Exit, WillRelease
<1> QED
  BY <1>1, <1>2, <1>3, <1>4, <1>5, <1>6, <1>7, <1>8, <1>9, <1>10, <1>11 DEF Running

\* What happens around the processes leaves everyone where they are.
LEMMA NobodyMoves ==
    ASSUME ReleaseInv, UNCHANGED pc, inhibitors' \subseteq inhibitors,
           mem' \in [Procs -> Memory], \A p \in Procs : mem'[p].leaving => mem[p].leaving
    PROVE  ReleaseInv'
BY DEF ReleaseInv, WillRelease

LEMMA EnvironmentReleases ==
    ASSUME ReleaseInv, Environment
    PROVE  ReleaseInv'
<1>m. mem \in [Procs -> Memory]
  BY DEF ReleaseInv
<1>1. CASE \E p \in Procs, k \in {"daemon", "restart", "stop"} : Launch(p, k)
  <2>1. PICK p \in Procs, k \in {"daemon", "restart", "stop"} : Launch(p, k)
    BY <1>1
  <2>2. mem' = [mem EXCEPT ![p] = mem[p]] /\ mem[p] \in Memory
    BY <2>1, <1>m DEF Launch
  <2> QED
    BY <2>1, <2>2, CommandMoves
    DEF Launch, Places, Keeping, Leaving, Commanding, Starting, Looping
<1>2. CASE Tick
  <2>1. ASSUME NEW m \in Memory
        PROVE  Older(m) \in Memory /\ Older(m).leaving = m.leaving
    <3> DEFINE nap == IF m.nap > 0 THEN m.nap - 1 ELSE 0
               idle == IF m.idle = NotIdle THEN m.idle ELSE AtMost(m.idle + 1, Grace)
    <3>1. nap \in Int /\ idle \in Int
      BY Times DEF Memory, AtMost
    <3>2. Older(m) = [m EXCEPT !.nap = nap, !.idle = idle]
      BY DEF Older
    <3> HIDE DEF nap, idle
    <3> QED
      BY <3>1, <3>2 DEF Memory
  <2>2. mem' = [p \in Procs |-> IF Alive(p) THEN Older(mem[p]) ELSE mem[p]]
    BY <1>2 DEF Tick
  <2>3. \A p \in Procs : mem'[p] \in Memory /\ mem'[p].leaving = mem[p].leaving
    BY <1>m, <2>1, <2>2
  <2>4. mem' \in [Procs -> Memory]
    BY <2>2, <2>3
  <2> QED
    BY <1>2, <2>3, <2>4, NobodyMoves DEF Tick
<1>3. CASE \E s \in {"up", "gone", "garbled"} : ServerChanges(s)
  BY <1>3, <1>m, NobodyMoves DEF ServerChanges
<1>4. CASE AgentsChange
  BY <1>4, <1>m, NobodyMoves DEF AgentsChange
<1> QED
  BY <1>1, <1>2, <1>3, <1>4 DEF Environment

LEMMA FaultReleases ==
    ASSUME ReleaseInv, Fault
    PROVE  ReleaseInv'
<1>m. mem \in [Procs -> Memory]
  BY DEF ReleaseInv
<1>1. ASSUME NEW p \in Procs, Wedge(p) \/ Unwedge(p) \/ InhibitorDies(p)
      PROVE  ReleaseInv'
  BY <1>1, <1>m, NobodyMoves DEF Wedge, Unwedge, InhibitorDies
<1>2. ASSUME NEW p \in Procs, Kill(p)
      PROVE  ReleaseInv'
  <2>1. mem' = [mem EXCEPT ![p] = Fresh] /\ "dead" \in Places
    BY <1>2 DEF Kill, Dies, Places, Ended
  <2> QED
    BY <1>2, <2>1, Times, OneMoves DEF Kill
<1>3. ASSUME NEW p \in Procs, SpawnFails(p) \/ RecordFails(p) \/ AdoptMismatch(p)
      PROVE  ReleaseInv'
  <2>1. mem' = [mem EXCEPT ![p] = mem[p]] /\ mem[p] \in Memory /\ WillRelease(p)
    BY <1>3, <1>m DEF SpawnFails, RecordFails, AdoptMismatch, ReleaseInv
  <2> QED
    BY <1>3, <2>1, OneMoves
    DEF SpawnFails, RecordFails, AdoptMismatch, At, WillRelease,
        Places, Keeping, Leaving, Looping
<1>4. CASE MachineSleeps
  <2>1. ASSUME NEW m \in Memory
        PROVE  LET n == [m EXCEPT !.nap = 0] IN n \in Memory /\ n.leaving = m.leaving
    BY DEF Memory
  <2>2. mem' = [p \in Procs |-> [mem[p] EXCEPT !.nap = 0]]
    BY <1>4 DEF MachineSleeps
  <2>3. \A p \in Procs : mem'[p] \in Memory /\ mem'[p].leaving = mem[p].leaving
    BY <1>m, <2>1, <2>2
  <2>4. mem' \in [Procs -> Memory]
    BY <2>2, <2>3
  <2> QED
    BY <1>4, <2>3, <2>4, NobodyMoves DEF MachineSleeps
<1> QED
  BY <1>1, <1>2, <1>3, <1>4 DEF Fault

LEMMA NextReleases ==
    ASSUME ReleaseInv, [Next]_vars
    PROVE  ReleaseInv'
<1>1. CASE UNCHANGED vars
  BY <1>1, NobodyMoves DEF vars, ReleaseInv
<1>2. CASE \E p \in Procs : Step(p)
  BY <1>2, StoppingReleases, ClaimingReleases, RunningReleases DEF Step
<1> QED
  BY <1>1, <1>2, EnvironmentReleases, FaultReleases DEF Next

\* Whoever has let go of the lock alive has released its inhibitor, for any
\* number of processes and whatever faults: an inhibitor is alive only under
\* the lock of its daemon or after its death (main.py:274-277).
THEOREM ReleaseCorrect == Spec => []UnlockedMeansReleased
<1>1. Init => HoldersOwnTheLock /\ ReleaseInv
  BY Times DEF Init, HoldersOwnTheLock, ReleaseInv, WillRelease, Places, Holding, Ended,
               Starting, Looping
<1>2. HoldersOwnTheLock /\ ReleaseInv => UnlockedMeansReleased
  BY DEF HoldersOwnTheLock, ReleaseInv, WillRelease, UnlockedMeansReleased, Holding, Keeping,
         Looping
<1> QED
  BY <1>1, <1>2, NextHoldersOwnTheLock, NextReleases, PTL DEF Spec

-----------------------------------------------------------------------------
\* Why the inhibitors without a daemon are no more than the faults.

\* The inhibitors without a daemon, and the one whose daemon can be killed at no
\* further cost: it is stuck, or blind, or the fault that will blind it has happened.
Lost ==
    {q \in Procs : /\ q \in inhibitors \/ pc[q] = "spawn"
                   /\ q # lock \/ q \in wedged \/ pc[q] = "backoff" \/ server = "garbled"}

StrayInv == IsFiniteSet(Lost) /\ faults \in Nat /\ Cardinality(Lost) <= faults

OwnerInv == HoldersOwnTheLock /\ ReleaseInv

LEMMA NoneLost ==
    ASSUME StrayInv, Lost' \subseteq Lost, faults' = faults
    PROVE  StrayInv'
<1>1. IsFiniteSet(Lost') /\ Cardinality(Lost') <= Cardinality(Lost)
  BY FS_Subset DEF StrayInv
<1>2. Cardinality(Lost') \in Nat /\ Cardinality(Lost) \in Nat
  BY <1>1, FS_CardinalityType DEF StrayInv
<1> QED
  BY <1>1, <1>2 DEF StrayInv

LEMMA OneLost ==
    ASSUME StrayInv, NEW q, Lost' \subseteq Lost \cup {q}, faults' = faults + 1
    PROVE  StrayInv'
<1>1. /\ IsFiniteSet(Lost \cup {q})
      /\ Cardinality(Lost \cup {q}) <= Cardinality(Lost) + 1
  <2>1. IsFiniteSet(Lost) /\ Cardinality(Lost) \in Nat
    BY FS_CardinalityType DEF StrayInv
  <2>2. IsFiniteSet(Lost \cup {q})
    BY <2>1, FS_AddElement
  <2>3. Cardinality(Lost \cup {q})
          = IF q \in Lost THEN Cardinality(Lost) ELSE Cardinality(Lost) + 1
    BY <2>1, FS_AddElement
  <2> QED
    BY <2>1, <2>2, <2>3
<1>2. IsFiniteSet(Lost') /\ Cardinality(Lost') <= Cardinality(Lost \cup {q})
  BY <1>1, FS_Subset
<1>3. /\ Cardinality(Lost') \in Nat /\ Cardinality(Lost) \in Nat
      /\ Cardinality(Lost \cup {q}) \in Nat
  BY <1>1, <1>2, FS_CardinalityType DEF StrayInv
<1> QED
  BY <1>1, <1>2, <1>3 DEF StrayInv

\* p goes on under the lock that it has, or has not.
LEMMA WalkLoses ==
    ASSUME OwnerInv, NEW p \in Procs, NEW place, place \notin {"spawn", "backoff"},
           Goto(p, place), inhibitors' \subseteq inhibitors, UNCHANGED <<lock, wedged, server>>
    PROVE  Lost' \subseteq Lost
BY DEF Lost, Goto, OwnerInv, HoldersOwnTheLock

\* Without an inhibitor of its own p takes the lock that is free, or lets go of it.
LEMMA LockPasses ==
    ASSUME OwnerInv, NEW p \in Procs, NEW place, place # "spawn", Goto(p, place),
           p \notin inhibitors, lock \in {p, NoProc}, UNCHANGED <<inhibitors, wedged, server>>
    PROVE  Lost' \subseteq Lost
BY ProcAssumption DEF Lost, Goto, OwnerInv, HoldersOwnTheLock

\* A death leaves its own inhibitor behind, if there is one, and no other.
LEMMA DeathLoses ==
    ASSUME OwnerInv, NEW p \in Procs, NEW q \in Procs, NEW place,
           place # "spawn", p = q \/ p \notin inhibitors,
           pc' = [pc EXCEPT ![p] = place, ![q] = "dead"], Dies(q),
           UNCHANGED <<inhibitors, server>>
    PROVE  Lost' \subseteq Lost \cup (inhibitors \cap {q})
BY DEF Lost, Dies, OwnerInv, HoldersOwnTheLock

\* An inhibitor is its daemon's, who has the lock and is in its loop, or a dead one's.
LEMMA InhibitorsAreHeld ==
    ASSUME OwnerInv
    PROVE  /\ \A q \in inhibitors : /\ pc[q] \in Looping \cup {"dead"}
                                    /\ lock = q \/ pc[q] = "dead"
           /\ \A q \in Procs : pc[q] \in Commanding \cup Starting => q \notin inhibitors
BY DEF OwnerInv, HoldersOwnTheLock, ReleaseInv, WillRelease, Keeping, Looping, Holding,
       Commanding, Starting

\* SIGTERM kills who has no inhibitor, and the SIGKILL of a takeover one that is stuck or
\* blind, or waits for the lock.
LEMMA SignalLoses ==
    ASSUME OwnerInv, NEW p \in Procs, NEW q, NEW place, place \notin {"spawn", "backoff"},
           pc[p] \in Commanding,
           Sigterm(p, q, place) \/ (~Responsive(q) /\ Sigkill(p, q, place)),
           UNCHANGED <<inhibitors, server>>
    PROVE  Lost' \subseteq Lost
<1>1. CASE /\ Alive(q) /\ pc' = [pc EXCEPT ![p] = place, ![q] = "dead"] /\ Dies(q)
           /\ pc[q] \notin Looping \/ ~Responsive(q)
  <2>1. q \in Procs /\ p \notin inhibitors
    BY <1>1, InhibitorsAreHeld DEF Alive
  <2>2. Lost' \subseteq Lost \cup (inhibitors \cap {q})
    BY <1>1, <2>1, DeathLoses
  <2>3. q \in inhibitors => ~Responsive(q)
    BY <1>1, InhibitorsAreHeld DEF Alive, Ended
  <2>4. q \in inhibitors => q \in Lost
    BY <2>1, <2>3 DEF Lost, Responsive
  <2> QED
    BY <2>2, <2>4
<1>2. CASE Goto(p, place) /\ UNCHANGED <<lock, wedged>>
  BY <1>2, WalkLoses
<1> QED
  BY <1>1, <1>2 DEF Sigterm, Sigkill, Survives

LEMMA CommandLoses ==
    ASSUME OwnerInv, NEW p \in Procs, Stopping(p) \/ Claiming(p)
    PROVE  Lost' \subseteq Lost /\ faults' = faults
<1> USE DEF At, AfterStopping, environment, files
<1>1. pc[p] \in Commanding \cup Starting
  BY DEF Stopping, Claiming, ReadHolder, SignalHolder, ProbeLock, StopTimesOut, ReleaseProbe,
         Acquire, JudgeHolder, ReadTarget, HolderRecovered, Confirmed, TerminateHolder,
         TakeLock, KillHolder, GiveUp, WritePid, InstallHandlers, Commanding, Starting
<1>2. p \notin inhibitors
  BY <1>1, InhibitorsAreHeld
<1>3. CASE ReadHolder(p) \/ StopTimesOut(p) \/ JudgeHolder(p) \/ ReadTarget(p)
           \/ HolderRecovered(p) \/ GiveUp(p) \/ WritePid(p) \/ InstallHandlers(p)
  BY <1>3, WalkLoses
  DEF ReadHolder, StopTimesOut, JudgeHolder, ReadTarget, HolderRecovered, GiveUp, WritePid,
      InstallHandlers
<1>4. CASE SignalHolder(p) \/ TerminateHolder(p) \/ KillHolder(p)
  BY <1>4, SignalLoses DEF SignalHolder, TerminateHolder, KillHolder, Commanding
<1>5. CASE ProbeLock(p) \/ TakeLock(p)
  BY <1>2, <1>5, LockPasses DEF ProbeLock, TakeLock
<1>6. CASE ReleaseProbe(p)
  <2>1. lock = p
    BY <1>6 DEF ReleaseProbe, OwnerInv, HoldersOwnTheLock, Holding
  <2> QED
    BY <1>2, <1>6, <2>1, LockPasses DEF ReleaseProbe
<1>7. CASE Acquire(p) \/ Confirmed(p)
  <2>1. CASE lock = NoProc /\ UNCHANGED <<inhibitors, wedged, server, faults>>
             /\ \E place \in {"claimed", "rejected", "term"} : Goto(p, place)
    BY <1>2, <2>1, LockPasses
  <2>2. CASE UNCHANGED <<lock, inhibitors, wedged, server, faults>>
             /\ \E place \in {"rejected", "term", "done"} : Goto(p, place)
    BY <2>2, WalkLoses
  <2> QED
    BY <1>7, <2>1, <2>2 DEF Acquire, Confirmed
<1> QED
  BY <1>3, <1>4, <1>5, <1>6, <1>7 DEF Stopping, Claiming

LEMMA RunningLoses ==
    ASSUME OwnerInv, NEW p \in Procs, Running(p)
    PROVE  Lost' \subseteq Lost /\ faults' = faults
<1> USE DEF At, environment, files
<1>1. CASE AdoptStale(p) \/ ClearReaped(p) \/ Leave(p) \/ Record(p) \/ Release(p)
           \/ Unrecord(p) \/ Report(p)
  BY <1>1, WalkLoses
  DEF AdoptStale, ClearReaped, Leave, Record, Release, Unrecord, Report, Terminated
<1>2. CASE PollServer(p)
  <2>1. lock = p /\ p \notin wedged /\ server = "up" /\ pc \in [Procs -> Places]
    BY <1>2 DEF PollServer, Polls, Runs, OwnerInv, HoldersOwnTheLock, Holding, Looping
  <2>2. PICK place \in {"report", "spawn", "release"} : Goto(p, place)
    BY <1>2 DEF PollServer
  <2> QED
    BY <1>2, <2>1, <2>2 DEF PollServer, Lost, Goto
<1>3. CASE PollGarbled(p)
  <2>1. server = "garbled" /\ pc[p] # "spawn"
    BY <1>3 DEF PollGarbled, Polls
  <2> QED
    BY <1>3, <2>1 DEF PollGarbled, Lost, Goto, OwnerInv, HoldersOwnTheLock
<1>4. CASE Spawn(p)
  BY <1>4 DEF Spawn, Lost, Goto, OwnerInv, HoldersOwnTheLock
<1>5. CASE Exit(p)
  <2>1. lock = p /\ p \notin inhibitors
    BY <1>5 DEF Exit, OwnerInv, HoldersOwnTheLock, Holding, Looping, ReleaseInv, WillRelease,
                Keeping
  <2> QED
    BY <1>5, <2>1, LockPasses DEF Exit
<1> QED
  BY <1>1, <1>2, <1>3, <1>4, <1>5 DEF Running

LEMMA EnvironmentCosts ==
    ASSUME OwnerInv, StrayInv, Environment
    PROVE  StrayInv'
<1>1. CASE \E p \in Procs, k \in {"daemon", "restart", "stop"} : Launch(p, k)
  BY <1>1, WalkLoses, NoneLost DEF Launch, environment
<1>2. CASE Tick \/ AgentsChange
  <2>1. Lost' \subseteq Lost /\ faults' = faults
    BY <1>2 DEF Tick, AgentsChange, environment, Lost
  <2> QED
    BY <2>1, NoneLost
<1>3. ASSUME NEW s \in {"up", "gone", "garbled"}, ServerChanges(s)
      PROVE  StrayInv'
  <2>1. CASE s = "garbled"
    <3>1. Lost' \subseteq Lost \cup {lock} /\ faults' = faults + 1
      BY <1>3, <2>1 DEF ServerChanges, Lost
    <3> QED
      BY <3>1, OneLost
  <2>2. CASE s # "garbled"
    <3>1. Lost' \subseteq Lost /\ faults' = faults
      BY <1>3, <2>2 DEF ServerChanges, Lost
    <3> QED
      BY <3>1, NoneLost
  <2> QED
    BY <2>1, <2>2
<1> QED
  BY <1>1, <1>2, <1>3 DEF Environment

LEMMA FaultCosts ==
    ASSUME OwnerInv, StrayInv, Fault
    PROVE  StrayInv'
<1> USE DEF At, environment
<1>1. ASSUME NEW p \in Procs, Wedge(p)
      PROVE  StrayInv'
  <2>1. Lost' \subseteq Lost \cup {p} /\ faults' = faults + 1
    BY <1>1 DEF Wedge, Lost
  <2> QED
    BY <2>1, OneLost
<1>2. ASSUME NEW p \in Procs, Unwedge(p)
      PROVE  StrayInv'
  <2>1. Lost' \subseteq Lost /\ faults' = faults
    BY <1>2 DEF Unwedge, Lost
  <2> QED
    BY <2>1, NoneLost
<1>3. ASSUME NEW p \in Procs, Kill(p)
      PROVE  StrayInv'
  <2>1. pc' = [pc EXCEPT ![p] = "dead", ![p] = "dead"]
    BY <1>3 DEF Kill, Goto, OwnerInv, HoldersOwnTheLock
  <2>2. Lost' \subseteq Lost \cup {p} /\ faults' = faults + 1
    BY <1>3, <2>1, DeathLoses DEF Kill
  <2> QED
    BY <2>2, OneLost
<1>4. ASSUME NEW p \in Procs, InhibitorDies(p) \/ SpawnFails(p) \/ RecordFails(p)
      PROVE  StrayInv'
  <2>1. Lost' \subseteq Lost /\ faults' = faults + 1
    <3>1. CASE InhibitorDies(p)
      BY <3>1 DEF InhibitorDies, Lost
    <3>2. CASE SpawnFails(p) \/ RecordFails(p)
      BY <3>2, WalkLoses DEF SpawnFails, RecordFails
    <3> QED
      BY <1>4, <3>1, <3>2
  <2> QED
    BY <2>1, OneLost
<1>5. ASSUME NEW p \in Procs, AdoptMismatch(p)
      PROVE  StrayInv'
  BY <1>5, WalkLoses, NoneLost DEF AdoptMismatch
<1>6. CASE MachineSleeps
  <2>1. Lost' \subseteq Lost \cup {NoProc} /\ faults' = faults + 1
    BY <1>6 DEF MachineSleeps, Lost
  <2> QED
    BY <2>1, OneLost
<1> QED
  BY <1>1, <1>2, <1>3, <1>4, <1>5, <1>6 DEF Fault

\* The inhibitors that run on without their daemon are no more than the faults so far,
\* recorded or not, for any number of processes and faults: what a kill leaves between
\* Popen and the record (inhibitor.py:95-107) is never multiplied by the stops, restarts
\* and takeovers that follow.
THEOREM StraysCorrect == Spec => []StraysAreCounted
<1>1. Init => OwnerInv /\ StrayInv
  <2> SUFFICES ASSUME Init
               PROVE  OwnerInv /\ StrayInv
    OBVIOUS
  <2>1. OwnerInv
    BY Times DEF Init, OwnerInv, HoldersOwnTheLock, ReleaseInv, WillRelease, Places, Holding,
                 Ended, Starting, Looping
  <2>2. Lost = {} /\ faults = 0
    BY DEF Init, Lost
  <2> QED
    BY <2>1, <2>2, FS_EmptySet DEF StrayInv
<1>2. OwnerInv /\ StrayInv /\ [Next]_vars => (OwnerInv /\ StrayInv)'
  <2> SUFFICES ASSUME OwnerInv, StrayInv, [Next]_vars
               PROVE  OwnerInv' /\ StrayInv'
    OBVIOUS
  <2>1. OwnerInv'
    BY NextHoldersOwnTheLock, NextReleases DEF OwnerInv
  <2>2. CASE UNCHANGED vars
    <3>1. Lost' \subseteq Lost /\ faults' = faults
      BY <2>2 DEF vars, environment, Lost
    <3> QED
      BY <2>1, <3>1, NoneLost
  <2>3. CASE \E p \in Procs : Step(p)
    BY <2>1, <2>3, CommandLoses, RunningLoses, NoneLost DEF Step
  <2> QED
    BY <2>1, <2>2, <2>3, EnvironmentCosts, FaultCosts DEF Next
<1>3. OwnerInv /\ StrayInv => StraysAreCounted
  <2> SUFFICES ASSUME OwnerInv, StrayInv
               PROVE  StraysAreCounted
    OBVIOUS
  <2> DEFINE strays == inhibitors \ {lock}
  <2>1. strays \subseteq Lost
    BY DEF Lost, OwnerInv, ReleaseInv
  <2>2. IsFiniteSet(strays) /\ Cardinality(strays) <= Cardinality(Lost)
    BY <2>1, FS_Subset DEF StrayInv
  <2>3. Cardinality(strays) \in Nat /\ Cardinality(Lost) \in Nat
    BY <2>2, FS_CardinalityType DEF StrayInv
  <2> QED
    BY <2>2, <2>3 DEF StrayInv, StraysAreCounted
<1> QED
  BY <1>1, <1>2, <1>3, PTL DEF Spec

-----------------------------------------------------------------------------
\* Why a daemon that polls has no foreign inhibitor left to reap.

Served == Looping \ {"adopt"}

\* Every inhibitor is on record, about to be, or beyond the reach of a record.
OnRecord == \A q \in inhibitors \ unrecorded : recorded = q \/ pc[q] = "record"

ReapInv == HoldersOwnTheLock /\ ReleaseInv /\ OnRecord /\ OrphansAreReaped

Accounted == OnRecord /\ OrphansAreReaped

\* p moves on without touching the record, and not from where it writes it.
LEMMA PassBy ==
    ASSUME ReapInv, NEW p \in Procs, NEW place, Goto(p, place),
           pc[p] # "record", place \in Served => pc[p] \in Served,
           inhibitors' \subseteq inhibitors, recorded' = recorded, unrecorded' = unrecorded
    PROVE  Accounted'
BY DEF ReapInv, Accounted, OnRecord, OrphansAreReaped, HoldersOwnTheLock, ReleaseInv, Goto,
       Served

\* A process dies; one that was about to write its record leaves none.
LEMMA DeathPasses ==
    ASSUME ReapInv, NEW p \in Procs, NEW q \in Procs, NEW place,
           place \notin Looping, p = q \/ pc[p] # "record",
           pc' = [pc EXCEPT ![p] = place, ![q] = "dead"], Dies(q),
           UNCHANGED <<inhibitors, recorded>>
    PROVE  Accounted'
<1>1. unrecorded' = IF pc[q] = "record" THEN unrecorded \cup {q} ELSE unrecorded
  BY DEF Dies
<1>2. pc \in [Procs -> Places] /\ inhibitors \subseteq Procs /\ "dead" \notin Looping
  BY DEF ReapInv, HoldersOwnTheLock, ReleaseInv, Looping
<1>3. \A r \in Procs : pc'[r] = pc[r] \/ (pc'[r] \notin Looping /\ (r = q \/ pc[r] # "record"))
  BY <1>2
<1>4. OnRecord'
  BY <1>1, <1>2, <1>3 DEF ReapInv, OnRecord
<1>5. OrphansAreReaped'
  BY <1>1, <1>2, <1>3 DEF ReapInv, OrphansAreReaped
<1> QED
  BY <1>4, <1>5 DEF Accounted

LEMMA SignalPasses ==
    ASSUME ReapInv, NEW p \in Procs, NEW q, NEW place, place \notin Looping,
           pc[p] # "record", Sigterm(p, q, place) \/ Sigkill(p, q, place),
           UNCHANGED <<inhibitors, recorded>>
    PROVE  Accounted'
<1>1. CASE Alive(q) /\ pc' = [pc EXCEPT ![p] = place, ![q] = "dead"] /\ Dies(q)
  BY <1>1, DeathPasses DEF Alive
<1>2. CASE Goto(p, place) /\ unrecorded' = unrecorded
  BY <1>2, PassBy DEF Served
<1> QED
  BY <1>1, <1>2 DEF Sigterm, Sigkill, Survives

\* Nothing is spawned, reaped or recorded on the way to the loop.
LEMMA CommandPasses ==
    ASSUME ReapInv, NEW p \in Procs, Stopping(p) \/ Claiming(p)
    PROVE  Accounted'
<1> USE DEF Looping, Served, At, files, history
<1>1. ASSUME NEW place, Goto(p, place), place \notin Served, pc[p] # "record",
             UNCHANGED <<inhibitors, recorded, unrecorded>>
      PROVE  Accounted'
  BY <1>1, PassBy
<1>2. ASSUME ReadHolder(p) \/ ProbeLock(p) \/ StopTimesOut(p) \/ ReleaseProbe(p)
      PROVE  Accounted'
  BY <1>1, <1>2 DEF ReadHolder, ProbeLock, StopTimesOut, ReleaseProbe, AfterStopping
<1>3. ASSUME SignalHolder(p) \/ TerminateHolder(p) \/ KillHolder(p)
      PROVE  Accounted'
  BY <1>3, SignalPasses DEF SignalHolder, TerminateHolder, KillHolder, AfterStopping
<1>4. ASSUME Acquire(p) \/ JudgeHolder(p) \/ ReadTarget(p) \/ HolderRecovered(p) \/ Confirmed(p)
      PROVE  Accounted'
  BY <1>1, <1>4 DEF Acquire, JudgeHolder, ReadTarget, HolderRecovered, Confirmed
<1>5. ASSUME TakeLock(p) \/ GiveUp(p) \/ WritePid(p) \/ InstallHandlers(p)
      PROVE  Accounted'
  BY <1>1, <1>5 DEF TakeLock, GiveUp, WritePid, InstallHandlers
<1> QED
  BY <1>2, <1>3, <1>4, <1>5 DEF Stopping, Claiming

\* A daemon that is served moves with no other inhibitor than its own around.
LEMMA OnlyItsOwn ==
    ASSUME ReapInv, NEW p \in Procs, NEW place, Goto(p, place), pc[p] \in Looping,
           inhibitors' \subseteq {p} \cup unrecorded',
           p \in inhibitors' \ unrecorded' => recorded' = p \/ place = "record"
    PROVE  Accounted'
<1>1. \A r \in Procs : pc'[r] \in Looping => r = p
  BY DEF ReapInv, HoldersOwnTheLock, Holding, Goto
<1>2. OrphansAreReaped'
  BY <1>1 DEF OrphansAreReaped
<1>3. OnRecord'
  BY DEF OnRecord, Goto, ReapInv, HoldersOwnTheLock
<1> QED
  BY <1>2, <1>3 DEF Accounted

\* In a daemon that has the lock and reaps, nobody else is about to write a
\* record: all the inhibitors that can be found are on record.
LEMMA RecordIsAll ==
    ASSUME ReapInv, NEW p \in Procs, pc[p] = "adopt"
    PROVE  inhibitors \subseteq {recorded} \cup unrecorded
BY DEF ReapInv, OnRecord, HoldersOwnTheLock, ReleaseInv, Holding, Looping

LEMMA RunningPasses ==
    ASSUME ReapInv, NEW p \in Procs, Running(p)
    PROVE  Accounted'
<1> USE DEF Looping, Served, At, files, history
<1>o. pc[p] \in Served => inhibitors \subseteq {p} \cup unrecorded
  BY DEF ReapInv, OrphansAreReaped
<1>r. p \in inhibitors => pc[p] \in Keeping \cup {"dead"}
  BY DEF ReapInv, ReleaseInv, WillRelease
<1>1. CASE AdoptStale(p)
  <2>1. inhibitors' \subseteq unrecorded' /\ pc[p] = "adopt"
    BY <1>1, RecordIsAll DEF AdoptStale, Terminated
  <2> QED
    BY <1>1, <2>1, OnlyItsOwn DEF AdoptStale
<1>2. ASSUME ClearReaped(p) \/ Unrecord(p)
      PROVE  Accounted'
  BY <1>2, <1>o, <1>r, OnlyItsOwn DEF ClearReaped, Unrecord, Keeping
<1>3. ASSUME PollServer(p) \/ PollGarbled(p) \/ Leave(p)
      PROVE  Accounted'
  BY <1>3, PassBy DEF PollServer, PollGarbled, Leave, Polls
<1>4. ASSUME Release(p) \/ Report(p) \/ Exit(p)
      PROVE  Accounted'
  BY <1>4, PassBy DEF Release, Terminated, Report, Exit
<1>5. CASE Spawn(p)
  <2>1. CASE p \in inhibitors
    BY <1>5, <2>1, PassBy DEF Spawn
  <2>2. CASE p \notin inhibitors
    BY <1>5, <2>2, <1>o, OnlyItsOwn DEF Spawn
  <2> QED
    BY <2>1, <2>2
<1>6. CASE Record(p)
  BY <1>6, <1>o, OnlyItsOwn DEF Record
<1> QED
  BY <1>1, <1>2, <1>3, <1>4, <1>5, <1>6 DEF Running

\* Nobody moves, and no inhibitor appears.
LEMMA NobodyPasses ==
    ASSUME ReapInv, UNCHANGED <<pc, recorded, unrecorded>>, inhibitors' \subseteq inhibitors
    PROVE  Accounted'
BY DEF ReapInv, Accounted, OnRecord, OrphansAreReaped

LEMMA EnvironmentPasses ==
    ASSUME ReapInv, Environment
    PROVE  Accounted'
<1> USE DEF files, history
<1>1. CASE \E p \in Procs, k \in {"daemon", "restart", "stop"} : Launch(p, k)
  BY <1>1, PassBy DEF Launch, Served, Looping
<1>2. CASE Tick
  BY <1>2, NobodyPasses DEF Tick
<1>3. CASE \E s \in {"up", "gone", "garbled"} : ServerChanges(s)
  BY <1>3, NobodyPasses DEF ServerChanges
<1>4. CASE AgentsChange
  BY <1>4, NobodyPasses DEF AgentsChange
<1> QED
  BY <1>1, <1>2, <1>3, <1>4 DEF Environment

LEMMA FaultPasses ==
    ASSUME ReapInv, Fault
    PROVE  Accounted'
<1> USE DEF files, history
<1>1. ASSUME NEW p \in Procs, Wedge(p) \/ Unwedge(p) \/ InhibitorDies(p)
      PROVE  Accounted'
  BY <1>1, NobodyPasses DEF Wedge, Unwedge, InhibitorDies
<1>2. ASSUME NEW p \in Procs, Kill(p)
      PROVE  Accounted'
  <2>1. pc' = [pc EXCEPT ![p] = "dead", ![p] = "dead"] /\ "dead" \notin Looping
    BY <1>2 DEF Kill, Goto, Looping
  <2> QED
    BY <1>2, <2>1, DeathPasses DEF Kill
<1>3. ASSUME NEW p \in Procs, SpawnFails(p)
      PROVE  Accounted'
  BY <1>3, PassBy DEF SpawnFails, At, Served, Looping
<1>4. ASSUME NEW p \in Procs, RecordFails(p)
      PROVE  Accounted'
  BY <1>4, OnlyItsOwn DEF RecordFails, At, Looping, ReapInv, OrphansAreReaped
<1>5. ASSUME NEW p \in Procs, AdoptMismatch(p)
      PROVE  Accounted'
  <2>1. inhibitors' \subseteq unrecorded' /\ pc[p] = "adopt"
    BY <1>5, RecordIsAll DEF AdoptMismatch, At
  <2> QED
    BY <1>5, <2>1, OnlyItsOwn DEF AdoptMismatch, Looping
<1>6. CASE MachineSleeps
  BY <1>6, NobodyPasses DEF MachineSleeps
<1> QED
  BY <1>1, <1>2, <1>3, <1>4, <1>5, <1>6 DEF Fault

\* Over any number of kills, takeovers and restarts, no other inhibitor than
\* its own keeps the machine awake once a daemon polls, save for those that were
\* never on record or whose record adopt_stale() dropped (inhibitor.py).
THEOREM OrphansCorrect == Spec => []OrphansAreReaped
<1>1. Init => HoldersOwnTheLock /\ ReleaseInv /\ Accounted
  BY Times DEF Init, HoldersOwnTheLock, ReleaseInv, WillRelease, Accounted, OnRecord,
               OrphansAreReaped, Places, Holding, Ended, Starting, Looping
<1>2. HoldersOwnTheLock /\ ReleaseInv /\ Accounted /\ [Next]_vars => Accounted'
  <2> SUFFICES ASSUME ReapInv, [Next]_vars
               PROVE  Accounted'
    BY DEF ReapInv, Accounted
  <2>1. CASE UNCHANGED vars
    BY <2>1, NobodyPasses DEF vars, files, history
  <2>2. CASE \E p \in Procs : Step(p)
    BY <2>2, CommandPasses, RunningPasses DEF Step
  <2> QED
    BY <2>1, <2>2, EnvironmentPasses, FaultPasses DEF Next
<1>3. Accounted => OrphansAreReaped
  BY DEF Accounted
<1> QED
  BY <1>1, <1>2, <1>3, NextHoldersOwnTheLock, NextReleases, PTL DEF Spec

-----------------------------------------------------------------------------
\* Idle times: why an inhibitor is released after idleGraceSec, neither sooner nor later.

\* Sleeps and idle times keep within what the configuration allows: a daemon never
\* sleeps longer than its poll interval.
Sleeps(p) ==
    /\ mem[p].nap >= 0
    /\ mem[p].idle \in NotIdle .. Grace
    /\ pc[p] \in Looping \cup {"named"} => mem[p].nap <= PollInterval

\* A tracker counts no more idle time than has passed since a poll found an active
\* pane, and releases an inhibitor only when it has counted idleGraceSec.
Earned(p) ==
    /\ pc[p] \in Looping /\ p \in inhibitors => mem[p].idle <= quiet
    /\ pc[p] = "spawn" => mem[p].idle = NotIdle
    /\ pc[p] = "release" /\ ~mem[p].leaving => mem[p].idle >= Grace

\* Without faults, the idle time a tracker has counted lags at most one poll interval
\* behind, and the daemon that sleeps wakes before it has counted idleGraceSec.
Timely(p) ==
    /\ pc[p] # "backoff"
    /\ pc[p] = "spawn" => quiet = 0 /\ mem[p].holding
    /\ p \in inhibitors /\ pc[p] \in Keeping \ {"release"} => mem[p].holding
    /\ p \in inhibitors /\ pc[p] \in {"spawn", "record", "report"} =>
         quiet <= IF mem[p].idle = NotIdle THEN 0 ELSE mem[p].idle + PollInterval
    /\ p \in inhibitors /\ pc[p] = "poll" =>
         IF mem[p].idle = NotIdle
         THEN quiet + mem[p].nap <= PollInterval
         ELSE quiet <= mem[p].idle + PollInterval /\ mem[p].nap <= Grace - mem[p].idle

Counts(p) == Sleeps(p) /\ Earned(p) /\ (faults = 0 => Timely(p))

Counters ==
    /\ quiet \in Nat
    /\ faults \in Nat
    /\ faults = 0 => wedged = {} /\ server # "garbled"

CountInv == Counters /\ \A p \in Procs : Counts(p)

BaseInv == HoldersOwnTheLock /\ ReleaseInv

USE TimingAssumption DEF NotIdle

\* Who stays where it is keeps its count.
LEMMA Settled ==
    ASSUME BaseInv, CountInv, NEW p \in Procs, pc'[p] = pc[p],
           mem'[p].nap = mem[p].nap, mem'[p].idle = mem[p].idle,
           mem'[p].leaving = mem[p].leaving, mem'[p].holding = mem[p].holding,
           p \in inhibitors' => p \in inhibitors,
           quiet' = quiet, faults' = 0 => faults = 0
    PROVE  Counts(p)'
BY DEF CountInv, Counts, Sleeps, Earned, Timely

\* Outside the loop nothing is counted.
LEMMA Outside ==
    ASSUME NEW p \in Procs, pc'[p] \notin Looping,
           mem'[p].nap >= 0, mem'[p].idle \in NotIdle .. Grace,
           pc'[p] = "named" => mem'[p].nap <= PollInterval
    PROVE  Counts(p)'
BY DEF Counts, Sleeps, Earned, Timely, Looping, Keeping

\* p moves, and nobody else is touched.
LEMMA OneCounts ==
    ASSUME BaseInv, CountInv, NEW p \in Procs, Counts(p)',
           \A q \in Procs \ {p} : pc'[q] = pc[q] /\ mem'[q] = mem[q],
           inhibitors' \subseteq inhibitors \cup {p},
           quiet' = quiet, faults' \in Nat, faults' = 0 => faults = 0,
           wedged' \subseteq wedged, server' = server
    PROVE  CountInv'
<1>1. \A q \in Procs \ {p} : Counts(q)'
  BY Settled
<1>2. Counters'
  BY DEF CountInv, Counters
<1> QED
  BY <1>1, <1>2 DEF CountInv

\* A command moves on, and is no daemon.
LEMMA CommandCounts ==
    ASSUME BaseInv, CountInv, NEW p \in Procs, NEW place, Goto(p, place),
           place \notin Looping \cup {"named"}, UNCHANGED <<mem, inhibitors, quiet, faults, wedged, server>>
    PROVE  CountInv'
<1>1. pc' = [pc EXCEPT ![p] = place] /\ pc \in [Procs -> Places]
  BY DEF Goto, BaseInv, HoldersOwnTheLock
<1>2. Counts(p)'
  BY <1>1, Outside DEF CountInv, Counts, Sleeps
<1> QED
  BY <1>1, <1>2, OneCounts DEF CountInv, Counters

LEMMA SignalCounts ==
    ASSUME BaseInv, CountInv, NEW p \in Procs, NEW q, NEW place,
           place \notin Looping \cup {"named"},
           Sigterm(p, q, place) \/ Sigkill(p, q, place),
           UNCHANGED <<inhibitors, quiet, faults, server>>
    PROVE  CountInv'
<1>0. pc \in [Procs -> Places] /\ mem \in [Procs -> Memory]
  BY DEF BaseInv, HoldersOwnTheLock, ReleaseInv
<1>1. CASE Alive(q) /\ pc' = [pc EXCEPT ![p] = place, ![q] = "dead"] /\ Dies(q)
  <2>1. q \in Procs /\ mem' = [mem EXCEPT ![q] = Fresh] /\ wedged' \subseteq wedged
    BY <1>1 DEF Alive, Dies
  <2>2. Counts(q)'
    BY <1>0, <1>1, <2>1, Outside DEF Fresh, Looping
  <2>3. p # q => Counts(p)'
    BY <1>0, <1>1, <2>1, Outside DEF CountInv, Counts, Sleeps
  <2>4. \A r \in Procs \ {p, q} : Counts(r)'
    BY <1>0, <1>1, <2>1, Settled
  <2>5. Counters'
    BY <2>1 DEF CountInv, Counters
  <2> QED
    BY <2>2, <2>3, <2>4, <2>5 DEF CountInv
<1>2. CASE Goto(p, place) /\ UNCHANGED <<mem, wedged>>
  BY <1>2, CommandCounts
<1>3. CASE Goto(p, place) /\ Alive(q) /\ mem' = [mem EXCEPT ![q].stop = TRUE] /\ wedged' = wedged
  <2>1. q \in Procs
    BY <1>3 DEF Alive
  <2>2. \A r \in Procs : /\ mem'[r].nap = mem[r].nap /\ mem'[r].idle = mem[r].idle
                         /\ mem'[r].leaving = mem[r].leaving /\ mem'[r].holding = mem[r].holding
    BY <1>0, <1>3, <2>1 DEF Memory
  <2>3. Counts(p)'
    BY <1>0, <1>3, <2>2, Outside DEF Goto, CountInv, Counts, Sleeps
  <2>4. \A r \in Procs \ {p} : Counts(r)'
    BY <1>0, <1>3, <2>2, Settled DEF Goto
  <2>5. Counters'
    BY <1>3 DEF CountInv, Counters
  <2> QED
    BY <2>3, <2>4, <2>5 DEF CountInv
<1> QED
  BY <1>1, <1>2, <1>3 DEF Sigterm, Sigkill, Survives

LEMMA StoppingCounts ==
    ASSUME BaseInv, CountInv, NEW p \in Procs, Stopping(p)
    PROVE  CountInv'
<1> USE DEF Looping, AfterStopping, files, environment, history
<1>1. CASE ReadHolder(p)
  BY <1>1, CommandCounts DEF ReadHolder
<1>2. CASE SignalHolder(p)
  BY <1>2, SignalCounts DEF SignalHolder
<1>3. CASE ProbeLock(p)
  BY <1>3, CommandCounts DEF ProbeLock
<1>4. CASE StopTimesOut(p)
  BY <1>4, CommandCounts DEF StopTimesOut
<1>5. CASE ReleaseProbe(p)
  BY <1>5, CommandCounts DEF ReleaseProbe
<1> QED
  BY <1>1, <1>2, <1>3, <1>4, <1>5 DEF Stopping

LEMMA ClaimingCounts ==
    ASSUME BaseInv, CountInv, NEW p \in Procs, Claiming(p)
    PROVE  CountInv'
<1> USE DEF Looping, files, environment, history
<1>0. /\ pc \in [Procs -> Places] /\ mem \in [Procs -> Memory] /\ faults \in Nat
      /\ Sleeps(p)
  BY DEF BaseInv, HoldersOwnTheLock, ReleaseInv, CountInv, Counters, Counts
<1>1. ASSUME NEW place, Goto(p, place), NEW m \in Memory, mem' = [mem EXCEPT ![p] = m],
             place \notin Looping, m.nap >= 0, m.idle \in NotIdle .. Grace,
             place = "named" => m.nap <= PollInterval,
             UNCHANGED <<inhibitors, quiet, faults, wedged, server>>
      PROVE  CountInv'
  <2>1. Counts(p)'
    BY <1>0, <1>1, Outside DEF Goto
  <2> QED
    BY <1>0, <1>1, <2>1, OneCounts DEF Goto
<1>2. CASE Acquire(p) \/ JudgeHolder(p) \/ Confirmed(p) \/ TakeLock(p) \/ GiveUp(p)
  BY <1>2, CommandCounts DEF Acquire, JudgeHolder, Confirmed, TakeLock, GiveUp
<1>3. CASE ReadTarget(p)
  <2> DEFINE m == [mem[p] EXCEPT !.nap = ConfirmDelay]
  <2>1. m \in Memory /\ m.nap >= 0 /\ m.idle = mem[p].idle
    BY <1>0, Times DEF Memory
  <2>2. mem' = [mem EXCEPT ![p] = m]
    BY <1>3 DEF ReadTarget
  <2>3. Goto(p, "confirm") /\ UNCHANGED <<inhibitors, quiet, faults, wedged, server>>
    BY <1>3 DEF ReadTarget
  <2> HIDE DEF m
  <2>4. m.idle \in NotIdle .. Grace
    BY <1>0, <2>1 DEF Sleeps
  <2>5. Counts(p)'
    BY <1>0, <2>1, <2>2, <2>3, <2>4, Outside DEF Goto
  <2> QED
    BY <1>0, <2>1, <2>2, <2>3, <2>5, OneCounts DEF Goto
<1>4. CASE HolderRecovered(p) \/ WritePid(p)
  <2>1. Fresh.nap = 0 /\ Fresh.idle = NotIdle /\ Fresh \in Memory
    BY Times DEF Fresh
  <2> QED
    BY <1>1, <1>4, <2>1 DEF HolderRecovered, WritePid
<1>5. CASE TerminateHolder(p) \/ KillHolder(p)
  BY <1>5, SignalCounts DEF TerminateHolder, KillHolder
<1>6. CASE InstallHandlers(p)
  <2>1. /\ pc[p] = "named" /\ pc' = [pc EXCEPT ![p] = "adopt"]
        /\ UNCHANGED <<mem, inhibitors, quiet, faults, wedged, server>>
    BY <1>6 DEF InstallHandlers, At, Goto
  <2>2. p \notin inhibitors
    BY <2>1 DEF BaseInv, ReleaseInv, WillRelease, Keeping
  <2>3. Counts(p)'
    BY <1>0, <2>1, <2>2 DEF Counts, Sleeps, Earned, Timely
  <2> QED
    BY <1>0, <2>1, <2>3, OneCounts
<1> QED
  BY <1>2, <1>3, <1>4, <1>5, <1>6 DEF Claiming

\* What a poll makes of the count.
LEMMA Polled ==
    ASSUME NEW m \in Memory, m.idle \in NotIdle .. Grace, m.nap >= 0
    PROVE  LET n == Updated(m)
           IN  /\ n.nap = m.nap /\ n.idle \in NotIdle .. Grace
               /\ working => n.idle = NotIdle /\ n.holding
               /\ ~working => /\ n.idle = IF m.idle = NotIdle THEN 0 ELSE m.idle
                              /\ n.holding = (m.holding /\ n.idle < Grace)
<1>1. CASE working
  BY <1>1 DEF Updated, Memory
<1>2. CASE ~working
  <2> DEFINE idle == IF m.idle = NotIdle THEN 0 ELSE m.idle
  <2>1. idle \in 0 .. Grace
    OBVIOUS
  <2>2. Updated(m) = [m EXCEPT !.idle = idle, !.holding = m.holding /\ idle < Grace]
    BY <1>2 DEF Updated
  <2> HIDE DEF idle
  <2>3. Updated(m).nap = m.nap /\ Updated(m).idle = idle /\ Updated(m).holding = (m.holding /\ idle < Grace)
    BY <2>2 DEF Memory
  <2> QED
    BY <1>2, <2>1, <2>3 DEF idle
<1> QED
  BY <1>1, <1>2

\* The next sleep ends before a release is due.
LEMMA WakesInTime ==
    ASSUME NEW m \in Memory, m.idle \in NotIdle .. Grace
    PROVE  /\ NextWakeup(m) \in 0 .. PollInterval
           /\ m.holding /\ m.idle # NotIdle => NextWakeup(m) <= Grace - m.idle
BY DEF NextWakeup, Memory

LEMMA PollCounts ==
    ASSUME BaseInv, CountInv, NEW p \in Procs, PollServer(p)
    PROVE  CountInv'
<1> DEFINE m == Updated(mem[p])
<1>0. /\ pc \in [Procs -> Places] /\ mem \in [Procs -> Memory]
      /\ Counts(p) /\ Counters /\ WillRelease(p)
  BY DEF BaseInv, HoldersOwnTheLock, ReleaseInv, CountInv
<1>1. /\ pc[p] \in {"poll", "backoff"} /\ mem[p].nap = 0
      /\ mem' = [mem EXCEPT ![p] = m]
      /\ Goto(p, IF m.holding = mem[p].holding THEN "report"
                 ELSE IF m.holding THEN "spawn" ELSE "release")
      /\ quiet' = IF working THEN 0 ELSE quiet
      /\ UNCHANGED <<inhibitors, faults, wedged, server>>
  BY DEF PollServer, Polls, At, environment
<1>2. /\ m \in Memory /\ m.leaving = mem[p].leaving
      /\ m.nap = 0 /\ m.idle \in NotIdle .. Grace
      /\ working => m.idle = NotIdle /\ m.holding
      /\ ~working => /\ m.idle = IF mem[p].idle = NotIdle THEN 0 ELSE mem[p].idle
                     /\ m.holding = (mem[p].holding /\ m.idle < Grace)
  BY <1>0, <1>1, Polled, TrackerSound DEF Counts, Sleeps
<1> HIDE DEF m
<1>3. mem'[p] = m /\ pc'[p] \in {"report", "spawn", "release"}
  BY <1>0, <1>1 DEF Goto
<1>4. Sleeps(p)'
  BY <1>2, <1>3 DEF Sleeps
<1>5. Earned(p)'
  <2>1. m.idle <= quiet' \/ p \notin inhibitors
    BY <1>0, <1>1, <1>2 DEF Counts, Earned, Counters, Looping
  <2>2. pc'[p] = "spawn" => m.idle = NotIdle
    BY <1>0, <1>1, <1>2, <1>3 DEF Goto, Memory
  <2>3. pc'[p] = "release" => m.idle >= Grace
    BY <1>0, <1>1, <1>2, <1>3 DEF Goto, Memory
  <2> QED
    BY <1>1, <1>3, <2>1, <2>2, <2>3 DEF Earned
<1>6. (faults = 0 => Timely(p))'
  <2> SUFFICES ASSUME faults = 0 PROVE Timely(p)'
    BY <1>1
  <2>1. Timely(p) /\ pc[p] = "poll"
    BY <1>0, <1>1 DEF Counts, Timely
  <2>2. pc'[p] = "spawn" => quiet' = 0 /\ m.holding
    BY <1>0, <1>1, <1>2, <1>3 DEF Goto, Memory
  <2>3. p \in inhibitors => mem[p].holding
    BY <2>1 DEF Timely, Keeping
  <2>4. p \in inhibitors /\ pc'[p] # "release" => m.holding /\ pc'[p] = "report"
    BY <1>0, <1>1, <1>2, <1>3, <2>3 DEF Goto, Memory
  <2>5. p \in inhibitors => quiet' <= IF m.idle = NotIdle THEN 0 ELSE m.idle + PollInterval
    BY <1>0, <1>1, <1>2, <2>1 DEF Timely, Counters, Counts, Sleeps
  <2> QED
    BY <1>1, <1>3, <2>2, <2>4, <2>5 DEF Timely, Keeping
<1>7. \A q \in Procs \ {p} : Counts(q)'
  <2> SUFFICES ASSUME NEW q \in Procs \ {p} PROVE Counts(q)'
    OBVIOUS
  <2>1. pc'[q] = pc[q] /\ mem'[q] = mem[q] /\ pc[q] \notin Looping
    BY <1>0, <1>1 DEF BaseInv, HoldersOwnTheLock, Holding, Looping, Goto
  <2> QED
    BY <2>1, Outside DEF CountInv, Counts, Sleeps
<1>8. Counters'
  BY <1>0, <1>1 DEF Counters
<1> QED
  BY <1>4, <1>5, <1>6, <1>7, <1>8 DEF CountInv, Counts

LEMMA RunningCounts ==
    ASSUME BaseInv, CountInv, NEW p \in Procs, Running(p)
    PROVE  CountInv'
<1> USE DEF Looping, Keeping, files, environment, history
<1>0. /\ pc \in [Procs -> Places] /\ mem \in [Procs -> Memory] /\ faults \in Nat
      /\ Counts(p) /\ WillRelease(p) /\ Counters
  BY DEF BaseInv, HoldersOwnTheLock, ReleaseInv, CountInv, Counters
<1>1. ASSUME NEW place, Goto(p, place), mem' = mem, inhibitors' \subseteq inhibitors \cup {p},
             UNCHANGED <<quiet, faults, wedged, server>>, Counts(p)'
      PROVE  CountInv'
  BY <1>0, <1>1, OneCounts DEF Goto
<1>2. CASE AdoptStale(p) \/ ClearReaped(p) \/ Record(p) \/ Unrecord(p)
  <2>1. PICK place \in {"reaped", "poll", "report"} :
            /\ Goto(p, place) /\ inhibitors' \subseteq inhibitors
            /\ UNCHANGED <<mem, quiet, faults, wedged, server>>
            /\ pc[p] \in {"adopt", "reaped", "record", "unrecord"}
            /\ pc[p] = "record" => place = "report"
    BY <1>2 DEF AdoptStale, Terminated, ClearReaped, Record, Unrecord, At
  <2>2. pc'[p] = place
    BY <1>0, <2>1 DEF Goto
  <2>3. Counts(p)'
    BY <1>0, <2>1, <2>2 DEF WillRelease, Counts, Sleeps, Earned, Timely
  <2> QED
    BY <1>1, <2>1, <2>3
<1>3. CASE PollServer(p)
  BY <1>3, PollCounts
<1>4. CASE PollGarbled(p)
  <2> DEFINE m == [mem[p] EXCEPT !.nap = PollInterval]
  <2>1. /\ m.nap = PollInterval /\ m.idle = mem[p].idle
    BY <1>0 DEF Memory
  <2>2. /\ mem' = [mem EXCEPT ![p] = m] /\ Goto(p, "backoff") /\ faults # 0
        /\ pc[p] \in {"poll", "backoff"}
        /\ UNCHANGED <<inhibitors, quiet, faults, wedged, server>>
    BY <1>0, <1>4 DEF PollGarbled, Polls, At, Counters
  <2> HIDE DEF m
  <2>3. mem'[p] = m /\ pc'[p] = "backoff"
    BY <1>0, <2>2 DEF Goto
  <2>4. Counts(p)'
    BY <1>0, <2>1, <2>2, <2>3 DEF Counts, Sleeps, Earned
  <2> QED
    BY <1>0, <2>2, <2>4, OneCounts DEF Goto
<1>5. CASE Leave(p)
  <2> DEFINE m == [mem[p] EXCEPT !.leaving = TRUE]
  <2>1. m.nap = mem[p].nap /\ m.idle = mem[p].idle /\ m.leaving /\ m.holding = mem[p].holding
    BY <1>0 DEF Memory
  <2>2. /\ mem' = [mem EXCEPT ![p] = m] /\ Goto(p, "release")
        /\ pc[p] \in {"poll", "backoff"}
        /\ UNCHANGED <<inhibitors, quiet, faults, wedged, server>>
    BY <1>5 DEF Leave, Polls, At
  <2> HIDE DEF m
  <2>3. mem'[p] = m /\ pc'[p] = "release"
    BY <1>0, <2>2 DEF Goto
  <2>4. Counts(p)'
    BY <1>0, <2>1, <2>2, <2>3 DEF Counts, Sleeps, Earned, Timely
  <2> QED
    BY <1>0, <2>2, <2>4, OneCounts DEF Goto
<1>6. CASE Spawn(p)
  <2>1. /\ pc[p] = "spawn" /\ Goto(p, IF p \in inhibitors THEN "report" ELSE "record")
        /\ inhibitors' = inhibitors \cup {p} /\ UNCHANGED <<mem, quiet, faults, wedged, server>>
    BY <1>6 DEF Spawn, At
  <2>2. mem[p].idle = NotIdle /\ quiet \in Nat
    BY <1>0, <2>1 DEF Counts, Earned, Counters
  <2>3. faults = 0 => mem[p].holding /\ quiet = 0
    BY <1>0, <2>1 DEF Counts, Timely
  <2>4. pc'[p] \in {"report", "record"}
    BY <1>0, <2>1 DEF Goto
  <2>5. Counts(p)'
    BY <1>0, <2>1, <2>2, <2>3, <2>4 DEF Counts, Sleeps, Earned, Timely
  <2> QED
    BY <1>1, <2>1, <2>5
<1>7. CASE Release(p)
  <2>1. /\ pc[p] = "release" /\ Goto(p, "unrecord") /\ inhibitors' = inhibitors \ {p}
        /\ UNCHANGED <<mem, quiet, faults, wedged, server>>
    BY <1>7 DEF Release, Terminated, At
  <2>2. pc'[p] = "unrecord"
    BY <1>0, <2>1 DEF Goto
  <2>3. Counts(p)'
    BY <1>0, <2>1, <2>2 DEF Counts, Sleeps, Earned, Timely
  <2> QED
    BY <1>1, <2>1, <2>3
<1>8. CASE Report(p)
  <2>0. /\ pc[p] = "report" /\ UNCHANGED <<inhibitors, quiet, faults, wedged, server>>
    BY <1>8 DEF Report, At
  <2>1. CASE mem[p].leaving
    <3>1. Goto(p, "exit") /\ mem' = mem /\ p \notin inhibitors
      BY <1>0, <1>8, <2>0, <2>1 DEF Report, WillRelease
    <3>2. pc'[p] = "exit"
      BY <1>0, <3>1 DEF Goto
    <3>3. Counts(p)'
      BY <1>0, <2>0, <3>1, <3>2 DEF Counts, Sleeps, Earned, Timely
    <3> QED
      BY <1>1, <2>0, <3>1, <3>3
  <2>2. CASE ~mem[p].leaving
    <3> DEFINE m == [mem[p] EXCEPT !.nap = NextWakeup(mem[p])]
    <3>1. /\ m.nap \in 0 .. PollInterval /\ m.idle = mem[p].idle /\ m.holding = mem[p].holding
          /\ m.holding /\ m.idle # NotIdle => m.nap <= Grace - m.idle
      BY <1>0, WakesInTime DEF Memory, Counts, Sleeps
    <3>2. mem' = [mem EXCEPT ![p] = m] /\ Goto(p, "poll")
      BY <1>8, <2>2 DEF Report
    <3> HIDE DEF m
    <3>3. mem'[p] = m /\ pc'[p] = "poll"
      BY <1>0, <3>2 DEF Goto
    <3>4. Sleeps(p)' /\ Earned(p)'
      BY <1>0, <2>0, <3>1, <3>3 DEF Counts, Sleeps, Earned
    <3>5. (faults = 0 => Timely(p))'
      <4> SUFFICES ASSUME faults = 0 PROVE Timely(p)'
        BY <2>0
      <4>1. p \in inhibitors => /\ mem[p].holding
                                /\ quiet <= IF mem[p].idle = NotIdle THEN 0 ELSE mem[p].idle + PollInterval
        BY <1>0, <2>0 DEF Counts, Timely
      <4>2. CASE m.idle = NotIdle
        BY <1>0, <2>0, <3>1, <3>3, <4>1, <4>2 DEF Timely, Counters
      <4>3. CASE m.idle # NotIdle
        BY <1>0, <2>0, <3>1, <3>3, <4>1, <4>3 DEF Timely, Counters
      <4> QED
        BY <4>2, <4>3
    <3> QED
      BY <1>0, <2>0, <3>2, <3>4, <3>5, OneCounts DEF Goto, Counts
  <2> QED
    BY <2>1, <2>2
<1>9. CASE Exit(p)
  <2>1. /\ mem' = [mem EXCEPT ![p] = Fresh] /\ Goto(p, "done")
        /\ UNCHANGED <<inhibitors, quiet, faults, wedged, server>>
    BY <1>9 DEF Exit
  <2>2. Counts(p)'
    BY <1>0, <2>1, Outside DEF Goto, Fresh
  <2> QED
    BY <1>0, <2>1, <2>2, OneCounts DEF Goto
<1> QED
  BY <1>2, <1>3, <1>4, <1>5, <1>6, <1>7, <1>8, <1>9 DEF Running

\* A clock unit is one more for the memory of every process that runs.
LEMMA OlderCounts ==
    ASSUME NEW m \in Memory, m.nap >= 0, m.idle \in NotIdle .. Grace
    PROVE  LET n == Older(m)
           IN  /\ n.leaving = m.leaving /\ n.holding = m.holding
               /\ n.nap = IF m.nap > 0 THEN m.nap - 1 ELSE 0
               /\ n.idle = IF m.idle = NotIdle THEN NotIdle
                           ELSE IF m.idle < Grace THEN m.idle + 1 ELSE Grace
<1> DEFINE nap == IF m.nap > 0 THEN m.nap - 1 ELSE 0
           idle == IF m.idle = NotIdle THEN m.idle ELSE AtMost(m.idle + 1, Grace)
<1>1. Older(m) = [m EXCEPT !.nap = nap, !.idle = idle]
  BY DEF Older
<1>2. idle = IF m.idle = NotIdle THEN NotIdle
             ELSE IF m.idle < Grace THEN m.idle + 1 ELSE Grace
  BY DEF AtMost
<1> HIDE DEF nap, idle
<1>3. /\ Older(m).leaving = m.leaving /\ Older(m).holding = m.holding
      /\ Older(m).nap = nap /\ Older(m).idle = idle
  BY <1>1 DEF Memory
<1> QED
  BY <1>2, <1>3 DEF nap

LEMMA TickCounts ==
    ASSUME BaseInv, CountInv, Tick
    PROVE  CountInv'
<1>0. /\ mem \in [Procs -> Memory] /\ inhibitors \subseteq Procs
      /\ Counters /\ \A p \in Procs : Counts(p) /\ WillRelease(p)
      /\ UNCHANGED <<pc, inhibitors, wedged, server, faults>>
      /\ quiet' = IF inhibitors = {} THEN 0 ELSE AtMost(quiet + 1, QuietCap)
  BY DEF BaseInv, ReleaseInv, CountInv, Tick, environment
<1>1. Counters'
  BY <1>0 DEF Counters, AtMost, QuietCap
<1>2. quiet' <= quiet + 1
  BY <1>0 DEF Counters, AtMost, QuietCap
<1>3. ASSUME NEW p \in Procs
      PROVE  Counts(p)'
  <2>1. mem[p] \in Memory /\ Sleeps(p) /\ Earned(p)
    BY <1>0 DEF Counts
  <2>2. mem'[p] = IF Alive(p) THEN Older(mem[p]) ELSE mem[p]
    BY DEF Tick
  <2>3. CASE ~Alive(p)
    <3>1. pc'[p] \notin Looping \cup {"named"}
      BY <1>0, <2>3 DEF Alive, Ended, Looping
    <3> QED
      BY <2>1, <2>2, <2>3, <3>1, Outside DEF Sleeps
  <2>4. CASE Alive(p)
    <3> DEFINE n == mem'[p]
    <3>1. /\ n.leaving = mem[p].leaving /\ n.holding = mem[p].holding
          /\ n.nap = IF mem[p].nap > 0 THEN mem[p].nap - 1 ELSE 0
          /\ n.idle = IF mem[p].idle = NotIdle THEN NotIdle
                      ELSE IF mem[p].idle < Grace THEN mem[p].idle + 1 ELSE Grace
      BY <2>1, <2>2, <2>4, OlderCounts DEF Sleeps
    <3> HIDE DEF n
    <3>2. mem[p].nap \in Nat /\ mem[p].idle \in NotIdle .. Grace
      BY <2>1 DEF Sleeps, Memory
    <3>3. Sleeps(p)'
      BY <1>0, <2>1, <3>1, <3>2 DEF Sleeps, n
    <3>4. Earned(p)'
      <4>1. p \in inhibitors => quiet' = IF quiet + 1 < QuietCap THEN quiet + 1 ELSE QuietCap
        BY <1>0 DEF AtMost
      <4>2. p \in inhibitors /\ mem[p].idle <= quiet => n.idle <= quiet'
        BY <1>0, <3>1, <3>2, <4>1 DEF Counters, QuietCap
      <4> QED
        BY <1>0, <2>1, <3>1, <3>2, <4>2 DEF Earned, n
    <3>5. ASSUME faults = 0
          PROVE  Timely(p)'
      <4>1. Timely(p) /\ Waits(p)
        BY <1>0, <2>4, <3>5 DEF Counts, Counters, Tick, Runs
      <4>2. CASE pc[p] = "poll"
        <5>1. mem[p].nap > 0
          BY <4>1, <4>2 DEF Waits
        <5>2. CASE mem[p].idle = NotIdle
          BY <1>0, <1>2, <3>1, <3>2, <4>1, <4>2, <5>1, <5>2 DEF Timely, Counters, Keeping, n
        <5>3. CASE mem[p].idle # NotIdle
          BY <1>0, <1>2, <3>1, <3>2, <4>1, <4>2, <5>1, <5>3 DEF Timely, Counters, Keeping, n
        <5> QED
          BY <5>2, <5>3
      <4>3. CASE pc[p] # "poll"
        <5>1. pc'[p] \in {"confirm", "await", "termwait", "killwait"}
          BY <1>0, <4>1, <4>3 DEF Waits, Timely
        <5> QED
          BY <5>1 DEF Timely, Keeping
      <4> QED
        BY <4>2, <4>3
    <3> QED
      BY <1>0, <3>3, <3>4, <3>5 DEF Counts
  <2> QED
    BY <2>3, <2>4
<1> QED
  BY <1>1, <1>3 DEF CountInv

\* Nobody moves, and nothing is spawned.
LEMMA NobodyCounts ==
    ASSUME BaseInv, CountInv, UNCHANGED <<pc, mem, quiet>>, inhibitors' \subseteq inhibitors,
           faults' \in Nat,
           faults' = 0 => faults = 0 /\ wedged' \subseteq wedged /\ server' # "garbled"
    PROVE  CountInv'
<1>1. \A p \in Procs : Counts(p)'
  BY Settled
<1>2. Counters'
  BY DEF CountInv, Counters
<1> QED
  BY <1>1, <1>2 DEF CountInv

LEMMA EnvironmentCounts ==
    ASSUME BaseInv, CountInv, Environment
    PROVE  CountInv'
<1> USE DEF files, environment, history
<1>0. faults \in Nat /\ (faults = 0 => server # "garbled")
  BY DEF CountInv, Counters
<1>1. CASE \E p \in Procs, k \in {"daemon", "restart", "stop"} : Launch(p, k)
  BY <1>1, CommandCounts DEF Launch, Looping
<1>2. CASE Tick
  BY <1>2, TickCounts
<1>3. CASE \E s \in {"up", "gone", "garbled"} : ServerChanges(s)
  BY <1>0, <1>3, NobodyCounts DEF ServerChanges
<1>4. CASE AgentsChange
  BY <1>0, <1>4, NobodyCounts DEF AgentsChange
<1> QED
  BY <1>1, <1>2, <1>3, <1>4 DEF Environment

LEMMA FaultCounts ==
    ASSUME BaseInv, CountInv, Fault
    PROVE  CountInv'
<1> USE DEF files, environment, history
<1>0. /\ pc \in [Procs -> Places] /\ mem \in [Procs -> Memory]
      /\ faults \in Nat /\ Counters /\ \A p \in Procs : Counts(p) /\ WillRelease(p)
  BY DEF BaseInv, HoldersOwnTheLock, ReleaseInv, CountInv, Counters
<1>1. ASSUME NEW p \in Procs, Wedge(p) \/ Unwedge(p) \/ InhibitorDies(p)
      PROVE  CountInv'
  BY <1>0, <1>1, NobodyCounts DEF Wedge, Unwedge, InhibitorDies, Counters
<1>2. ASSUME NEW p \in Procs, Kill(p)
      PROVE  CountInv'
  <2>1. /\ pc' = [pc EXCEPT ![p] = "dead"] /\ mem' = [mem EXCEPT ![p] = Fresh]
        /\ faults' = faults + 1 /\ wedged' \subseteq wedged
        /\ UNCHANGED <<inhibitors, quiet, server>>
    BY <1>2 DEF Kill, Goto, Dies
  <2>2. Counts(p)'
    BY <1>0, <2>1, Outside DEF Fresh, Looping
  <2> QED
    BY <1>0, <2>1, <2>2, OneCounts
<1>3. ASSUME NEW p \in Procs, SpawnFails(p) \/ RecordFails(p) \/ AdoptMismatch(p)
      PROVE  CountInv'
  <2>1. PICK place \in {"report", "poll"} :
            /\ pc' = [pc EXCEPT ![p] = place]
            /\ pc[p] \in {"spawn", "record", "adopt"}
            /\ \/ pc[p] = "adopt" /\ faults' = faults
               \/ faults' = faults + 1
            /\ UNCHANGED <<mem, inhibitors, quiet, wedged, server>>
    BY <1>3 DEF SpawnFails, RecordFails, AdoptMismatch, At, Goto
  <2>2. pc[p] = "adopt" => p \notin inhibitors
    BY <1>0 DEF WillRelease, Keeping
  <2>3. Counts(p)'
    BY <1>0, <2>1, <2>2 DEF Counts, Sleeps, Earned, Timely, Looping
  <2> QED
    BY <1>0, <2>1, <2>3, OneCounts
<1>4. CASE MachineSleeps
  <2>1. /\ mem' = [p \in Procs |-> [mem[p] EXCEPT !.nap = 0]] /\ faults' = faults + 1
        /\ UNCHANGED <<pc, inhibitors, quiet>>
    BY <1>4 DEF MachineSleeps
  <2>2. \A p \in Procs : /\ mem'[p].nap = 0 /\ mem'[p].idle = mem[p].idle
                         /\ mem'[p].leaving = mem[p].leaving
    BY <1>0, <2>1 DEF Memory
  <2>3. \A p \in Procs : Counts(p)'
    BY <1>0, <2>1, <2>2 DEF Counts, Sleeps, Earned
  <2>4. Counters'
    BY <1>0, <2>1 DEF Counters
  <2> QED
    BY <2>3, <2>4 DEF CountInv
<1> QED
  BY <1>1, <1>2, <1>3, <1>4 DEF Fault

LEMMA NextCounts ==
    ASSUME BaseInv, CountInv, [Next]_vars
    PROVE  CountInv'
<1>1. CASE UNCHANGED vars
  BY <1>1, NobodyCounts DEF vars, environment, history, CountInv, Counters
<1>2. CASE \E p \in Procs : Step(p)
  BY <1>2, StoppingCounts, ClaimingCounts, RunningCounts DEF Step
<1> QED
  BY <1>1, <1>2, EnvironmentCounts, FaultCounts DEF Next

\* Initially nobody counts.
LEMMA InitCounts == Init => BaseInv /\ CountInv
<1> SUFFICES ASSUME Init PROVE BaseInv /\ CountInv
  OBVIOUS
<1>1. BaseInv
  BY Times DEF Init, BaseInv, HoldersOwnTheLock, ReleaseInv, WillRelease, Places, Holding,
               Ended, Starting, Looping
<1>2. Counters
  BY DEF Init, Counters
<1>3. \A p \in Procs : Counts(p)
  BY DEF Init, Counts, Sleeps, Earned, Timely, Looping, Keeping, Fresh
<1> QED
  BY <1>1, <1>2, <1>3 DEF CountInv

LEMMA NextBase ==
    ASSUME BaseInv, [Next]_vars
    PROVE  BaseInv'
BY NextHoldersOwnTheLock, NextReleases DEF BaseInv

\* A running daemon releases its inhibitor only after idleGraceSec without an active
\* pane in any poll: for any number of processes, takeovers, faults, and however the
\* agents flap (tracker.py).
THEOREM GraceCorrect == Spec => NeverReleasedEarly
<1>1. BaseInv /\ CountInv /\ [Next]_vars => BaseInv' /\ CountInv'
  BY NextBase, NextCounts
<1>2. CountInv => \A p \in inhibitors : Release(p) /\ ~mem[p].leaving => quiet >= Grace
  <2> SUFFICES ASSUME CountInv, NEW p \in inhibitors, Release(p), ~mem[p].leaving
               PROVE  quiet >= Grace
    OBVIOUS
  <2>1. p \in Procs /\ pc[p] = "release"
    BY DEF Release, At, Runs, Alive
  <2>2. mem[p].idle <= quiet /\ mem[p].idle >= Grace /\ mem[p].idle \in NotIdle .. Grace
    BY <2>1 DEF CountInv, Counts, Earned, Sleeps, Looping
  <2> QED
    BY <2>2 DEF CountInv, Counters
<1>3. CountInv => [\A p \in inhibitors : Release(p) /\ ~mem[p].leaving => quiet >= Grace]_vars
  BY <1>2
<1> QED
  BY <1>1, <1>3, InitCounts, PTL DEF Spec, NeverReleasedEarly

\* Without faults, an inhibitor outlives the last active poll by idleGraceSec and one
\* poll interval at most, for any lengths of the two (tracker.py, next_wakeup).
THEOREM WakeupCorrect == Spec => []HeldNoLongerThanGrace
<1>1. BaseInv /\ CountInv /\ [Next]_vars => BaseInv' /\ CountInv'
  BY NextBase, NextCounts
<1>2. BaseInv /\ CountInv => HeldNoLongerThanGrace
  <2> SUFFICES ASSUME BaseInv, CountInv, faults = 0, NEW p \in inhibitors, pc[p] = "poll"
               PROVE  quiet <= Grace + PollInterval
    BY DEF HeldNoLongerThanGrace
  <2>1. mem[p] \in Memory /\ Sleeps(p) /\ Timely(p) /\ quiet \in Nat
    BY DEF BaseInv, ReleaseInv, CountInv, Counts, Counters
  <2> QED
    BY <2>1 DEF Sleeps, Timely, Memory
<1> QED
  BY <1>1, <1>2, InitCounts, PTL DEF Spec

-----------------------------------------------------------------------------
\* Takeovers: why a daemon that keeps reporting is not displaced.

\* The places from which on a process has been named in the lock file.
Named == {"named", "done", "dead"} \cup Looping

\* Who has the lock is where it is needed, ...
LockIsUsed == lock # NoProc => lock \in Procs /\ pc[lock] \in Holding

\* ... only such a process is stuck, and it is then silent, as one that backs off is, ...
StuckIsSilent ==
    /\ wedged \subseteq Procs
    /\ \A p \in wedged : p \in silent /\ lock = p
    /\ \A p \in Procs : pc[p] = "backoff" => p \in silent

\* ... and the pids that are read from the lock file are those of daemons.
TargetsAreDaemons ==
    /\ target \in [Procs -> Procs \cup {NoProc}]
    /\ pidfile \in Procs \cup {NoProc}
    /\ pidfile \in Procs => pc[pidfile] \in Named
    /\ \A p \in Procs : pc[p] = "confirm" /\ target[p] \in Procs => pc[target[p]] \in Named

\* A daemon in the loop, or about to enter it, that has not been stuck, asleep or fed
\* with garbage since its last report.
Healthy(q) == pc[q] \in Looping \cup {"named"} /\ q \notin silent

\* As long as the status is stale, a process that looks again for ConfirmDelay sleeps
\* longer than a healthy daemon: that one wakes up first, and reports.
WatchedWakesFirst ==
    IsStale => \A p, q \in Procs :
        pc[p] = "confirm" /\ target[p] = q /\ Healthy(q) => mem[p].nap > mem[q].nap

WatchInv == LockIsUsed /\ StuckIsSilent /\ TargetsAreDaemons /\ WatchedWakesFirst

SafeInv == BaseInv /\ CountInv /\ WatchInv

\* Of a step of p, where the lock, the stuck and the names are concerned: p alone moves,
\* and where it keeps or drops the lock the other parts agree.
LEMMA WalkWatched ==
    ASSUME SafeInv, NEW p \in Procs, Runs(p), NEW place, pc' = [pc EXCEPT ![p] = place],
           \/ lock' = lock /\ (pc[p] \in Holding => place \in Holding)
           \/ lock = NoProc /\ lock' = p /\ place \in Holding
           \/ lock = p /\ lock' = NoProc
           \/ lock # p /\ lock' = lock,
           wedged' = wedged, silent \ {p} \subseteq silent',
           place = "backoff" => p \in silent',
           pc[p] \in Named => place \in Named,
           \/ pidfile' = pidfile
           \/ pidfile' = p /\ place \in Named,
           \/ target' = target /\ (place = "confirm" => pc[p] = "confirm")
           \/ target' = [target EXCEPT ![p] = pidfile]
           \/ target' = [target EXCEPT ![p] = NoProc]
    PROVE  LockIsUsed' /\ StuckIsSilent' /\ TargetsAreDaemons'
<1>0. pc \in [Procs -> Places] /\ p \notin wedged
  BY DEF SafeInv, BaseInv, HoldersOwnTheLock, Runs
<1>1. LockIsUsed'
  BY <1>0, ProcAssumption DEF SafeInv, WatchInv, LockIsUsed
<1>2. StuckIsSilent'
  BY <1>0, ProcAssumption DEF SafeInv, WatchInv, StuckIsSilent
<1>3. \A q \in Procs : pc[q] \in Named => pc'[q] \in Named
  BY <1>0
<1>4. target' \in [Procs -> Procs \cup {NoProc}] /\ pidfile' \in Procs \cup {NoProc}
  BY DEF SafeInv, WatchInv, TargetsAreDaemons
<1>5. pidfile' \in Procs => pc'[pidfile'] \in Named
  BY <1>0, <1>3 DEF SafeInv, WatchInv, TargetsAreDaemons
<1>6. ASSUME NEW q \in Procs, pc'[q] = "confirm", target'[q] \in Procs
      PROVE  pc'[target'[q]] \in Named
  <2>1. CASE q = p
    BY <1>0, <1>3, <1>6, <2>1, ProcAssumption DEF SafeInv, WatchInv, TargetsAreDaemons
  <2>2. CASE q # p
    BY <1>0, <1>3, <1>6, <2>2 DEF SafeInv, WatchInv, TargetsAreDaemons
  <2> QED
    BY <2>1, <2>2
<1> QED
  BY <1>1, <1>2, <1>4, <1>5, <1>6 DEF TargetsAreDaemons

\* Nobody begins to watch, wakes up, or becomes healthy but as a daemon that has not
\* been named yet.
LEMMA StillWatched ==
    ASSUME SafeInv, IsStale' => IsStale,
           \A p \in Procs : pc'[p] = "confirm" =>
               pc[p] = "confirm" /\ target'[p] = target[p] /\ mem'[p].nap = mem[p].nap,
           \A q \in Procs : Healthy(q)' =>
               pc[q] = "claimed" \/ (Healthy(q) /\ mem'[q].nap = mem[q].nap)
    PROVE  WatchedWakesFirst'
<1> SUFFICES ASSUME IsStale', NEW p \in Procs, NEW q \in Procs,
                    pc'[p] = "confirm", target'[p] = q, Healthy(q)'
             PROVE  mem'[p].nap > mem'[q].nap
  BY DEF WatchedWakesFirst
<1>1. pc[q] \in Named
  BY DEF SafeInv, WatchInv, TargetsAreDaemons
<1>2. Healthy(q) /\ mem'[q].nap = mem[q].nap
  BY <1>1 DEF Named, Looping
<1> QED
  BY <1>2 DEF SafeInv, WatchInv, WatchedWakesFirst

\* p moves, not to where it would watch, and sleeps as long as before if it is healthy.
LEMMA WalkKeepsWatch ==
    ASSUME SafeInv, NEW p \in Procs, NEW place, pc' = [pc EXCEPT ![p] = place],
           place # "confirm", IsStale' => IsStale, silent \subseteq silent',
           \A q \in Procs \ {p} : target'[q] = target[q] /\ mem'[q] = mem[q],
           place \in Looping \cup {"named"} =>
               \/ p \in silent'
               \/ pc[p] \in Looping \cup {"named"} /\ mem'[p].nap = mem[p].nap
               \/ pc[p] = "claimed"
    PROVE  WatchedWakesFirst'
<1>0. pc \in [Procs -> Places]
  BY DEF SafeInv, BaseInv, HoldersOwnTheLock
<1>1. \A q \in Procs : pc'[q] = "confirm" =>
          pc[q] = "confirm" /\ target'[q] = target[q] /\ mem'[q].nap = mem[q].nap
  BY <1>0
<1>2. \A q \in Procs : Healthy(q)' =>
          pc[q] = "claimed" \/ (Healthy(q) /\ mem'[q].nap = mem[q].nap)
  BY <1>0 DEF Healthy
<1> QED
  BY <1>1, <1>2, StillWatched

\* A signal, whoever it reaches.
LEMMA SignalWatched ==
    ASSUME SafeInv, NEW p \in Procs, NEW q, NEW place, Runs(p),
           pc[p] \notin Named \cup Holding, place \notin Holding \cup {"confirm", "backoff", "named"},
           Sigterm(p, q, place) \/ Sigkill(p, q, place),
           UNCHANGED <<target, pidfile, age>>
    PROVE  WatchInv'
<1>0. pc \in [Procs -> Places] /\ mem \in [Procs -> Memory] /\ p \notin wedged
  BY DEF SafeInv, BaseInv, HoldersOwnTheLock, ReleaseInv, Runs
<1>1. CASE Alive(q) /\ pc' = [pc EXCEPT ![p] = place, ![q] = "dead"] /\ Dies(q)
  <2>0. /\ q \in Procs /\ wedged' = wedged \ {q} /\ silent' = silent \ {q}
        /\ lock' = IF lock = q THEN NoProc ELSE lock
        /\ mem' = [mem EXCEPT ![q] = Fresh]
    BY <1>1 DEF Alive, Dies
  <2>1. LockIsUsed'
    BY <1>0, <1>1, <2>0, ProcAssumption DEF SafeInv, WatchInv, LockIsUsed
  <2>2. StuckIsSilent'
    BY <1>0, <1>1, <2>0, ProcAssumption DEF SafeInv, WatchInv, StuckIsSilent
  <2>3. \A r \in Procs : pc[r] \in Named => pc'[r] \in Named
    BY <1>0, <1>1, <2>0 DEF Named
  <2>4. \A r \in Procs : pc'[r] = "confirm" => pc[r] = "confirm" /\ mem'[r] = mem[r]
    BY <1>0, <1>1, <2>0
  <2>5. TargetsAreDaemons'
    BY <2>3, <2>4 DEF SafeInv, WatchInv, TargetsAreDaemons
  <2>6. \A r \in Procs : Healthy(r)' => Healthy(r) /\ mem'[r] = mem[r]
    BY <1>0, <1>1, <2>0 DEF Healthy, Looping, Holding
  <2>7. WatchedWakesFirst'
    BY <2>4, <2>6, StillWatched DEF IsStale
  <2> QED
    BY <2>1, <2>2, <2>5, <2>7 DEF WatchInv
<1>2. CASE /\ Goto(p, place) /\ UNCHANGED <<lock, wedged, silent>>
           /\ mem' = mem \/ (q \in Procs /\ mem' = [mem EXCEPT ![q].stop = TRUE])
  <2>0. pc' = [pc EXCEPT ![p] = place] /\ \A r \in Procs : mem'[r].nap = mem[r].nap
    BY <1>0, <1>2 DEF Goto, Memory
  <2>1. LockIsUsed' /\ StuckIsSilent' /\ TargetsAreDaemons'
    <3>1. lock # p
      BY ProcAssumption DEF SafeInv, WatchInv, LockIsUsed, Holding
    <3> QED
      BY <1>2, <2>0, <3>1, WalkWatched
  <2>2. /\ \A r \in Procs : pc'[r] = "confirm" => pc[r] = "confirm"
        /\ \A r \in Procs : Healthy(r)' => Healthy(r)
    BY <1>0, <1>2, <2>0 DEF Healthy, Holding
  <2>3. WatchedWakesFirst'
    BY <2>0, <2>2, StillWatched DEF IsStale
  <2> QED
    BY <2>1, <2>3 DEF WatchInv
<1> QED
  BY <1>1, <1>2 DEF Sigterm, Sigkill, Survives, Alive

LEMMA StoppingWatched ==
    ASSUME SafeInv, NEW p \in Procs, Stopping(p)
    PROVE  WatchInv'
<1> USE DEF Looping, Starting, Holding, Named, At, AfterStopping, files, history
<1>0. NoProc \notin Procs /\ (pc[p] \in Holding => lock = p)
  BY ProcAssumption DEF SafeInv, BaseInv, HoldersOwnTheLock
<1>1. ASSUME NEW place \in {"signal", "acquire", "done", "probed"}, Runs(p),
             pc[p] \in {"stopping", "await", "probed"},
             Goto(p, place), UNCHANGED <<mem, age, silent, wedged, pidfile>>,
             \/ target' = target
             \/ target' = [target EXCEPT ![p] = pidfile]
             \/ target' = [target EXCEPT ![p] = NoProc],
             \/ lock' = lock /\ pc[p] # "probed" /\ place # "probed"
             \/ lock = NoProc /\ lock' = p /\ place = "probed"
             \/ pc[p] = "probed" /\ lock' = NoProc
      PROVE  WatchInv'
  <2>1. LockIsUsed' /\ StuckIsSilent' /\ TargetsAreDaemons'
    BY <1>0, <1>1, WalkWatched DEF Goto
  <2>2. \A q \in Procs \ {p} : target'[q] = target[q]
    BY <1>1 DEF SafeInv, WatchInv, TargetsAreDaemons
  <2>3. WatchedWakesFirst'
    BY <1>1, <2>2, WalkKeepsWatch DEF Goto, IsStale
  <2> QED
    BY <2>1, <2>3 DEF WatchInv
<1>2. CASE ReadHolder(p)
  BY <1>1, <1>2 DEF ReadHolder
<1>3. CASE SignalHolder(p)
  BY <1>3, SignalWatched DEF SignalHolder
<1>4. CASE ProbeLock(p)
  BY <1>1, <1>4 DEF ProbeLock
<1>5. CASE StopTimesOut(p)
  BY <1>1, <1>5 DEF StopTimesOut, Forget
<1>6. CASE ReleaseProbe(p)
  BY <1>1, <1>6 DEF ReleaseProbe, Forget
<1> QED
  BY <1>2, <1>3, <1>4, <1>5, <1>6 DEF Stopping

LEMMA ClaimingWatched ==
    ASSUME SafeInv, NEW p \in Procs, Claiming(p)
    PROVE  WatchInv'
<1> USE DEF Looping, Starting, Holding, Named, At, files, history
<1>0. /\ NoProc \notin Procs /\ (pc[p] \in Holding => lock = p)
      /\ pc \in [Procs -> Places] /\ mem \in [Procs -> Memory] /\ Sleeps(p)
  BY ProcAssumption DEF SafeInv, BaseInv, HoldersOwnTheLock, ReleaseInv, CountInv, Counts
<1>1. ASSUME NEW place \in {"claimed", "rejected", "takeover", "done", "term"}, Runs(p),
             pc[p] \in {"acquire", "rejected", "confirm", "termwait", "killwait"},
             Goto(p, place), UNCHANGED <<age, silent, wedged, pidfile>>,
             mem' = mem \/ place \notin Looping \cup {"named"},
             \A q \in Procs \ {p} : mem'[q] = mem[q],
             \/ target' = target
             \/ target' = [target EXCEPT ![p] = NoProc],
             \/ lock' = lock /\ place # "claimed"
             \/ lock = NoProc /\ lock' = p /\ place = "claimed"
      PROVE  WatchInv'
  <2>1. LockIsUsed' /\ StuckIsSilent' /\ TargetsAreDaemons'
    BY <1>0, <1>1, WalkWatched DEF Goto
  <2>2. \A q \in Procs \ {p} : target'[q] = target[q]
    BY <1>1 DEF SafeInv, WatchInv, TargetsAreDaemons
  <2>3. WatchedWakesFirst'
    BY <1>1, <2>2, WalkKeepsWatch DEF Goto, IsStale
  <2> QED
    BY <2>1, <2>3 DEF WatchInv
<1>2. CASE Acquire(p)
  BY <1>1, <1>2 DEF Acquire
<1>3. CASE JudgeHolder(p)
  BY <1>1, <1>3 DEF JudgeHolder
<1>4. CASE ReadTarget(p)
  <2>1. /\ Runs(p) /\ pc[p] = "takeover" /\ pc' = [pc EXCEPT ![p] = "confirm"]
        /\ target' = [target EXCEPT ![p] = pidfile]
        /\ mem' = [mem EXCEPT ![p].nap = ConfirmDelay]
        /\ UNCHANGED <<lock, pidfile, age, silent, wedged>>
    BY <1>4 DEF ReadTarget, Goto
  <2>2. LockIsUsed' /\ StuckIsSilent' /\ TargetsAreDaemons'
    BY <1>0, <2>1, WalkWatched
  <2>3. mem'[p].nap = ConfirmDelay /\ \A q \in Procs \ {p} : mem'[q] = mem[q]
    BY <1>0, <2>1 DEF Memory
  <2>4. ASSUME IsStale', NEW r \in Procs, NEW q \in Procs,
               pc'[r] = "confirm", target'[r] = q, Healthy(q)'
        PROVE  mem'[r].nap > mem'[q].nap
    <3>1. q # p /\ pc'[q] = pc[q] /\ Healthy(q) /\ IsStale
      BY <1>0, <2>1, <2>4 DEF Healthy, IsStale
    <3>2. CASE r = p
      <4>1. mem[q].nap <= PollInterval /\ mem[q].nap \in Int
        BY <1>0, <3>1 DEF SafeInv, CountInv, Counts, Sleeps, Healthy, Memory
      <4> QED
        BY <2>3, <3>1, <3>2, <4>1
    <3>3. CASE r # p
      BY <1>0, <2>1, <2>3, <2>4, <3>1, <3>3
      DEF SafeInv, WatchInv, WatchedWakesFirst, TargetsAreDaemons
    <3> QED
      BY <3>2, <3>3
  <2>5. WatchedWakesFirst'
    BY <2>4 DEF WatchedWakesFirst
  <2> QED
    BY <2>2, <2>5 DEF WatchInv
<1>5. CASE HolderRecovered(p)
  <2>1. \A q \in Procs \ {p} : mem'[q] = mem[q]
    BY <1>0, <1>5 DEF HolderRecovered
  <2> QED
    BY <1>1, <1>5, <2>1 DEF HolderRecovered, Forget
<1>6. CASE Confirmed(p)
  BY <1>1, <1>6 DEF Confirmed
<1>7. CASE TerminateHolder(p)
  BY <1>7, SignalWatched DEF TerminateHolder
<1>8. CASE TakeLock(p)
  BY <1>1, <1>8 DEF TakeLock
<1>9. CASE KillHolder(p)
  BY <1>9, SignalWatched DEF KillHolder
<1>10. CASE GiveUp(p)
  BY <1>1, <1>10 DEF GiveUp, Forget
<1>11. CASE WritePid(p)
  <2>1. /\ Runs(p) /\ pc[p] = "claimed" /\ pc' = [pc EXCEPT ![p] = "named"] /\ pidfile' = p
        /\ target' = [target EXCEPT ![p] = NoProc] /\ mem' = [mem EXCEPT ![p] = Fresh]
        /\ UNCHANGED <<lock, age, silent, wedged>>
    BY <1>11 DEF WritePid, Goto, Forget
  <2>2. LockIsUsed' /\ StuckIsSilent' /\ TargetsAreDaemons'
    BY <1>0, <2>1, WalkWatched
  <2>3. \A q \in Procs \ {p} : mem'[q] = mem[q] /\ target'[q] = target[q]
    BY <1>0, <2>1 DEF SafeInv, WatchInv, TargetsAreDaemons
  <2>4. WatchedWakesFirst'
    BY <2>1, <2>3, WalkKeepsWatch DEF IsStale
  <2> QED
    BY <2>2, <2>4 DEF WatchInv
<1>12. CASE InstallHandlers(p)
  <2>1. /\ Runs(p) /\ pc[p] = "named" /\ pc' = [pc EXCEPT ![p] = "adopt"]
        /\ UNCHANGED <<target, mem, lock, pidfile, age, silent, wedged>>
    BY <1>12 DEF InstallHandlers, Goto
  <2>2. LockIsUsed' /\ StuckIsSilent' /\ TargetsAreDaemons'
    BY <1>0, <2>1, WalkWatched
  <2>3. WatchedWakesFirst'
    BY <2>1, WalkKeepsWatch DEF IsStale
  <2> QED
    BY <2>2, <2>3 DEF WatchInv
<1> QED
  BY <1>2, <1>3, <1>4, <1>5, <1>6, <1>7, <1>8, <1>9, <1>10, <1>11, <1>12 DEF Claiming

LEMMA RunningWatched ==
    ASSUME SafeInv, NEW p \in Procs, Running(p)
    PROVE  WatchInv'
<1> USE DEF Looping, Starting, Holding, Named, At, files, history
<1>0. /\ NoProc \notin Procs /\ (pc[p] \in Holding => lock = p)
      /\ pc \in [Procs -> Places] /\ mem \in [Procs -> Memory]
      /\ mem[p] \in Memory /\ Sleeps(p)
  BY ProcAssumption DEF SafeInv, BaseInv, HoldersOwnTheLock, ReleaseInv, CountInv, Counts
<1>1. ASSUME NEW place \in Looping \cup {"done"}, Runs(p), pc[p] \in Looping, Goto(p, place),
             UNCHANGED <<target, pidfile, wedged>>,
             \A q \in Procs \ {p} : mem'[q] = mem[q],
             age' = age \/ age' = 0,
             \/ lock' = lock /\ place # "done"
             \/ lock' = NoProc /\ place = "done",
             silent \ {p} \subseteq silent',
             place = "backoff" => p \in silent',
             \/ ~IsStale'
             \/ silent \subseteq silent' /\ (p \in silent' \/ mem'[p].nap = mem[p].nap)
             \/ silent \subseteq silent' /\ place = "done"
      PROVE  WatchInv'
  <2>1. LockIsUsed' /\ StuckIsSilent' /\ TargetsAreDaemons'
    BY <1>0, <1>1, WalkWatched DEF Goto
  <2>2. CASE ~IsStale'
    BY <2>1, <2>2 DEF WatchInv, WatchedWakesFirst
  <2>3. CASE IsStale'
    <3>1. IsStale' => IsStale
      BY <1>1 DEF IsStale
    <3>2. WatchedWakesFirst'
      BY <1>1, <2>3, <3>1, WalkKeepsWatch DEF Goto
    <3> QED
      BY <2>1, <3>2 DEF WatchInv
  <2> QED
    BY <2>2, <2>3
<1>2. CASE AdoptStale(p) \/ ClearReaped(p) \/ Spawn(p) \/ Record(p) \/ Release(p) \/ Unrecord(p)
  BY <1>1, <1>2 DEF AdoptStale, ClearReaped, Spawn, Record, Release, Unrecord
<1>3. CASE PollServer(p)
  <2>1. PICK place \in {"report", "spawn", "release"} : Goto(p, place)
    BY <1>3 DEF PollServer
  <2>2. /\ mem' = [mem EXCEPT ![p] = Updated(mem[p])]
        /\ pc[p] \in {"poll", "backoff"} /\ Runs(p)
        /\ UNCHANGED <<target, pidfile, wedged, age, lock, silent>>
    BY <1>3 DEF PollServer, Polls
  <2>3. mem'[p].nap = mem[p].nap /\ \A q \in Procs \ {p} : mem'[q] = mem[q]
    BY <1>0, <2>2, Polled DEF Sleeps
  <2> QED
    BY <1>1, <2>1, <2>2, <2>3
<1>4. CASE PollGarbled(p)
  <2>1. \A q \in Procs \ {p} : mem'[q] = mem[q]
    BY <1>0, <1>4 DEF PollGarbled
  <2> QED
    BY <1>1, <1>4, <2>1 DEF PollGarbled, Polls
<1>5. CASE Leave(p)
  <2>1. mem'[p].nap = mem[p].nap /\ \A q \in Procs \ {p} : mem'[q] = mem[q]
    BY <1>0, <1>5 DEF Leave, Memory
  <2> QED
    BY <1>1, <1>5, <2>1 DEF Leave, Polls
<1>6. CASE Report(p)
  <2>1. (\A q \in Procs \ {p} : mem'[q] = mem[q]) /\ ~IsStale' /\ age' = 0
    BY <1>0, <1>6 DEF Report, IsStale
  <2> QED
    BY <1>1, <1>6, <2>1 DEF Report
<1>7. CASE Exit(p)
  <2>1. \A q \in Procs \ {p} : mem'[q] = mem[q]
    BY <1>0, <1>7 DEF Exit
  <2> QED
    BY <1>1, <1>7, <2>1 DEF Exit
<1> QED
  BY <1>2, <1>3, <1>4, <1>5, <1>6, <1>7 DEF Running

\* Whoever watches a healthy daemon lets no time pass once it has reported: the daemon
\* wakes up while its watcher still sleeps.
LEMMA TickWatched ==
    ASSUME SafeInv, Tick
    PROVE  WatchInv'
<1>0. /\ mem \in [Procs -> Memory] /\ \A p \in Procs : Sleeps(p)
      /\ UNCHANGED <<pc, target, lock, pidfile, wedged, silent>>
      /\ mem' = [p \in Procs |-> IF Alive(p) THEN Older(mem[p]) ELSE mem[p]]
      /\ \A p \in Procs : Runs(p) => Waits(p)
  BY DEF SafeInv, BaseInv, ReleaseInv, CountInv, Counts, Tick
<1>1. LockIsUsed' /\ StuckIsSilent' /\ TargetsAreDaemons'
  BY <1>0 DEF SafeInv, WatchInv, LockIsUsed, StuckIsSilent, TargetsAreDaemons
<1>2. ASSUME NEW p \in Procs, NEW q \in Procs, pc[p] = "confirm", target[p] = q, Healthy(q)
      PROVE  mem'[p].nap > mem'[q].nap
  <2>1. Runs(p) /\ Runs(q)
    BY <1>2, ProcAssumption DEF Healthy, Runs, Alive, Ended, Looping, Holding, Starting,
                SafeInv, WatchInv, LockIsUsed, StuckIsSilent
  <2>2. mem[p].nap > 0 /\ IsStale
    BY <1>0, <1>2, <2>1 DEF Waits
  <2>3. mem[q].nap > 0
    BY <1>0, <1>2, <2>1 DEF Waits, Healthy, Looping, SafeInv, WatchInv, StuckIsSilent
  <2>4. mem[p].nap > mem[q].nap
    BY <1>2, <2>2 DEF SafeInv, WatchInv, WatchedWakesFirst
  <2>5. \A r \in {p, q} : mem'[r].nap = mem[r].nap - 1 /\ mem[r].nap \in Int
    <3> SUFFICES ASSUME NEW r \in {p, q}
                 PROVE  mem'[r].nap = mem[r].nap - 1 /\ mem[r].nap \in Int
      OBVIOUS
    <3>1. r \in Procs /\ Alive(r) /\ mem[r].nap > 0
      BY <2>1, <2>2, <2>3 DEF Runs
    <3>2. mem'[r] = Older(mem[r]) /\ mem[r] \in Memory /\ Sleeps(r)
      BY <1>0, <3>1
    <3> QED
      BY <3>1, <3>2, OlderCounts DEF Sleeps, Memory
  <2> QED
    BY <2>4, <2>5
<1>3. WatchedWakesFirst'
  BY <1>0, <1>2 DEF WatchedWakesFirst, Healthy
<1> QED
  BY <1>1, <1>3 DEF WatchInv

\* The processes stay where they are, with their sleeps.
LEMMA NobodyWatched ==
    ASSUME SafeInv, UNCHANGED <<pc, mem, target, lock, pidfile, age>>,
           silent \subseteq silent', wedged' \subseteq Procs,
           \A p \in wedged' : p \in wedged \/ (p \in silent' /\ lock = p)
    PROVE  WatchInv'
<1>1. LockIsUsed' /\ StuckIsSilent' /\ TargetsAreDaemons'
  BY DEF SafeInv, WatchInv, LockIsUsed, StuckIsSilent, TargetsAreDaemons
<1>2. WatchedWakesFirst'
  BY StillWatched DEF IsStale, Healthy
<1> QED
  BY <1>1, <1>2 DEF WatchInv

LEMMA EnvironmentWatched ==
    ASSUME SafeInv, Environment
    PROVE  WatchInv'
<1> USE DEF files, environment, history
<1>0. wedged \subseteq Procs
  BY DEF SafeInv, WatchInv, StuckIsSilent
<1>1. ASSUME NEW p \in Procs, NEW k \in {"daemon", "restart", "stop"}, Launch(p, k)
      PROVE  WatchInv'
  <2>1. PICK place \in {"acquire", "stopping"} :
            /\ pc' = [pc EXCEPT ![p] = place] /\ pc[p] = "none"
            /\ UNCHANGED <<target, mem, lock, files, wedged, history>>
    BY <1>1 DEF Launch, Goto
  <2>2. /\ lock # p /\ p \notin wedged
    BY <2>1, ProcAssumption DEF SafeInv, WatchInv, LockIsUsed, StuckIsSilent, Holding, Starting, Looping
  <2>3. LockIsUsed' /\ StuckIsSilent'
    BY <2>1, <2>2 DEF SafeInv, BaseInv, HoldersOwnTheLock, WatchInv, LockIsUsed, StuckIsSilent
  <2>4. \A q \in Procs : pc[q] \in Named => pc'[q] \in Named
    BY <2>1 DEF SafeInv, BaseInv, HoldersOwnTheLock, Named, Looping
  <2>5. \A q \in Procs : pc'[q] = "confirm" => pc[q] = "confirm"
    BY <2>1 DEF SafeInv, BaseInv, HoldersOwnTheLock
  <2>6. TargetsAreDaemons'
    BY <2>1, <2>4, <2>5 DEF SafeInv, WatchInv, TargetsAreDaemons
  <2>7. WatchedWakesFirst'
    BY <2>1, WalkKeepsWatch DEF IsStale, Looping
  <2> QED
    BY <2>3, <2>6, <2>7 DEF WatchInv
<1>2. CASE Tick
  BY <1>2, TickWatched
<1>3. CASE \E s \in {"up", "gone", "garbled"} : ServerChanges(s)
  BY <1>0, <1>3, NobodyWatched DEF ServerChanges
<1>4. CASE AgentsChange
  BY <1>0, <1>4, NobodyWatched DEF AgentsChange
<1> QED
  BY <1>1, <1>2, <1>3, <1>4 DEF Environment

LEMMA FaultWatched ==
    ASSUME SafeInv, Fault
    PROVE  WatchInv'
<1> USE DEF files, environment, history
<1>0. /\ pc \in [Procs -> Places] /\ mem \in [Procs -> Memory] /\ wedged \subseteq Procs
  BY DEF SafeInv, BaseInv, HoldersOwnTheLock, ReleaseInv, WatchInv, StuckIsSilent
<1>1. ASSUME NEW p \in Procs, Wedge(p) \/ Unwedge(p) \/ InhibitorDies(p)
      PROVE  WatchInv'
  BY <1>0, <1>1, NobodyWatched DEF Wedge, Unwedge, InhibitorDies
<1>2. ASSUME NEW p \in Procs, Kill(p)
      PROVE  WatchInv'
  <2>1. /\ pc' = [pc EXCEPT ![p] = "dead"] /\ mem' = [mem EXCEPT ![p] = Fresh]
        /\ lock' = IF lock = p THEN NoProc ELSE lock
        /\ wedged' = wedged \ {p} /\ silent' = silent \ {p}
        /\ UNCHANGED <<target, pidfile, age>>
    BY <1>2 DEF Kill, Goto, Dies
  <2>2. LockIsUsed' /\ StuckIsSilent'
    BY <1>0, <2>1 DEF SafeInv, WatchInv, LockIsUsed, StuckIsSilent
  <2>3. \A q \in Procs : pc[q] \in Named => pc'[q] \in Named
    BY <1>0, <2>1 DEF Named
  <2>4. \A q \in Procs : pc'[q] = "confirm" => pc[q] = "confirm" /\ mem'[q] = mem[q]
    BY <1>0, <2>1
  <2>5. TargetsAreDaemons'
    BY <2>1, <2>3, <2>4 DEF SafeInv, WatchInv, TargetsAreDaemons
  <2>6. \A q \in Procs : Healthy(q)' => Healthy(q) /\ mem'[q] = mem[q]
    BY <1>0, <2>1 DEF Healthy, Looping
  <2>7. WatchedWakesFirst'
    BY <2>1, <2>4, <2>6, StillWatched DEF IsStale
  <2> QED
    BY <2>2, <2>5, <2>7 DEF WatchInv
<1>3. ASSUME NEW p \in Procs, SpawnFails(p) \/ RecordFails(p) \/ AdoptMismatch(p)
      PROVE  WatchInv'
  <2>1. PICK place \in {"report", "poll"} :
            /\ pc' = [pc EXCEPT ![p] = place] /\ Runs(p)
            /\ pc[p] \in {"spawn", "record", "adopt"}
            /\ UNCHANGED <<target, mem, lock, pidfile, age, wedged, silent>>
    BY <1>3 DEF SpawnFails, RecordFails, AdoptMismatch, At, Goto
  <2>2. LockIsUsed' /\ StuckIsSilent' /\ TargetsAreDaemons'
    BY <2>1, WalkWatched DEF Holding, Looping, Named
  <2>3. WatchedWakesFirst'
    BY <2>1, WalkKeepsWatch DEF IsStale, Looping
  <2> QED
    BY <2>2, <2>3 DEF WatchInv
<1>4. CASE MachineSleeps
  <2>1. /\ silent' = silent \cup {p \in Procs : Alive(p)}
        /\ UNCHANGED <<pc, target, lock, pidfile, wedged>>
    BY <1>4 DEF MachineSleeps
  <2>2. LockIsUsed' /\ StuckIsSilent' /\ TargetsAreDaemons'
    BY <2>1 DEF SafeInv, WatchInv, LockIsUsed, StuckIsSilent, TargetsAreDaemons
  <2>3. \A q \in Procs : ~Healthy(q)'
    BY <2>1 DEF Healthy, Alive, Ended, Looping
  <2> QED
    BY <2>2, <2>3 DEF WatchInv, WatchedWakesFirst
<1> QED
  BY <1>1, <1>2, <1>3, <1>4 DEF Fault

LEMMA NextWatched ==
    ASSUME SafeInv, [Next]_vars
    PROVE  WatchInv'
<1>1. CASE UNCHANGED vars
  BY <1>1, NobodyWatched DEF vars, files, history, SafeInv, WatchInv, StuckIsSilent
<1>2. CASE \E p \in Procs : Step(p)
  BY <1>2, StoppingWatched, ClaimingWatched, RunningWatched DEF Step
<1> QED
  BY <1>1, <1>2, EnvironmentWatched, FaultWatched DEF Next

\* A takeover never turns on a daemon that keeps reporting, only on one that was stuck,
\* asleep or fed with garbage since its last report: for any number of daemons, commands
\* and takeovers, and whenever the two looks at the status fall (main.py, _take_over).
THEOREM TakeoverCorrect == Spec => TakeoverSparesTheHealthy
<1>1. Init => SafeInv
  <2>1. Init => WatchInv
    BY ProcAssumption DEF Init, WatchInv, LockIsUsed, StuckIsSilent, TargetsAreDaemons, WatchedWakesFirst
  <2> QED
    BY <2>1, InitCounts DEF SafeInv
<1>2. SafeInv /\ [Next]_vars => SafeInv'
  BY NextBase, NextCounts, NextWatched DEF SafeInv
<1>3. SafeInv /\ [Next]_vars => [\A p, q \in Procs : Condemns(p, q) => q \in silent]_vars
  <2> SUFFICES ASSUME SafeInv, NEW p \in Procs, NEW q \in Procs, Condemns(p, q), q \notin silent
               PROVE  FALSE
    OBVIOUS
  <2>1. pc[p] = "confirm" /\ mem[p].nap = 0 /\ IsStale /\ target[p] = q /\ Healthy(q)
    BY DEF Condemns, Confirmed, At, Healthy
  <2>2. mem[q].nap >= 0 /\ mem[q].nap \in Int
    BY DEF SafeInv, BaseInv, ReleaseInv, Memory, CountInv, Counts, Sleeps
  <2> QED
    BY <2>1, <2>2 DEF SafeInv, WatchInv, WatchedWakesFirst
<1> QED
  BY <1>1, <1>2, <1>3, PTL DEF Spec, TakeoverSparesTheHealthy
==============================================================================
