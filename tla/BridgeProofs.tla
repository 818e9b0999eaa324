----------------------------- MODULE BridgeProofs -----------------------------
(***************************************************************************)
(* Proofs about Bridge for any number of launches and any timing: the pid  *)
(* file names the daemon in the loop, and the indicator's coffee cup is    *)
(* earned.                                                                 *)
(***************************************************************************)
EXTENDS Bridge, TLAPS

(***************************************************************************)
(* Types.                                                                  *)
(***************************************************************************)
USE BridgeAssumption DEF LongIdle, Unwritten

LEMMA OlderTyped ==
    ASSUME NEW limit \in Nat, NEW age \in 0 .. limit
    PROVE  Older(age, limit) \in 0 .. limit
BY DEF Older

\* A status in the file after writeStatus, whether it was written or not.
LEMMA ReportTyped ==
    ASSUME status \in Statuses, NEW active \in BOOLEAN, NEW ping \in {"none"} \cup PingResults,
           NEW idle \in 0 .. LongIdle, Report(active, ping, idle)
    PROVE  status' \in Statuses
BY DEF Report, Statuses

LEMMA NotLaunch == NoLaunch \notin Launches
BY DEF NoLaunch, Launches

LEMMA InitTyped == Init => TypeOK
<1> SUFFICES ASSUME Init PROVE TypeOK
  OBVIOUS
<1>1. PlacesOK
  BY DEF Init, PlacesOK, Running, InLoop
<1>2. NamesOK
  BY DEF Init, NamesOK, NoCommand
<1>3. TimesOK
  BY DEF Init, TimesOK, NoMemory, NoStatus, Statuses
<1> QED
  BY <1>1, <1>2, <1>3 DEF TypeOK

\* One launch goes from one place to another.
LEMMA MoveTyped ==
    ASSUME PlacesOK, NEW d \in Launches, UNCHANGED server,
           kind' \in [Launches -> {"flock", "foreground"}],
           NEW to \in {"spawned", "respawned", "gone"} \cup Locking,
           pc' = [pc EXCEPT ![d] = to],
           \/ to # "ping" /\ pinging' = pinging \ {d}
           \/ to = "ping" /\ pinging' = pinging \cup {d}
           \/ to \in Leaving /\ pinging' = pinging
    PROVE  PlacesOK'
<1>1. pc' \in [Launches -> {"unused", "spawned", "respawned", "gone"} \cup Locking]
  BY DEF PlacesOK
<1>2. \A e \in Launches : pc'[e] \notin Leaving => (pc'[e] = "ping" <=> e \in pinging')
  BY DEF PlacesOK, Leaving
<1> QED
  BY <1>1, <1>2 DEF PlacesOK, Locking, Running, InLoop, Leaving

LEMMA Forgotten ==
    ASSUME TimesOK, NEW d \in Launches, mem' = [mem EXCEPT ![d] = NoMemory],
           UNCHANGED <<status, seen, pinged>>
    PROVE  TimesOK'
<1>1. mem' \in [Launches -> [stop : BOOLEAN, idle : 0 .. LongIdle]]
  BY DEF NoMemory, TimesOK
<1> QED
  BY <1>1 DEF TimesOK, Statuses

LEMMA DeathTyped ==
    ASSUME PlacesOK, TimesOK, NEW d \in Launches, Dies(d), UNCHANGED <<kind, pinging, server>>
    PROVE  PlacesOK' /\ mem' \in [Launches -> [stop : BOOLEAN, idle : 0 .. LongIdle]]
<1>1. kind' \in [Launches -> {"flock", "foreground"}] /\ "dying" \in Locking \cap Leaving
  BY DEF PlacesOK, Locking, Leaving
<1>2. PlacesOK'
  BY <1>1, MoveTyped DEF Dies
<1>3. mem' \in [Launches -> [stop : BOOLEAN, idle : 0 .. LongIdle]]
  BY DEF Dies, NoMemory, TimesOK
<1> QED
  BY <1>2, <1>3

\* A step of a launch that is not in "ping", and not leaving unless it stays so.
LEMMA QuietMoveTyped ==
    ASSUME PlacesOK, NEW d \in Launches, NEW from, NEW to \in {"gone"} \cup Locking,
           Go(d, from, to), from # "ping", to # "ping",
           from \notin Leaving \/ to \in Leaving,
           UNCHANGED <<kind, pinging, server>>
    PROVE  PlacesOK'
<1>1. to \in Leaving \/ pinging' = pinging \ {d}
  BY DEF PlacesOK, Go
<1>2. kind' \in [Launches -> {"flock", "foreground"}] /\ pc' = [pc EXCEPT ![d] = to]
  BY DEF PlacesOK, Go
<1> QED
  BY <1>1, <1>2, MoveTyped

LEMMA LaunchTyped ==
    ASSUME PlacesOK, NEW k \in {"flock", "foreground"},
           NEW first \in {"init", "spawned", "respawned"}, Launch(k, first)
    PROVE  PlacesOK'
<1>1. PICK d \in Launches : /\ pc[d] = "unused" /\ pc' = [pc EXCEPT ![d] = first]
                           /\ kind' = [kind EXCEPT ![d] = k]
                           /\ UNCHANGED <<pinging, server>>
  BY DEF Launch, Go
<1>2. /\ pinging' = pinging \ {d} /\ first # "ping"
      /\ kind' \in [Launches -> {"flock", "foreground"}]
      /\ first \in {"spawned", "respawned"} \cup Locking
  BY <1>1 DEF PlacesOK, Locking, Running, Leaving
<1> QED
  BY <1>1, <1>2, MoveTyped

LEMMA PlacesStep ==
    ASSUME TypeOK, NEW d \in Launches, Step(d)
    PROVE  PlacesOK'
<1>1. PlacesOK /\ TimesOK
  BY DEF TypeOK
<1> USE DEF Locking, Running, InLoop, Leaving
<1>2. CASE TryLock(d)
  BY <1>1, <1>2, QuietMoveTyped DEF TryLock
<1>3. CASE WritePid(d) \/ BeginLoop(d)
  BY <1>1, <1>3, QuietMoveTyped DEF WritePid, BeginLoop
<1>4. CASE Refuse(d) \/ Unlink(d)
  BY <1>1, <1>4, DeathTyped DEF Refuse, Unlink
<1>5. CASE LeaveLoop(d) \/ SkipPoll(d) \/ FindIdle(d)
  BY <1>1, <1>5, QuietMoveTyped DEF LeaveLoop, SkipPoll, FindIdle
<1>6. CASE FindActive(d)
  BY <1>1, <1>6, MoveTyped DEF FindActive, Go, PlacesOK
<1>7. CASE Wake(d) \/ Final(d)
  BY <1>1, <1>7, QuietMoveTyped DEF Wake, Final
<1>8. CASE Reap(d) \/ FlockExits(d)
  BY <1>1, <1>8, QuietMoveTyped DEF Reap, FlockExits
<1> QED
  BY <1>2, <1>3, <1>4, <1>5, <1>6, <1>7, <1>8 DEF Step

LEMMA PlacesNext ==
    ASSUME TypeOK, [Next]_vars
    PROVE  PlacesOK'
<1>0. PlacesOK /\ NamesOK /\ TimesOK
  BY DEF TypeOK
<1>1. CASE Hook \/ Foreground \/ Restart
  BY <1>0, <1>1, LaunchTyped DEF Hook, Foreground, Restart
<1>2. CASE \E op \in {"restart", "stop"} : SendTerm(op)
  <2>1. pidFile \in Launches
    BY <1>0, <1>2 DEF SendTerm, Alive, NamesOK
  <2> QED
    BY <1>0, <1>2, <2>1, DeathTyped DEF SendTerm, PlacesOK, Locking, Running, InLoop, Leaving
<1>3. CASE EndWait
  <2>1. command.pid \in Launches
    BY <1>0, <1>3 DEF EndWait, NamesOK
  <2> QED
    BY <1>0, <1>3, <2>1, DeathTyped DEF EndWait, PlacesOK, Locking, Running, InLoop, Leaving
<1>4. CASE \E d \in Launches : Step(d)
  BY <1>4, PlacesStep
<1>5. CASE \E d \in Launches : PingEnds(d)
  BY <1>0, <1>5, MoveTyped DEF PingEnds, Go, PlacesOK, Locking, Running, InLoop
<1>6. CASE \E d \in Launches : OrphanEnds(d)
  BY <1>0, <1>6 DEF OrphanEnds, PlacesOK, Locking, Running, InLoop, Leaving
<1>7. CASE \E d \in Launches : Kill(d)
  BY <1>0, <1>7, DeathTyped DEF Kill
<1>8. CASE Tick \/ ServerExits \/ UNCHANGED vars
  BY <1>0, <1>8 DEF Tick, ServerExits, vars, PlacesOK, Locking, Running, InLoop, Leaving
<1> QED
  BY <1>1, <1>2, <1>3, <1>4, <1>5, <1>6, <1>7, <1>8 DEF Next, Commands

LEMMA NamesNext ==
    ASSUME TypeOK, [Next]_vars
    PROVE  NamesOK'
<1>0. NamesOK
  BY DEF TypeOK
<1>1. CASE Hook \/ Foreground \/ Restart
  BY <1>0, <1>1 DEF Hook, Foreground, Restart, Launch, NamesOK, NoCommand, files
<1>2. CASE (\E op \in {"restart", "stop"} : SendTerm(op)) \/ EndWait
  BY <1>0, <1>2 DEF SendTerm, EndWait, Alive, NamesOK, NoCommand, files
<1>3. CASE \E d \in Launches : Step(d)
  <2> SUFFICES ASSUME NEW d \in Launches, Step(d) PROVE NamesOK'
    BY <1>3
  <2>1. UNCHANGED command /\ (pidFile' = pidFile \/ pidFile' \in {d, NoLaunch})
    BY DEF Step, TryLock, WritePid, Refuse, BeginLoop, LeaveLoop, SkipPoll, FindIdle,
           FindActive, Wake, Final, Unlink, Reap, FlockExits, files
  <2> QED
    BY <1>0, <2>1 DEF NamesOK
<1>4. CASE \E d \in Launches : PingEnds(d) \/ OrphanEnds(d) \/ Kill(d)
  BY <1>0, <1>4 DEF PingEnds, OrphanEnds, Kill, NamesOK, files
<1>5. CASE Tick \/ ServerExits \/ UNCHANGED vars
  BY <1>0, <1>5 DEF Tick, ServerExits, vars, NamesOK, files
<1> QED
  BY <1>1, <1>2, <1>3, <1>4, <1>5 DEF Next, Commands

LEMMA TimesStep ==
    ASSUME TypeOK, NEW d \in Launches, Step(d)
    PROVE  TimesOK'
<1>0. PlacesOK /\ TimesOK
  BY DEF TypeOK
<1>1. CASE TryLock(d) \/ WritePid(d) \/ LeaveLoop(d) \/ SkipPoll(d) \/ Wake(d) \/ Reap(d) \/ FlockExits(d)
  BY <1>0, <1>1 DEF TryLock, WritePid, LeaveLoop, SkipPoll, Wake, Reap, FlockExits,
                    files, history, TimesOK, Statuses
<1>2. CASE Refuse(d) \/ Unlink(d)
  BY <1>0, <1>2, DeathTyped DEF Refuse, Unlink, files, history, TimesOK, Statuses
<1>3. CASE BeginLoop(d)
  BY <1>0, <1>3 DEF BeginLoop, files, history, TimesOK, Statuses
<1>4. CASE FindIdle(d) \/ Final(d)
  <2>1. status' \in Statuses
    BY <1>0, <1>4, ReportTyped DEF FindIdle, Final, TimesOK
  <2> QED
    BY <1>0, <1>4, <2>1 DEF FindIdle, Final, history, TimesOK, Statuses
<1>5. CASE FindActive(d)
  BY <1>0, <1>5 DEF FindActive, files, TimesOK, Statuses
<1> QED
  BY <1>1, <1>2, <1>3, <1>4, <1>5 DEF Step

LEMMA TimesNext ==
    ASSUME TypeOK, [Next]_vars
    PROVE  TimesOK'
<1>0. PlacesOK /\ NamesOK /\ TimesOK
  BY DEF TypeOK
<1>1. CASE Hook \/ Foreground \/ Restart
  BY <1>0, <1>1 DEF Hook, Foreground, Restart, Launch, TimesOK, files, history, Statuses
<1>2. CASE \E op \in {"restart", "stop"} : SendTerm(op)
  <2>1. UNCHANGED <<status, seen, pinged>>
    BY <1>2 DEF SendTerm, files, history
  <2>2. CASE mem' = [mem EXCEPT ![pidFile] = NoMemory]
    BY <1>0, <1>2, <2>1, <2>2, Forgotten DEF SendTerm, Alive, NamesOK
  <2>3. CASE mem' = [mem EXCEPT ![pidFile].stop = @ \/ pc[pidFile] \in InLoop]
    <3>1. mem' \in [Launches -> [stop : BOOLEAN, idle : 0 .. LongIdle]]
      BY <1>0, <2>3 DEF TimesOK
    <3> QED
      BY <1>0, <2>1, <3>1 DEF TimesOK, Statuses
  <2> QED
    BY <1>2, <2>2, <2>3 DEF SendTerm, Dies
<1>3. CASE EndWait
  <2>1. /\ mem' = mem \/ mem' = [mem EXCEPT ![command.pid] = NoMemory]
        /\ UNCHANGED <<status, seen, pinged>>
    BY <1>3 DEF EndWait, Dies, files, history
  <2>2. command.pid \in Launches
    BY <1>0, <1>3 DEF EndWait, NamesOK
  <2> QED
    BY <1>0, <2>1, <2>2, Forgotten DEF TimesOK, Statuses
<1>4. CASE \E d \in Launches : Step(d)
  BY <1>4, TimesStep
<1>5. CASE \E d \in Launches : PingEnds(d)
  <2> SUFFICES ASSUME NEW d \in Launches, PingEnds(d) PROVE TimesOK'
    BY <1>5
  <2>1. status' \in Statuses
    BY <1>0, ReportTyped DEF PingEnds, TimesOK
  <2> QED
    BY <1>0, <2>1 DEF PingEnds, TimesOK, Statuses
<1>6. CASE \E d \in Launches : Kill(d)
  BY <1>0, <1>6, DeathTyped DEF Kill, TimesOK, files, history, Statuses
<1>7. CASE Tick
  <2>1. status' \in Statuses
    <3>1. /\ status.age \in 0 .. Unwritten
          /\ Older(status.idle, LongIdle) \in 0 .. LongIdle
      BY <1>0, OlderTyped DEF TimesOK, Statuses
    <3>2. (IF status.age = Unwritten THEN Unwritten ELSE Older(status.age, StaleAfter))
              \in 0 .. Unwritten
      BY <3>1 DEF Older
    <3> QED
      BY <1>0, <1>7, <3>1, <3>2 DEF Tick, TimesOK, Statuses
  <2>2. \A d \in Launches : Older(mem[d].idle, LongIdle) \in 0 .. LongIdle
    BY <1>0, OlderTyped DEF TimesOK
  <2>3. mem' \in [Launches -> [stop : BOOLEAN, idle : 0 .. LongIdle]]
    BY <1>0, <1>7, <2>2 DEF Tick, TimesOK
  <2>4. seen' \in 0 .. LongIdle /\ pinged' \in 0 .. StaleAfter
    BY <1>0, <1>7, OlderTyped DEF Tick, TimesOK
  <2> QED
    BY <2>1, <2>3, <2>4 DEF TimesOK, Statuses
<1>8. CASE (\E d \in Launches : OrphanEnds(d)) \/ ServerExits \/ UNCHANGED vars
  BY <1>0, <1>8 DEF OrphanEnds, ServerExits, vars, TimesOK, files, history, Statuses
<1> QED
  BY <1>1, <1>2, <1>3, <1>4, <1>5, <1>6, <1>7, <1>8 DEF Next, Commands

LEMMA NextTyped ==
    ASSUME TypeOK, [Next]_vars
    PROVE  TypeOK'
BY PlacesNext, NamesNext, TimesNext DEF TypeOK

\* For any number of launches and any timing: every variable has its type, and a
\* daemon that waits for a ping has one running.
THEOREM TypeCorrect == Spec => []TypeOK
BY InitTyped, NextTyped, PTL DEF Spec

(***************************************************************************)
(* The pid file.                                                           *)
(***************************************************************************)
\* The pid file alone is not inductive: one has to know that nobody else can write
\* or remove it, since whoever is between the lock and its release holds the lock.
OneHolder == \A d, e \in Launches : Holds(d) /\ Holds(e) => d = e

OnRecord ==
    NoForeground => \A d \in Launches : pc[d] \in InLoop \cup {"listen"} => pidFile = d

\* A launch is in the foreground from its start on.
LateForeground == \A d \in Launches : pc[d] = "unused" => kind[d] = "flock"

PidInv == TypeOK /\ OneHolder /\ OnRecord /\ LateForeground

\* A launch that moves on does not get hold of the lock.
LEMMA MoveKeepsHolders ==
    ASSUME NEW d \in Launches, NEW to, TypeOK, pc[d] \in Locking,
           pc' = [pc EXCEPT ![d] = to], kind' = kind, pinging' \subseteq pinging \cup {d}
    PROVE  \A e \in Launches : Holds(e)' => Holds(e)
BY DEF Holds, TypeOK, PlacesOK

LEMMA LaunchKeepsHolders ==
    ASSUME TypeOK, NEW k, NEW first, Launch(k, first),
           k = "foreground" \/ first \in {"spawned", "respawned"}
    PROVE  \A e \in Launches : Holds(e)' => Holds(e)
<1>1. PICK d \in Launches : /\ pc[d] = "unused" /\ pc' = [pc EXCEPT ![d] = first]
                           /\ kind' = [kind EXCEPT ![d] = k] /\ pinging' = pinging
  BY DEF Launch, Go
<1>2. d \notin pinging
  BY <1>1 DEF TypeOK, PlacesOK, Leaving
<1>3. ~Holds(d)'
  BY <1>1, <1>2 DEF Holds, TypeOK, PlacesOK, Locking, Running, InLoop
<1>4. \A e \in Launches : e # d => (Holds(e)' => Holds(e))
  BY <1>1 DEF Holds, TypeOK, PlacesOK
<1> QED
  BY <1>3, <1>4

LEMMA HoldersNext ==
    ASSUME TypeOK, [Next]_vars
    PROVE  \/ \A e \in Launches : Holds(e)' => Holds(e)
           \/ \E d \in Launches : TryLock(d) /\ ~LockHeld
<1>1. CASE Hook \/ Foreground \/ Restart
  BY <1>1, LaunchKeepsHolders DEF Hook, Foreground, Restart
<1>2. CASE (\E op \in {"restart", "stop"} : SendTerm(op)) \/ EndWait
  BY <1>2, MoveKeepsHolders DEF SendTerm, EndWait, Dies, Alive, Locking, Running, InLoop,
                                TypeOK, NamesOK, Holds
<1>3. CASE \E d \in Launches : TryLock(d)
  BY <1>3, ZenonT(40) DEF TryLock, Go, Holds, TypeOK, PlacesOK, Locking, Running, InLoop
<1>4. CASE \E d \in Launches : Step(d) /\ ~TryLock(d)
  <2> SUFFICES ASSUME NEW d \in Launches, Step(d), ~TryLock(d)
               PROVE  \A e \in Launches : Holds(e)' => Holds(e)
    BY <1>4
  <2>1. /\ pc[d] \in Locking /\ kind' = kind /\ pinging' \subseteq pinging \cup {d}
        /\ pc' \in {[pc EXCEPT ![d] = to] : to \in Locking \cup {"gone"}}
    BY DEF Step, WritePid, Refuse, BeginLoop, LeaveLoop, SkipPoll, FindIdle, FindActive, Wake,
           Final, Unlink, Reap, FlockExits, Go, Dies, Locking, Running, InLoop
  <2> QED
    BY <2>1, MoveKeepsHolders
<1>5. CASE \E d \in Launches : PingEnds(d)
  BY <1>5, MoveKeepsHolders DEF PingEnds, Go, Locking, Running, InLoop
<1>6. CASE \E d \in Launches : OrphanEnds(d)
  BY <1>6 DEF OrphanEnds, Holds
<1>7. CASE \E d \in Launches : Kill(d)
  BY <1>7, MoveKeepsHolders DEF Kill, Dies, Locking
<1>8. CASE Tick \/ ServerExits \/ UNCHANGED vars
  BY <1>8 DEF Tick, ServerExits, vars, Holds
<1> QED
  BY <1>1, <1>2, <1>3, <1>4, <1>5, <1>6, <1>7, <1>8 DEF Next, Commands

LEMMA OneHolderNext ==
    ASSUME PidInv, [Next]_vars
    PROVE  OneHolder'
<1>1. CASE \A e \in Launches : Holds(e)' => Holds(e)
  BY <1>1 DEF PidInv, OneHolder
<1>2. ASSUME NEW d \in Launches, TryLock(d), ~LockHeld
      PROVE  OneHolder'
  <2>1. \A e \in Launches : e # d => ~Holds(e)'
    BY <1>2 DEF LockHeld, TryLock, Go, Holds, PidInv, TypeOK, PlacesOK
  <2> QED
    BY <2>1 DEF OneHolder
<1> QED
  BY <1>1, <1>2, HoldersNext DEF PidInv

\* Without --foreground, whoever is past flock(1) and not gone holds the lock.
LEMMA RunnersHold ==
    ASSUME TypeOK, NoForeground, NEW d \in Launches, pc[d] \in Locking
    PROVE  Holds(d)
BY DEF NoForeground, Holds

LEMMA KindNext ==
    ASSUME PidInv, [Next]_vars
    PROVE  /\ LateForeground'
           /\ NoForeground' => NoForeground
<1>0. TypeOK /\ LateForeground
  BY DEF PidInv
<1>1. CASE Hook \/ Foreground \/ Restart
  <2>1. PICK d \in Launches, k \in {"flock", "foreground"}, first \in {"init", "spawned", "respawned"} :
            /\ pc[d] = "unused" /\ pc' = [pc EXCEPT ![d] = first]
            /\ kind' = [kind EXCEPT ![d] = k]
    BY <1>1 DEF Hook, Foreground, Restart, Launch, Go
  <2> QED
    BY <1>0, <2>1 DEF LateForeground, NoForeground, TypeOK, PlacesOK
<1>2. CASE (\E op \in {"restart", "stop"} : SendTerm(op)) \/ EndWait
  BY <1>0, <1>2 DEF SendTerm, EndWait, Dies, LateForeground, NoForeground, TypeOK, PlacesOK
<1>3. CASE \E d \in Launches : Step(d) \/ PingEnds(d) \/ Kill(d)
  <2>1. PICK d \in Launches, to \in Locking \cup {"gone"} :
            pc' = [pc EXCEPT ![d] = to] /\ kind' = kind
    BY <1>3 DEF Step, TryLock, WritePid, Refuse, BeginLoop, LeaveLoop, SkipPoll, FindIdle,
           FindActive, Wake, Final, Unlink, Reap, FlockExits, PingEnds, Kill, Go, Dies,
           Locking, Running, InLoop
  <2> QED
    BY <1>0, <2>1 DEF LateForeground, NoForeground, TypeOK, PlacesOK, Locking, Running, InLoop
<1>4. CASE (\E d \in Launches : OrphanEnds(d)) \/ Tick \/ ServerExits \/ UNCHANGED vars
  BY <1>0, <1>4 DEF OrphanEnds, Tick, ServerExits, vars, LateForeground, NoForeground
<1> QED
  BY <1>1, <1>2, <1>3, <1>4 DEF Next, Commands

LEMMA OnRecordNext ==
    ASSUME PidInv, [Next]_vars
    PROVE  OnRecord'
<1> SUFFICES ASSUME NoForeground', NEW d \in Launches, pc'[d] \in InLoop \cup {"listen"}
             PROVE  pidFile' = d
  BY DEF OnRecord
<1>0. TypeOK /\ OneHolder /\ OnRecord /\ NoForeground
  BY KindNext DEF PidInv
<1>1. ASSUME UNCHANGED pidFile, pc[d] \in InLoop \cup {"listen"}
      PROVE  pidFile' = d
  BY <1>0, <1>1 DEF OnRecord
<1>2. CASE Hook \/ Foreground \/ Restart
  BY <1>0, <1>1, <1>2 DEF Hook, Foreground, Restart, Launch, Go, files, TypeOK, PlacesOK, InLoop
<1>3. CASE (\E op \in {"restart", "stop"} : SendTerm(op)) \/ EndWait
  BY <1>0, <1>1, <1>3 DEF SendTerm, EndWait, Dies, files, TypeOK, PlacesOK, InLoop
<1>4. CASE \E e \in Launches : WritePid(e)
  <2>1. PICK e \in Launches : WritePid(e)
    BY <1>4
  <2>2. e # d => Holds(e) /\ Holds(d)
    BY <1>0, <2>1, RunnersHold DEF WritePid, Go, TypeOK, PlacesOK, Locking, Running
  <2> QED
    BY <1>0, <2>1, <2>2 DEF WritePid, OneHolder
<1>5. CASE \E e \in Launches : Unlink(e)
  <2>1. PICK e \in Launches : Unlink(e)
    BY <1>5
  <2>2. e # d /\ pc[d] \in Locking
    BY <1>0, <2>1 DEF Unlink, Dies, TypeOK, PlacesOK, Locking, Running, InLoop
  <2>3. Holds(e) /\ Holds(d)
    BY <1>0, <2>1, <2>2, RunnersHold DEF Unlink, Locking, Running, InLoop
  <2> QED
    BY <1>0, <2>2, <2>3 DEF OneHolder
<1>6. CASE \E e \in Launches : Step(e) /\ ~WritePid(e) /\ ~Unlink(e)
  BY <1>0, <1>1, <1>6, ZenonT(40) DEF Step, TryLock, Refuse, BeginLoop, LeaveLoop, SkipPoll, FindIdle,
     FindActive, Wake, Final, Reap, FlockExits, Go, Dies, files, TypeOK, PlacesOK, InLoop
<1>7. CASE \E e \in Launches : PingEnds(e) \/ OrphanEnds(e) \/ Kill(e)
  BY <1>0, <1>1, <1>7 DEF PingEnds, OrphanEnds, Kill, Go, Dies, files, TypeOK, PlacesOK, InLoop
<1>8. CASE Tick \/ ServerExits \/ UNCHANGED vars
  BY <1>0, <1>1, <1>8 DEF Tick, ServerExits, vars, files
<1> QED
  BY <1>2, <1>3, <1>4, <1>5, <1>6, <1>7, <1>8 DEF Next, Commands

\* For any number of launches: as long as nobody has used --foreground, the pid file
\* names the daemon that is in the loop (main.ts:207, 223).
THEOREM PidFileCorrect == Spec => []PidFileNamesTheLoop
<1>1. Init => PidInv
  BY InitTyped DEF Init, PidInv, OneHolder, OnRecord, LateForeground, Holds, Locking, Running, InLoop
<1>2. PidInv /\ [Next]_vars => PidInv'
  BY NextTyped, OneHolderNext, OnRecordNext, KindNext DEF PidInv
<1>3. PidInv => PidFileNamesTheLoop
  BY DEF PidInv, OnRecord, PidFileNamesTheLoop
<1> QED
  BY <1>1, <1>2, <1>3, PTL DEF Spec

(***************************************************************************)
(* The indicator.                                                          *)
(***************************************************************************)
\* What the processes and the file remember of an activity is not younger than the
\* last activity, and a status that reports a ping is not younger than the last ping.
SeenIsLatest == seen <= status.idle /\ \A d \in Launches : seen <= mem[d].idle

PingIsLatest ==
    status.active => \/ status.ping = "failed"
                     \/ status.age = Unwritten
                     \/ pinged <= status.age

CupInv == TypeOK /\ SeenIsLatest /\ PingIsLatest

LEMMA CupNext ==
    ASSUME CupInv, [Next]_vars
    PROVE  SeenIsLatest' /\ PingIsLatest'
<1>0. TimesOK /\ SeenIsLatest /\ PingIsLatest /\ NamesOK
  BY DEF CupInv, TypeOK
<1>1. CASE Tick
  <2>1. SeenIsLatest'
    BY <1>0, <1>1 DEF Tick, Older, SeenIsLatest, TimesOK, Statuses
  <2>2. PingIsLatest'
    BY <1>0, <1>1 DEF Tick, Older, PingIsLatest, TimesOK, Statuses
  <2> QED
    BY <2>1, <2>2
<1>2. ASSUME UNCHANGED <<status, seen, pinged>>,
             \A d \in Launches : mem'[d].idle \in {mem[d].idle, status.idle, LongIdle}
      PROVE  SeenIsLatest' /\ PingIsLatest'
  BY <1>0, <1>2 DEF SeenIsLatest, PingIsLatest, TimesOK
<1>3. CASE Hook \/ Foreground \/ Restart \/ ServerExits \/ UNCHANGED vars
  BY <1>2, <1>3 DEF Hook, Foreground, Restart, Launch, ServerExits, vars, files, history
<1>4. CASE (\E op \in {"restart", "stop"} : SendTerm(op)) \/ EndWait
  <2>1. /\ UNCHANGED <<status, seen, pinged>>
        /\ \/ mem' = mem
           \/ \E d \in Launches : \/ mem' = [mem EXCEPT ![d] = NoMemory]
                                 \/ mem' = [mem EXCEPT ![d].stop = @ \/ pc[d] \in InLoop]
    BY <1>0, <1>4 DEF SendTerm, EndWait, Dies, Alive, NamesOK, files, history
  <2> QED
    BY <1>0, <1>2, <2>1 DEF NoMemory, TimesOK
<1>5. CASE \E d \in Launches : TryLock(d) \/ WritePid(d) \/ LeaveLoop(d) \/ SkipPoll(d)
                              \/ Wake(d) \/ Reap(d) \/ FlockExits(d) \/ OrphanEnds(d)
  BY <1>2, <1>5 DEF TryLock, WritePid, LeaveLoop, SkipPoll, Wake, Reap, FlockExits, OrphanEnds,
                    files, history
<1>6. CASE \E d \in Launches : Refuse(d) \/ Unlink(d) \/ Kill(d) \/ BeginLoop(d)
  <2>1. /\ UNCHANGED <<status, seen, pinged>>
        /\ \E d \in Launches : \/ mem' = [mem EXCEPT ![d] = NoMemory]
                              \/ mem' = [mem EXCEPT ![d].idle = status.idle]
    BY <1>6 DEF Refuse, Unlink, Kill, BeginLoop, Dies, files, history
  <2> QED
    BY <1>0, <1>2, <2>1 DEF NoMemory, TimesOK
<1>7. CASE \E d \in Launches : FindIdle(d) \/ Final(d)
  <2>1. PICK d \in Launches : Report(FALSE, "none", mem[d].idle) /\ UNCHANGED <<mem, history>>
    BY <1>7 DEF FindIdle, Final
  <2> QED
    BY <1>0, <2>1 DEF Report, history, SeenIsLatest, PingIsLatest
<1>8. CASE \E d \in Launches : FindActive(d)
  <2>1. seen' = 0 /\ UNCHANGED <<status, pinged>>
    BY <1>8 DEF FindActive, files
  <2>2. \A d \in Launches : mem'[d].idle \in Nat
    BY <1>0, <1>8 DEF FindActive, TimesOK
  <2>3. status.idle \in Nat
    BY <1>0 DEF TimesOK, Statuses
  <2> QED
    BY <1>0, <2>1, <2>2, <2>3 DEF SeenIsLatest, PingIsLatest
<1>9. CASE \E d \in Launches : PingEnds(d)
  <2>1. PICK d \in Launches, ping \in PingResults :
            /\ Report(TRUE, ping, mem[d].idle)
            /\ pinged' = IF ping = "ok" THEN 0 ELSE pinged
            /\ UNCHANGED <<mem, seen>>
    BY <1>9 DEF PingEnds
  <2>2. status.age \in Nat
    BY <1>0 DEF TimesOK, Statuses
  <2> QED
    BY <1>0, <2>1, <2>2 DEF Report, PingResults, SeenIsLatest, PingIsLatest
<1> QED
  BY <1>1, <1>3, <1>4, <1>5, <1>6, <1>7, <1>8, <1>9 DEF Next, Commands, Step

\* For any number of launches and any timing: the coffee cup means a successful ping
\* within staleAfterSec or an active pane within indicatorHoldSec (main.ts:413).
THEOREM CupCorrect == Spec => []HoldingIsEarned
<1>1. Init => CupInv
  <2> SUFFICES ASSUME Init PROVE CupInv
    OBVIOUS
  <2>1. SeenIsLatest /\ PingIsLatest
    BY DEF Init, SeenIsLatest, PingIsLatest, NoStatus, NoMemory
  <2> QED
    BY <2>1, InitTyped DEF CupInv
<1>2. CupInv /\ [Next]_vars => CupInv'
  BY NextTyped, CupNext DEF CupInv
<1>3. CupInv => HoldingIsEarned
  BY DEF CupInv, TypeOK, TimesOK, Statuses, PingResults, SeenIsLatest, PingIsLatest,
         HoldingIsEarned, Indicator, Stale
<1> QED
  BY <1>1, <1>2, <1>3, PTL DEF Spec

(***************************************************************************)
(* The last activity on record.                                            *)
(***************************************************************************)
\* The daemon in the loop remembers an activity at least as late as the one on record:
\* it took that over, and nobody else has written one since.
LoopRemembers ==
    NoForeground => \A d \in Launches : pc[d] \in InLoop => mem[d].idle <= status.idle

RecordInv == PidInv /\ LoopRemembers

\* As long as nobody has used --foreground, one daemon at most is in the loop.
LEMMA OneInLoop ==
    ASSUME PidInv, NoForeground, NEW d \in Launches, NEW e \in Launches,
           pc[d] \in InLoop, pc[e] \in InLoop
    PROVE  d = e
BY DEF PidInv, OnRecord

LEMMA OlderMonotone ==
    ASSUME NEW limit \in Nat, NEW a \in 0 .. limit, NEW b \in 0 .. limit, a <= b
    PROVE  Older(a, limit) <= Older(b, limit)
BY DEF Older

LEMMA TickIsOlder ==
    ASSUME TimesOK, Tick
    PROVE  /\ status'.idle = Older(status.idle, LongIdle)
           /\ \A d \in Launches : mem'[d].idle = Older(mem[d].idle, LongIdle)
BY DEF Tick, TimesOK, Statuses

\* A status is written by the daemon in the loop, from its memory.
LEMMA WritersNext ==
    ASSUME PidInv, [Next]_vars, ~Tick
    PROVE  \/ UNCHANGED status
           \/ \E d \in Launches : /\ pc[d] \in InLoop /\ status'.idle = mem[d].idle
                                  /\ UNCHANGED mem
                                  /\ \A e \in Launches : e # d => pc'[e] = pc[e]
<1>0. PlacesOK
  BY DEF PidInv, TypeOK
<1>1. CASE Hook \/ Foreground \/ Commands
  BY <1>1 DEF Hook, Foreground, Commands, SendTerm, EndWait, Restart, Launch, files
<1>2. ASSUME NEW d \in Launches, FindIdle(d) \/ Final(d) \/ PingEnds(d)
      PROVE  \/ UNCHANGED status
             \/ /\ pc[d] \in InLoop /\ status'.idle = mem[d].idle
                /\ UNCHANGED mem
                /\ \A e \in Launches : e # d => pc'[e] = pc[e]
  BY <1>0, <1>2 DEF FindIdle, Final, PingEnds, Report, Go, InLoop, PlacesOK
<1>3. CASE \E d \in Launches : /\ Step(d) \/ OrphanEnds(d) \/ Kill(d)
                              /\ ~FindIdle(d) /\ ~Final(d)
  BY <1>3 DEF Step, TryLock, WritePid, Refuse, BeginLoop, LeaveLoop, SkipPoll, FindActive,
              Wake, Unlink, Reap, FlockExits, OrphanEnds, Kill, files
<1>4. CASE ServerExits \/ UNCHANGED vars
  BY <1>4 DEF ServerExits, vars, files
<1> QED
  BY <1>1, <1>2, <1>3, <1>4 DEF Next

\* Where a daemon in the loop has its memory from.
LEMMA MemoryNext ==
    ASSUME PidInv, [Next]_vars, ~Tick, NEW d \in Launches, pc'[d] \in InLoop
    PROVE  \/ pc[d] \in InLoop /\ mem'[d].idle \in {0, mem[d].idle}
           \/ mem'[d].idle = status.idle /\ UNCHANGED status
<1>0. PlacesOK /\ TimesOK /\ NamesOK
  BY DEF PidInv, TypeOK
<1>1. CASE Hook \/ Foreground \/ Restart
  BY <1>0, <1>1 DEF Hook, Foreground, Restart, Launch, Go, InLoop, PlacesOK
<1>2. CASE (\E op \in {"restart", "stop"} : SendTerm(op)) \/ EndWait
  BY <1>0, <1>2 DEF SendTerm, EndWait, Dies, InLoop, PlacesOK, TimesOK
<1>3. ASSUME NEW e \in Launches, BeginLoop(e)
      PROVE  \/ pc[d] \in InLoop /\ mem'[d].idle \in {0, mem[d].idle}
             \/ mem'[d].idle = status.idle /\ UNCHANGED status
  BY <1>0, <1>3 DEF BeginLoop, Go, files, PlacesOK, TimesOK
<1>4. ASSUME NEW e \in Launches, FindActive(e)
      PROVE  pc[d] \in InLoop /\ mem'[d].idle \in {0, mem[d].idle}
  BY <1>0, <1>4 DEF FindActive, Go, InLoop, PlacesOK, TimesOK
<1>5. ASSUME NEW e \in Launches,
             \/ TryLock(e) \/ WritePid(e) \/ LeaveLoop(e) \/ SkipPoll(e) \/ FindIdle(e)
             \/ Wake(e) \/ Final(e) \/ Reap(e) \/ FlockExits(e) \/ PingEnds(e) \/ OrphanEnds(e)
      PROVE  pc[d] \in InLoop /\ mem'[d].idle = mem[d].idle
  BY <1>0, <1>5 DEF TryLock, WritePid, LeaveLoop, SkipPoll, FindIdle, Wake, Final, Reap,
                    FlockExits, PingEnds, OrphanEnds, Go, InLoop, PlacesOK
<1>6. ASSUME NEW e \in Launches, Refuse(e) \/ Unlink(e) \/ Kill(e)
      PROVE  pc[d] \in InLoop /\ mem'[d].idle = mem[d].idle
  BY <1>0, <1>6 DEF Refuse, Unlink, Kill, Dies, InLoop, PlacesOK, TimesOK
<1>7. CASE ServerExits \/ UNCHANGED vars
  BY <1>7 DEF ServerExits, vars
<1> QED
  BY <1>1, <1>2, <1>3, <1>4, <1>5, <1>6, <1>7 DEF Next, Commands, Step

LEMMA LoopRemembersNext ==
    ASSUME RecordInv, [Next]_vars
    PROVE  LoopRemembers'
<1> SUFFICES ASSUME NoForeground', NEW d \in Launches, pc'[d] \in InLoop
             PROVE  mem'[d].idle <= status'.idle
  BY DEF LoopRemembers
<1>0. PidInv /\ TimesOK /\ NoForeground
  BY KindNext DEF RecordInv, PidInv, TypeOK
<1>1. \A e \in Launches : mem[e].idle \in 0 .. LongIdle
  BY <1>0 DEF TimesOK
<1>2. status.idle \in 0 .. LongIdle
  BY <1>0 DEF TimesOK, Statuses
<1>3. pc[d] \in InLoop => mem[d].idle <= status.idle
  BY <1>0 DEF RecordInv, LoopRemembers
<1>4. CASE Tick
  <2>1. pc[d] \in InLoop
    BY <1>4 DEF Tick
  <2> QED
    BY <1>0, <1>1, <1>2, <1>3, <1>4, <2>1, TickIsOlder, OlderMonotone
<1>5. CASE ~Tick /\ UNCHANGED status
  BY <1>0, <1>1, <1>2, <1>3, <1>5, MemoryNext
<1>6. CASE ~Tick /\ status' # status
  <2>1. PICK e \in Launches : /\ pc[e] \in InLoop /\ status'.idle = mem[e].idle
                              /\ UNCHANGED mem
                              /\ \A f \in Launches : f # e => pc'[f] = pc[f]
    BY <1>0, <1>6, WritersNext
  <2>2. d = e
    BY <1>0, <2>1, OneInLoop
  <2> QED
    BY <1>1, <2>1, <2>2
<1> QED
  BY <1>4, <1>5, <1>6

\* For any number of launches, restarts and kills: the time of the last activity in
\* daemon.json only ages with the clock, as long as nobody has used --foreground
\* (main.ts:113-115).
THEOREM LastActiveCorrect == Spec => LastActiveNeverBack
<1>1. Init => RecordInv
  BY InitTyped DEF Init, RecordInv, LoopRemembers, PidInv, OneHolder, OnRecord, LateForeground,
                   Holds, Locking, Running, InLoop
<1>2. RecordInv /\ [Next]_vars => RecordInv'
  BY NextTyped, OneHolderNext, OnRecordNext, KindNext, LoopRemembersNext DEF RecordInv, PidInv
<1>3. RecordInv /\ [Next]_vars => [NoForeground /\ status'.idle > status.idle => Tick]_vars
  <2> SUFFICES ASSUME RecordInv, [Next]_vars, NoForeground, ~Tick
               PROVE  ~(status'.idle > status.idle)
    OBVIOUS
  <2>1. /\ \A e \in Launches : mem[e].idle \in 0 .. LongIdle
        /\ status.idle \in 0 .. LongIdle
    BY DEF RecordInv, PidInv, TypeOK, TimesOK, Statuses
  <2>2. CASE UNCHANGED status
    BY <2>1, <2>2
  <2>3. ASSUME NEW d \in Launches, pc[d] \in InLoop, status'.idle = mem[d].idle
        PROVE  ~(status'.idle > status.idle)
    BY <2>1, <2>3 DEF RecordInv, LoopRemembers
  <2> QED
    BY <2>2, <2>3, WritersNext DEF RecordInv
<1> QED
  BY <1>1, <1>2, <1>3, PTL DEF Spec, LastActiveNeverBack
==============================================================================
