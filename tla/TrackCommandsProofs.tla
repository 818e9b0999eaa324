------------------------- MODULE TrackCommandsProofs -------------------------
(***************************************************************************)
(* Proofs about TrackCommands for any number of processes of a session,    *)
(* any number of appends of other sessions and any faults: what stop,      *)
(* flush and restart may rely on when they have seen the lock free, and    *)
(* that flush and restart leave a daemon behind.                           *)
(***************************************************************************)
EXTENDS TrackCommands, SequenceTheorems, FiniteSetTheorems, WellFoundedInduction, TLAPS

Places == {"idle"} \cup Commanding \cup Daemons \cup Gone

\* Where a process is whose pid has been in the lock file: it can be signalled.
Named == {"named"} \cup Loop \cup {"zombie", "gone"}

\* A process is at such a place with the lock in its hands.
Holding == Daemons \cup {"probed"}

Stopping == {"read", "signal", "wait", "probed", "spawn"}

Written == {appends[i].of : i \in DOMAIN appends}

WriteRecord == [of : Proc \cup {Other}, length : 0..4]

\* Every variable keeps its type.
TypeOK ==
    /\ pc \in [Proc -> Places]
    /\ kind \in [Proc -> Kinds]
    /\ target \in [Proc -> Proc \cup {NoProc}]
    /\ stop \in [Proc -> BOOLEAN]
    /\ opened \in [Proc -> BOOLEAN]
    /\ lock \in Proc \cup {NoProc}
    /\ pidFile \in Proc \cup {NoProc}
    /\ mirror \in Proc \cup {NoProc}
    /\ appends \in Seq(WriteRecord)
    /\ stopped \in BOOLEAN

\* Whoever is at a place that needs the lock has it, and nobody else.
LockOK ==
    /\ \A p \in Proc : pc[p] \in Holding => lock = p
    /\ lock # NoProc => pc[lock] \in Holding

\* A pid in the lock file, or read from it, is that of a process that can be
\* signalled, or could.
TargetOK ==
    /\ pidFile # NoProc => pc[pidFile] \in Named
    /\ \A p \in Proc : pc[p] \in {"signal", "wait", "probed"} =>
           target[p] # NoProc /\ pc[target[p]] \in Named

\* What the place of a process says of its memory.
StageOK ==
    \A p \in Proc :
        /\ opened[p] => pc[p] \in {"loop", "clear", "release", "zombie", "gone"}
        /\ stop[p] => pc[p] \in Loop \cup {"zombie", "gone"}
        /\ pc[p] \in {"clear", "release"} => stop[p]
        /\ pc[p] \in Stopping => kind[p] # "daemon"

\* The segment in current.json is that of the process that holds the lock, or of one
\* that was killed; an opened segment is there or in the journal.
MirrorOK ==
    /\ \A p \in Proc :
        /\ pc[p] = "recoverClear" => mirror \in Written
        /\ pc[p] = "loop" => mirror = IF opened[p] THEN p ELSE NoProc
        /\ pc[p] = "clear" => mirror = p /\ p \in Written
        /\ pc[p] = "release" => mirror = NoProc
        /\ mirror = p => opened[p]
        /\ opened[p] => p \in Written \/ mirror = p
        /\ pc[p] \in {"zombie", "gone"} /\ mirror = p => p \in Killed

\* A process because of which there is a daemon, or will be.
Succeeds(p) ==
    \/ pc[p] \in Daemons /\ ~stop[p]
    \/ pc[p] = "acquire"
    \/ kind[p] = "restart" /\ pc[p] \in Stopping
    \/ kind[p] = "flush" /\ pc[p] \in {"wait", "probed", "spawn"}

\* As long as nobody asked for no daemon, no process is a `stop`, ...
NobodyStops == \A p \in Proc : kind[p] = "stop" => pc[p] = "idle"

\* ... one that was told to stop has a successor that waits for it, ...
StoppedIsAwaited ==
    \A h \in Proc : pc[h] \in Loop /\ stop[h] =>
        \E p \in Proc : pc[p] = "wait" /\ target[p] = h

\* ... and once a daemon was asked for, there is someone because of whom there will
\* be one.
SomeoneSucceeds ==
    Killed = {} /\ (\E p \in Proc : pc[p] # "idle" /\ kind[p] # "flush") =>
        \E p \in Proc : Succeeds(p)

SuccessionOK == ~stopped => NobodyStops /\ StoppedIsAwaited /\ SomeoneSucceeds

IInv ==
    /\ TypeOK
    /\ LockOK
    /\ TargetOK
    /\ StageOK
    /\ MirrorOK
    /\ SuccessionOK

-----------------------------------------------------------------------------

\* A write, whole or short, is one more record of the journal and is not a kill.
LEMMA AppendedWrites ==
    ASSUME appends \in Seq(WriteRecord), NEW e \in Proc \cup {Other}, Appended(e)
    PROVE  /\ appends' \in Seq(WriteRecord)
           /\ Written' = Written \cup {e}
           /\ Killed' = Killed
  <1>1. Len(Line(e)) = 4
    BY DEF Line
  <1>2. PICK n \in 0..4 : appends' = Append(appends, [of |-> e, length |-> n])
    BY <1>1 DEF Appended
  <1> DEFINE r == [of |-> e, length |-> n]
  <1>3. r \in WriteRecord /\ r.of = e
    BY DEF WriteRecord
  <1> HIDE DEF r
  <1>4. /\ appends' \in Seq(WriteRecord)
        /\ DOMAIN appends = 1..Len(appends) /\ DOMAIN appends' = 1..Len(appends')
        /\ Len(appends') = Len(appends) + 1 /\ Len(appends) \in Nat
        /\ \A i \in 1..Len(appends) : appends'[i] = appends[i]
        /\ appends'[Len(appends) + 1] = r
    BY <1>2, <1>3, AppendProperties, LenProperties DEF r
  <1>5. 1..Len(appends') = 1..Len(appends) \cup {Len(appends) + 1}
    BY <1>4
  <1>6. Written' = Written \cup {e}
    BY <1>3, <1>4, <1>5 DEF Written
  <1>7. Killed' = Killed
    <2>1. faults' = faults \/ faults' = faults \cup {[what |-> "short", proc |-> e]}
      BY DEF Appended
    <2> QED
      BY <2>1 DEF Killed
  <1> QED
    BY <1>4, <1>6, <1>7

\* Of a journal, what was written says which processes are in it.
LEMMA WrittenIsInJournal == \A p : InJournal(p) <=> p \in Written
  BY DEF InJournal, Written

\* No process has been launched.
LEMMA InitInv == Init => IInv
  <1> SUFFICES ASSUME Init PROVE IInv
    OBVIOUS
  <1>1. TypeOK
    BY EmptySeq DEF Init, TypeOK, Places, Kinds
  <1>2. Written = {}
    BY DEF Init, Written
  <1> QED
    BY <1>1, <1>2, BoundAssumption
    DEF Init, IInv, LockOK, TargetOK, StageOK, MirrorOK, SuccessionOK, NobodyStops,
        StoppedIsAwaited, SomeoneSucceeds, Holding, Daemons, Loop,
        Stopping

\* Where a process is that did not move, or where _stop_running() left it.
LEMMA ReturnedGoesTo ==
    ASSUME TypeOK, NEW p \in Proc, NEW ok, Returned(p, ok)
    PROVE  /\ pc' = [pc EXCEPT ![p] = pc'[p]]
           /\ pc'[p] \in {"acquire", "spawn", "ended"}
           /\ kind[p] = "restart" => pc'[p] = "acquire"
           /\ pc'[p] = "acquire" => kind[p] = "restart"
           /\ pc'[p] = "spawn" => kind[p] = "flush" /\ ok
           /\ kind[p] = "flush" /\ ok => pc'[p] = "spawn"
  <1>1. pc' = [pc EXCEPT ![p] = CASE kind[p] = "restart" -> "acquire"
                                  [] kind[p] = "flush" /\ ok -> "spawn"
                                  [] OTHER -> "ended"]
    BY DEF Returned
  <1>2. CASE kind[p] = "restart"
    BY <1>1, <1>2 DEF TypeOK
  <1>3. CASE kind[p] = "flush" /\ ok
    BY <1>1, <1>3 DEF TypeOK
  <1>4. CASE kind[p] # "restart" /\ ~(kind[p] = "flush" /\ ok)
    BY <1>1, <1>4 DEF TypeOK
  <1> QED
    BY <1>2, <1>3, <1>4

\* What _stop_running() leaves, with its types.
LEMMA ReturnedTypes ==
    ASSUME TypeOK, NEW p \in Proc, NEW ok, Returned(p, ok),
           UNCHANGED <<kind, stop, opened, disk>>,
           UNCHANGED target \/ target' = [target EXCEPT ![p] = pidFile],
           lock' \in {lock, NoProc}, stopped' \in {stopped, TRUE}
    PROVE  TypeOK'
  <1>1. pc' = [pc EXCEPT ![p] = pc'[p]] /\ pc'[p] \in {"acquire", "spawn", "ended"}
    BY ReturnedGoesTo
  <1>2. pc' \in [Proc -> Places]
    BY <1>1 DEF TypeOK, Places, Commanding, Gone
  <1>3. target' \in [Proc -> Proc \cup {NoProc}]
    BY DEF TypeOK
  <1> QED
    BY <1>2, <1>3 DEF TypeOK, disk

\* Who returns does not have the lock, or gives it back.
LEMMA ReturnedLock ==
    ASSUME TypeOK, LockOK, NEW p \in Proc, NEW ok, Returned(p, ok),
           \/ pc[p] \in {"read", "signal", "wait"} /\ lock' = lock
           \/ pc[p] = "probed" /\ lock' = NoProc
    PROVE  LockOK'
  <1>1. pc' = [pc EXCEPT ![p] = pc'[p]] /\ pc'[p] \in {"acquire", "spawn", "ended"}
    BY ReturnedGoesTo
  <1>2. pc'[p] \notin Holding
    BY <1>1 DEF Holding, Daemons, Loop
  <1>3. \A q \in Proc \ {p} : pc'[q] = pc[q]
    BY <1>1 DEF TypeOK
  <1>4. CASE pc[p] \in {"read", "signal", "wait"} /\ lock' = lock
    <2>1. pc[p] \notin Holding
      BY <1>4 DEF Holding, Daemons, Loop
    <2> QED
      BY <1>2, <1>3, <1>4, <2>1 DEF LockOK, TypeOK
  <1>5. CASE pc[p] = "probed" /\ lock' = NoProc
    <2>1. pc[p] \in Holding
      BY <1>5 DEF Holding
    <2> QED
      BY <1>2, <1>3, <1>5, <2>1 DEF LockOK, TypeOK
  <1> QED
    BY <1>4, <1>5

\* Who returns is nobody's target, and has none from then on.
LEMMA ReturnedTargets ==
    ASSUME TypeOK, TargetOK, NEW p \in Proc, NEW ok, Returned(p, ok),
           pc[p] \in {"read", "signal", "wait", "probed"}, UNCHANGED pidFile,
           UNCHANGED target \/ target' = [target EXCEPT ![p] = pidFile]
    PROVE  TargetOK'
  <1>1. pc' = [pc EXCEPT ![p] = pc'[p]] /\ pc'[p] \in {"acquire", "spawn", "ended"}
    BY ReturnedGoesTo
  <1>2. pc[p] \notin Named
    BY DEF Named, Loop
  <1>3. \A q \in Proc \ {p} : pc'[q] = pc[q] /\ target'[q] = target[q]
    BY <1>1 DEF TypeOK
  <1>4. \A q \in Proc : pc[q] \in Named => pc'[q] \in Named
    BY <1>2, <1>3
  <1>5. \A q \in Proc : pc'[q] \in {"signal", "wait", "probed"} =>
            q # p /\ pc[q] = pc'[q] /\ target'[q] = target[q]
    BY <1>1, <1>3
  <1>6. \A q \in Proc : target[q] \in Proc \cup {NoProc}
    BY DEF TypeOK
  <1>7. pidFile \in Proc \cup {NoProc}
    BY DEF TypeOK
  <1> QED
    BY <1>4, <1>5, <1>6, <1>7 DEF TargetOK

-----------------------------------------------------------------------------

\* SIGTERM reaches another process, which it ends, tells to stop, or finds over.
LEMMA SignalReaches ==
    ASSUME TypeOK, TargetOK, NEW p \in Proc, NEW t, t = target[p], Signal(p)
    PROVE  /\ t \in Proc /\ t # p /\ pc[p] = "signal"
           /\ UNCHANGED <<kind, target, opened, disk, history>>
           /\ \/ /\ pc[t] = "named"
                 /\ pc' = [pc EXCEPT ![p] = "wait", ![t] = "gone"]
                 /\ lock' = NoProc /\ UNCHANGED stop
              \/ /\ pc[t] \in Loop
                 /\ pc' = [pc EXCEPT ![p] = "wait"]
                 /\ stop' = [stop EXCEPT ![t] = TRUE] /\ UNCHANGED lock
              \/ /\ pc[t] = "zombie"
                 /\ pc' = [pc EXCEPT ![p] = "wait"] /\ UNCHANGED <<stop, lock>>
              \/ /\ pc[t] = "gone"
                 /\ Returned(p, FALSE) /\ UNCHANGED <<stop, lock>>
  <1>1. t \in Proc /\ pc[t] \in Named /\ pc[p] = "signal"
    BY DEF Signal, TargetOK, TypeOK
  <1>2. t # p
    BY <1>1 DEF Named, Loop
  <1>3. CASE pc[t] = "named"
    BY <1>1, <1>2, <1>3 DEF Signal, Loop
  <1>4. CASE pc[t] \in Loop
    BY <1>1, <1>2, <1>4 DEF Signal, Loop
  <1>5. CASE pc[t] = "zombie"
    BY <1>1, <1>2, <1>5 DEF Signal, Loop
  <1>6. CASE pc[t] = "gone"
    BY <1>1, <1>2, <1>6 DEF Signal, Loop
  <1>7. pc[p] = "signal" /\ UNCHANGED <<kind, target, opened, disk, history>>
    BY DEF Signal
  <1> QED
    BY <1>1, <1>2, <1>3, <1>4, <1>5, <1>6, <1>7 DEF Named

\* Every action keeps the types.
LEMMA TypeNext ==
    ASSUME TypeOK, TargetOK, [Next]_vars
    PROVE  TypeOK'
  <1> USE DEF TypeOK, Kinds, memory, disk, history, Places, Commanding, Daemons, Loop, Gone
  <1>1. ASSUME NEW p \in Proc, ReadHolder(p) PROVE TypeOK'
    <2>1. /\ pc[p] = "read" /\ target' = [target EXCEPT ![p] = pidFile]
          /\ UNCHANGED <<kind, stop, opened, lock, disk, stopped>>
      BY <1>1 DEF ReadHolder
    <2>2. CASE pc' = [pc EXCEPT ![p] = "signal"]
      BY <2>1, <2>2
    <2>3. CASE Returned(p, FALSE)
      <3> HIDE DEF TypeOK
      <3> QED
        BY <2>1, <2>3, ReturnedTypes DEF disk
    <2> QED
      BY <1>1, <2>2, <2>3 DEF ReadHolder
  <1>2. ASSUME NEW p \in Proc, Signal(p) PROVE TypeOK'
    <2> DEFINE t == target[p]
    <2>1. /\ t \in Proc /\ t # p /\ pc[p] = "signal"
          /\ UNCHANGED <<kind, target, opened, disk, history>>
      BY <1>2, SignalReaches
    <2>2. CASE /\ pc[t] = "named"
               /\ pc' = [pc EXCEPT ![p] = "wait", ![t] = "gone"]
               /\ lock' = NoProc /\ UNCHANGED stop
      BY <2>1, <2>2
    <2>3. CASE /\ pc[t] \in Loop
               /\ pc' = [pc EXCEPT ![p] = "wait"]
               /\ stop' = [stop EXCEPT ![t] = TRUE] /\ UNCHANGED lock
      BY <2>1, <2>3
    <2>4. CASE /\ pc[t] = "zombie"
               /\ pc' = [pc EXCEPT ![p] = "wait"] /\ UNCHANGED <<stop, lock>>
      BY <2>1, <2>4
    <2>5. CASE Returned(p, FALSE) /\ UNCHANGED <<stop, lock>>
      <3> HIDE DEF TypeOK
      <3> QED
        BY <2>1, <2>5, ReturnedTypes DEF disk, history
    <2> HIDE DEF TypeOK
    <2> QED
      BY <1>2, <2>2, <2>3, <2>4, <2>5, SignalReaches
  <1>3. ASSUME NEW p \in Proc, Probe(p) PROVE TypeOK'
    BY <1>3 DEF Probe
  <1>4. ASSUME NEW p \in Proc, ReleaseProbe(p) PROVE TypeOK'
    <2>1. /\ Returned(p, TRUE) /\ pc[p] = "probed" /\ lock' = NoProc
          /\ UNCHANGED <<kind, target, stop, opened, disk, stopped>>
      BY <1>4 DEF ReleaseProbe
    <2> HIDE DEF TypeOK
    <2> QED
      BY <2>1, ReturnedTypes DEF disk
  <1>5. ASSUME NEW p \in Proc, GiveUp(p) PROVE TypeOK'
    <2>1. /\ Returned(p, FALSE) /\ pc[p] = "wait" /\ lock' = lock
          /\ UNCHANGED <<kind, target, stop, opened, disk, stopped>>
      BY <1>5 DEF GiveUp
    <2> HIDE DEF TypeOK
    <2> QED
      BY <2>1, ReturnedTypes DEF disk
  <1>6. ASSUME NEW p \in Proc, Spawn(p) PROVE TypeOK'
    BY <1>6 DEF Spawn, Idle
  <1>7. ASSUME NEW p \in Proc, Acquire(p) PROVE TypeOK'
    BY <1>7 DEF Acquire
  <1>8. ASSUME NEW p \in Proc, WritePid(p) PROVE TypeOK'
    BY <1>8 DEF WritePid
  <1>9. ASSUME NEW p \in Proc, InstallHandlers(p) PROVE TypeOK'
    BY <1>9 DEF InstallHandlers
  <1>10. ASSUME NEW p \in Proc, Recover(p) PROVE TypeOK'
    BY <1>10, AppendedWrites DEF Recover
  <1>11. ASSUME NEW p \in Proc, ClearRecovered(p) PROVE TypeOK'
    BY <1>11 DEF ClearRecovered
  <1>12. ASSUME NEW p \in Proc, Leave(p) PROVE TypeOK'
    BY <1>12, AppendedWrites DEF Leave
  <1>13. ASSUME NEW p \in Proc, ClearMirror(p) PROVE TypeOK'
    BY <1>13 DEF ClearMirror
  <1>14. ASSUME NEW p \in Proc, Release(p) PROVE TypeOK'
    BY <1>14 DEF Release
  <1>15. ASSUME NEW p \in Proc, OpenSegment(p) PROVE TypeOK'
    BY <1>15 DEF OpenSegment
  <1>16. ASSUME NEW p \in Proc, Reap(p) PROVE TypeOK'
    BY <1>16 DEF Reap
  <1>17. ASSUME NEW p \in Proc, Kill(p) PROVE TypeOK'
    BY <1>17 DEF Kill
  <1>18. ASSUME NEW p \in Proc, GiveUpOnSlow(p) PROVE TypeOK'
    <2>1. /\ pc[p] = "wait" /\ Returned(p, FALSE)
          /\ UNCHANGED <<kind, target, stop, opened, lock, disk>> /\ stopped' = TRUE
      BY <1>18 DEF GiveUpOnSlow
    <2> HIDE DEF TypeOK
    <2> QED
      BY <2>1, ReturnedTypes DEF disk
  <1>19. ASSUME NEW p \in Proc, NEW k \in Kinds, Launch(p, k) PROVE TypeOK'
    BY <1>19 DEF Launch
  <1>20. CASE OtherAppends \/ UNCHANGED vars
    BY <1>20, AppendedWrites DEF OtherAppends, vars
  <1> QED
    BY <1>1, <1>2, <1>3, <1>4, <1>5, <1>6, <1>7, <1>8, <1>9, <1>10, <1>11, <1>12, <1>13, <1>14, <1>15, <1>16, <1>17, <1>18, <1>19, <1>20 DEF Next, Step

\* The lock changes hands with the places that need it.
LEMMA LockNext ==
    ASSUME TypeOK, TargetOK, LockOK, [Next]_vars
    PROVE  LockOK'
  <1> USE DEF TypeOK, LockOK, Holding, memory, disk, history, Places, Commanding, Daemons, Loop, Gone
  <1>1. ASSUME NEW p \in Proc, ReadHolder(p) PROVE LockOK'
    <2>1. /\ pc[p] = "read" /\ target' = [target EXCEPT ![p] = pidFile]
          /\ UNCHANGED <<kind, stop, opened, lock, disk, stopped>>
      BY <1>1 DEF ReadHolder
    <2>2. CASE pc' = [pc EXCEPT ![p] = "signal"]
      BY <2>1, <2>2
    <2>3. CASE Returned(p, FALSE)
      <3> HIDE DEF TypeOK, LockOK
      <3> QED
        BY <2>1, <2>3, ReturnedLock DEF disk
    <2> QED
      BY <1>1, <2>2, <2>3 DEF ReadHolder
  <1>2. ASSUME NEW p \in Proc, Signal(p) PROVE LockOK'
    <2> DEFINE t == target[p]
    <2>1. /\ t \in Proc /\ t # p /\ pc[p] = "signal"
          /\ UNCHANGED <<kind, target, opened, disk, history>>
      BY <1>2, SignalReaches
    <2>2. CASE /\ pc[t] = "named"
               /\ pc' = [pc EXCEPT ![p] = "wait", ![t] = "gone"]
               /\ lock' = NoProc /\ UNCHANGED stop
      BY <2>1, <2>2
    <2>3. CASE /\ pc[t] \in Loop
               /\ pc' = [pc EXCEPT ![p] = "wait"]
               /\ stop' = [stop EXCEPT ![t] = TRUE] /\ UNCHANGED lock
      BY <2>1, <2>3
    <2>4. CASE /\ pc[t] = "zombie"
               /\ pc' = [pc EXCEPT ![p] = "wait"] /\ UNCHANGED <<stop, lock>>
      BY <2>1, <2>4
    <2>5. CASE Returned(p, FALSE) /\ UNCHANGED <<stop, lock>>
      <3> HIDE DEF TypeOK, LockOK
      <3> QED
        BY <2>1, <2>5, ReturnedLock DEF disk, history
    <2> HIDE DEF TypeOK, LockOK
    <2> QED
      BY <1>2, <2>2, <2>3, <2>4, <2>5, SignalReaches
  <1>3. ASSUME NEW p \in Proc, Probe(p) PROVE LockOK'
    BY <1>3, BoundAssumption DEF Probe
  <1>4. ASSUME NEW p \in Proc, ReleaseProbe(p) PROVE LockOK'
    <2>1. /\ Returned(p, TRUE) /\ pc[p] = "probed" /\ lock' = NoProc
          /\ UNCHANGED <<kind, target, stop, opened, disk, stopped>>
      BY <1>4 DEF ReleaseProbe
    <2> HIDE DEF TypeOK, LockOK
    <2> QED
      BY <2>1, ReturnedLock DEF disk
  <1>5. ASSUME NEW p \in Proc, GiveUp(p) PROVE LockOK'
    <2>1. /\ Returned(p, FALSE) /\ pc[p] = "wait" /\ lock' = lock
          /\ UNCHANGED <<kind, target, stop, opened, disk, stopped>>
      BY <1>5 DEF GiveUp
    <2> HIDE DEF TypeOK, LockOK
    <2> QED
      BY <2>1, ReturnedLock DEF disk
  <1>6. ASSUME NEW p \in Proc, Spawn(p) PROVE LockOK'
    BY <1>6 DEF Spawn, Idle
  <1>7. ASSUME NEW p \in Proc, Acquire(p) PROVE LockOK'
    BY <1>7, BoundAssumption DEF Acquire
  <1>8. ASSUME NEW p \in Proc, WritePid(p) PROVE LockOK'
    BY <1>8 DEF WritePid
  <1>9. ASSUME NEW p \in Proc, InstallHandlers(p) PROVE LockOK'
    BY <1>9 DEF InstallHandlers
  <1>10. ASSUME NEW p \in Proc, Recover(p) PROVE LockOK'
    BY <1>10, AppendedWrites DEF Recover
  <1>11. ASSUME NEW p \in Proc, ClearRecovered(p) PROVE LockOK'
    BY <1>11 DEF ClearRecovered
  <1>12. ASSUME NEW p \in Proc, Leave(p) PROVE LockOK'
    BY <1>12, AppendedWrites DEF Leave
  <1>13. ASSUME NEW p \in Proc, ClearMirror(p) PROVE LockOK'
    BY <1>13 DEF ClearMirror
  <1>14. ASSUME NEW p \in Proc, Release(p) PROVE LockOK'
    BY <1>14 DEF Release
  <1>15. ASSUME NEW p \in Proc, OpenSegment(p) PROVE LockOK'
    BY <1>15 DEF OpenSegment
  <1>16. ASSUME NEW p \in Proc, Reap(p) PROVE LockOK'
    BY <1>16 DEF Reap
  <1>17. ASSUME NEW p \in Proc, Kill(p) PROVE LockOK'
    BY <1>17 DEF Kill
  <1>18. ASSUME NEW p \in Proc, GiveUpOnSlow(p) PROVE LockOK'
    <2>1. /\ pc[p] = "wait" /\ Returned(p, FALSE)
          /\ UNCHANGED <<kind, target, stop, opened, lock, disk>> /\ stopped' = TRUE
      BY <1>18 DEF GiveUpOnSlow
    <2> HIDE DEF TypeOK, LockOK
    <2> QED
      BY <2>1, ReturnedLock DEF disk
  <1>19. ASSUME NEW p \in Proc, NEW k \in Kinds, Launch(p, k) PROVE LockOK'
    BY <1>19 DEF Launch
  <1>20. CASE OtherAppends \/ UNCHANGED vars
    BY <1>20, AppendedWrites DEF OtherAppends, vars
  <1> QED
    BY <1>1, <1>2, <1>3, <1>4, <1>5, <1>6, <1>7, <1>8, <1>9, <1>10, <1>11, <1>12, <1>13, <1>14, <1>15, <1>16, <1>17, <1>18, <1>19, <1>20 DEF Next, Step

\* A process whose pid was in the lock file is only ever further on its way.
LEMMA TargetNext ==
    ASSUME TypeOK, TargetOK, [Next]_vars
    PROVE  TargetOK'
  <1> USE DEF TypeOK, TargetOK, Named, memory, disk, history, Places, Commanding, Daemons, Loop, Gone
  <1>1. ASSUME NEW p \in Proc, ReadHolder(p) PROVE TargetOK'
    <2>1. /\ pc[p] = "read" /\ target' = [target EXCEPT ![p] = pidFile]
          /\ UNCHANGED <<kind, stop, opened, lock, disk, history>>
      BY <1>1 DEF ReadHolder
    <2>2. CASE pidFile # NoProc /\ pc' = [pc EXCEPT ![p] = "signal"]
      BY <2>1, <2>2
    <2>3. CASE Returned(p, FALSE)
      <3> HIDE DEF TypeOK, TargetOK
      <3> QED
        BY <2>1, <2>3, ReturnedTargets DEF disk
    <2> QED
      BY <1>1, <2>2, <2>3 DEF ReadHolder, Alive
  <1>2. ASSUME NEW p \in Proc, Signal(p) PROVE TargetOK'
    <2> DEFINE t == target[p]
    <2>1. /\ t \in Proc /\ t # p /\ pc[p] = "signal"
          /\ UNCHANGED <<kind, target, opened, disk, history>>
      BY <1>2, SignalReaches
    <2>2. CASE /\ pc[t] = "named"
               /\ pc' = [pc EXCEPT ![p] = "wait", ![t] = "gone"]
               /\ lock' = NoProc /\ UNCHANGED stop
      BY <2>1, <2>2
    <2>3. CASE /\ pc[t] \in Loop
               /\ pc' = [pc EXCEPT ![p] = "wait"]
               /\ stop' = [stop EXCEPT ![t] = TRUE] /\ UNCHANGED lock
      BY <2>1, <2>3
    <2>4. CASE /\ pc[t] = "zombie"
               /\ pc' = [pc EXCEPT ![p] = "wait"] /\ UNCHANGED <<stop, lock>>
      BY <2>1, <2>4
    <2>5. CASE Returned(p, FALSE) /\ UNCHANGED <<stop, lock>>
      <3> HIDE DEF TypeOK, TargetOK
      <3> QED
        BY <2>1, <2>5, ReturnedTargets DEF disk, history
    <2> HIDE DEF TypeOK, TargetOK
    <2> QED
      BY <1>2, <2>2, <2>3, <2>4, <2>5, SignalReaches
  <1>3. ASSUME NEW p \in Proc, Probe(p) PROVE TargetOK'
    BY <1>3 DEF Probe
  <1>4. ASSUME NEW p \in Proc, ReleaseProbe(p) PROVE TargetOK'
    <2>1. /\ Returned(p, TRUE) /\ pc[p] = "probed" /\ lock' = NoProc
          /\ UNCHANGED <<kind, target, stop, opened, disk, stopped>>
      BY <1>4 DEF ReleaseProbe
    <2> HIDE DEF TypeOK, TargetOK
    <2> QED
      BY <2>1, ReturnedTargets DEF disk
  <1>5. ASSUME NEW p \in Proc, GiveUp(p) PROVE TargetOK'
    <2>1. /\ pc' = [pc EXCEPT ![p] = pc'[p]] /\ pc'[p] \in {"acquire", "spawn", "ended"}
          /\ pc[p] = "wait" /\ UNCHANGED <<target, pidFile>>
      BY <1>5, ReturnedGoesTo DEF GiveUp
    <2>2. \A q \in Proc : pc'[q] \in {"signal", "wait", "probed"} => q # p /\ pc[q] = pc'[q]
      BY <2>1
    <2>3. \A q \in Proc : pc[q] \in Named => pc'[q] \in Named
      BY <2>1
    <2> QED
      BY <2>1, <2>2, <2>3
  <1>6. ASSUME NEW p \in Proc, Spawn(p) PROVE TargetOK'
    BY <1>6 DEF Spawn, Idle
  <1>7. ASSUME NEW p \in Proc, Acquire(p) PROVE TargetOK'
    BY <1>7 DEF Acquire
  <1>8. ASSUME NEW p \in Proc, WritePid(p) PROVE TargetOK'
    BY <1>8 DEF WritePid
  <1>9. ASSUME NEW p \in Proc, InstallHandlers(p) PROVE TargetOK'
    BY <1>9 DEF InstallHandlers
  <1>10. ASSUME NEW p \in Proc, Recover(p) PROVE TargetOK'
    BY <1>10, AppendedWrites DEF Recover
  <1>11. ASSUME NEW p \in Proc, ClearRecovered(p) PROVE TargetOK'
    BY <1>11 DEF ClearRecovered
  <1>12. ASSUME NEW p \in Proc, Leave(p) PROVE TargetOK'
    <2>1. /\ pc[p] = "loop" /\ UNCHANGED <<target, pidFile>>
          /\ pc' = [pc EXCEPT ![p] = "clear"] \/ pc' = [pc EXCEPT ![p] = "release"]
      BY <1>12 DEF Leave
    <2> QED
      BY <2>1
  <1>13. ASSUME NEW p \in Proc, ClearMirror(p) PROVE TargetOK'
    BY <1>13 DEF ClearMirror
  <1>14. ASSUME NEW p \in Proc, Release(p) PROVE TargetOK'
    BY <1>14 DEF Release
  <1>15. ASSUME NEW p \in Proc, OpenSegment(p) PROVE TargetOK'
    BY <1>15 DEF OpenSegment
  <1>16. ASSUME NEW p \in Proc, Reap(p) PROVE TargetOK'
    BY <1>16 DEF Reap
  <1>17. ASSUME NEW p \in Proc, Kill(p) PROVE TargetOK'
    BY <1>17 DEF Kill
  <1>18. ASSUME NEW p \in Proc, GiveUpOnSlow(p) PROVE TargetOK'
    <2>1. /\ pc[p] = "wait" /\ Returned(p, FALSE)
          /\ UNCHANGED <<kind, target, stop, opened, lock, disk>> /\ stopped' = TRUE
      BY <1>18 DEF GiveUpOnSlow
    <2> HIDE DEF TypeOK, TargetOK
    <2> QED
      BY <2>1, ReturnedTargets DEF disk
  <1>19. ASSUME NEW p \in Proc, NEW k \in Kinds, Launch(p, k) PROVE TargetOK'
    BY <1>19 DEF Launch
  <1>20. CASE OtherAppends \/ UNCHANGED vars
    BY <1>20, AppendedWrites DEF OtherAppends, vars
  <1> QED
    BY <1>1, <1>2, <1>3, <1>4, <1>5, <1>6, <1>7, <1>8, <1>9, <1>10, <1>11, <1>12, <1>13, <1>14, <1>15, <1>16, <1>17, <1>18, <1>19, <1>20 DEF Next, Step

\* Only the loop opens a segment, and only a signal tells it to stop.
LEMMA StageNext ==
    ASSUME TypeOK, TargetOK, StageOK, [Next]_vars
    PROVE  StageOK'
  <1> USE DEF TypeOK, StageOK, Stopping, Kinds, memory, disk, history, Places, Commanding, Daemons, Loop, Gone
  <1>1. ASSUME NEW p \in Proc, ReadHolder(p) PROVE StageOK'
    BY <1>1, ReturnedGoesTo DEF ReadHolder, Alive
  <1>2. ASSUME NEW p \in Proc, Signal(p) PROVE StageOK'
    <2> DEFINE t == target[p]
    <2>1. /\ t \in Proc /\ t # p /\ pc[p] = "signal"
          /\ UNCHANGED <<kind, target, opened, disk, history>>
      BY <1>2, SignalReaches
    <2>2. CASE /\ pc[t] = "named"
               /\ pc' = [pc EXCEPT ![p] = "wait", ![t] = "gone"]
               /\ lock' = NoProc /\ UNCHANGED stop
      BY <2>1, <2>2
    <2>3. CASE /\ pc[t] \in Loop
               /\ pc' = [pc EXCEPT ![p] = "wait"]
               /\ stop' = [stop EXCEPT ![t] = TRUE] /\ UNCHANGED lock
      BY <2>1, <2>3
    <2>4. CASE /\ pc[t] = "zombie"
               /\ pc' = [pc EXCEPT ![p] = "wait"] /\ UNCHANGED <<stop, lock>>
      BY <2>1, <2>4
    <2>5. CASE Returned(p, FALSE) /\ UNCHANGED <<stop, lock>>
      BY <2>1, <2>5, ReturnedGoesTo
    <2> QED
      BY <1>2, <2>2, <2>3, <2>4, <2>5, SignalReaches
  <1>3. ASSUME NEW p \in Proc, Probe(p) PROVE StageOK'
    BY <1>3 DEF Probe
  <1>4. ASSUME NEW p \in Proc, ReleaseProbe(p) PROVE StageOK'
    BY <1>4, ReturnedGoesTo DEF ReleaseProbe
  <1>5. ASSUME NEW p \in Proc, GiveUp(p) PROVE StageOK'
    BY <1>5, ReturnedGoesTo DEF GiveUp
  <1>6. ASSUME NEW p \in Proc, Spawn(p) PROVE StageOK'
    BY <1>6 DEF Spawn, Idle
  <1>7. ASSUME NEW p \in Proc, Acquire(p) PROVE StageOK'
    BY <1>7 DEF Acquire
  <1>8. ASSUME NEW p \in Proc, WritePid(p) PROVE StageOK'
    BY <1>8 DEF WritePid
  <1>9. ASSUME NEW p \in Proc, InstallHandlers(p) PROVE StageOK'
    BY <1>9 DEF InstallHandlers
  <1>10. ASSUME NEW p \in Proc, Recover(p) PROVE StageOK'
    BY <1>10, AppendedWrites DEF Recover
  <1>11. ASSUME NEW p \in Proc, ClearRecovered(p) PROVE StageOK'
    BY <1>11 DEF ClearRecovered
  <1>12. ASSUME NEW p \in Proc, Leave(p) PROVE StageOK'
    BY <1>12, AppendedWrites DEF Leave
  <1>13. ASSUME NEW p \in Proc, ClearMirror(p) PROVE StageOK'
    BY <1>13 DEF ClearMirror
  <1>14. ASSUME NEW p \in Proc, Release(p) PROVE StageOK'
    BY <1>14 DEF Release
  <1>15. ASSUME NEW p \in Proc, OpenSegment(p) PROVE StageOK'
    BY <1>15 DEF OpenSegment
  <1>16. ASSUME NEW p \in Proc, Reap(p) PROVE StageOK'
    BY <1>16 DEF Reap
  <1>17. ASSUME NEW p \in Proc, Kill(p) PROVE StageOK'
    BY <1>17 DEF Kill
  <1>18. ASSUME NEW p \in Proc, GiveUpOnSlow(p) PROVE StageOK'
    <2>1. /\ pc[p] = "wait" /\ Returned(p, FALSE)
          /\ UNCHANGED <<kind, target, stop, opened, lock, disk>> /\ stopped' = TRUE
      BY <1>18 DEF GiveUpOnSlow
    <2> QED
      BY <2>1, ReturnedGoesTo
  <1>19. ASSUME NEW p \in Proc, NEW k \in Kinds, Launch(p, k) PROVE StageOK'
    BY <1>19 DEF Launch
  <1>20. CASE OtherAppends \/ UNCHANGED vars
    BY <1>20, AppendedWrites DEF OtherAppends, vars
  <1> QED
    BY <1>1, <1>2, <1>3, <1>4, <1>5, <1>6, <1>7, <1>8, <1>9, <1>10, <1>11, <1>12, <1>13, <1>14, <1>15, <1>16, <1>17, <1>18, <1>19, <1>20 DEF Next, Step

-----------------------------------------------------------------------------

\* What is written and who was killed can be told from the journal and the faults.
LEMMA SameRecords ==
    /\ UNCHANGED appends => Written' = Written
    /\ UNCHANGED faults => Killed' = Killed
  BY DEF Written, Killed

\* A kill, and a wait that was too short, leave a trace that the promises except.
LEMMA KillIsRecorded ==
    ASSUME NEW p
    PROVE  /\ Kill(p) => Killed' = Killed \cup {p}
           /\ GiveUpOnSlow(p) => Killed' = Killed
  <1>1. \A x : x \in Killed <=> \E f \in faults : f.what = "kill" /\ f.proc = x
    BY DEF Killed
  <1>2. \A x : x \in Killed' <=> \E f \in faults' : f.what = "kill" /\ f.proc = x
    BY DEF Killed
  <1>3. ASSUME Kill(p) PROVE Killed' = Killed \cup {p}
    <2> DEFINE kill == [what |-> "kill", proc |-> p]
    <2>1. faults' = faults \cup {kill} /\ kill.what = "kill" /\ kill.proc = p
      BY <1>3 DEF Kill
    <2> HIDE DEF kill
    <2>2. \A x : x \in Killed' <=> x \in Killed \/ x = p
      BY <1>1, <1>2, <2>1
    <2> QED
      BY <2>2
  <1>4. ASSUME GiveUpOnSlow(p) PROVE Killed' = Killed
    <2> DEFINE slow == [what |-> "slow", proc |-> p]
    <2>1. faults' = faults \cup {slow} /\ slow.what # "kill"
      BY <1>4 DEF GiveUpOnSlow
    <2> HIDE DEF slow
    <2>2. \A x : x \in Killed' <=> x \in Killed
      BY <1>1, <1>2, <2>1
    <2> QED
      BY <2>2
  <1> QED
    BY <1>3, <1>4

\* A process goes to a place that is not in the life of a daemon from its recovery on.
LEMMA MoveElsewhere ==
    ASSUME TypeOK, MirrorOK, NEW p \in Proc, pc' = [pc EXCEPT ![p] = pc'[p]],
           pc'[p] \notin {"recoverClear", "loop", "clear", "release", "zombie", "gone"},
           UNCHANGED <<mirror, opened, appends>>, Killed' = Killed
    PROVE  MirrorOK'
  BY SameRecords DEF TypeOK, MirrorOK

\* So it is when _stop_running() returns.
LEMMA ReturnedElsewhere ==
    ASSUME TypeOK, MirrorOK, NEW p \in Proc, NEW ok, Returned(p, ok),
           UNCHANGED <<mirror, opened, appends>>, Killed' = Killed
    PROVE  MirrorOK'
  <1>1. pc' = [pc EXCEPT ![p] = pc'[p]] /\ pc'[p] \in {"acquire", "spawn", "ended"}
    BY ReturnedGoesTo
  <1> QED
    BY <1>1, MoveElsewhere

\* Only who holds the lock changes current.json, and writes the entry before.
LEMMA MirrorNext ==
    ASSUME TypeOK, LockOK, TargetOK, StageOK, MirrorOK, [Next]_vars
    PROVE  MirrorOK'
  <1> USE DEF TypeOK, LockOK, StageOK, MirrorOK, Holding, memory, disk, history, Places, Commanding, Daemons, Loop, Gone
  <1>1. ASSUME NEW p \in Proc, ReadHolder(p) PROVE MirrorOK'
    <2>1. /\ UNCHANGED <<mirror, opened, appends, faults>>
          /\ Returned(p, FALSE) \/ pc' = [pc EXCEPT ![p] = "signal"]
      BY <1>1 DEF ReadHolder
    <2>2. pc' = [pc EXCEPT ![p] = pc'[p]] /\ pc'[p] \in {"acquire", "spawn", "ended", "signal"}
      BY <2>1, ReturnedGoesTo
    <2> QED
      BY <2>1, <2>2, MoveElsewhere, SameRecords
  <1>2. ASSUME NEW p \in Proc, Signal(p) PROVE MirrorOK'
    <2> DEFINE t == target[p]
    <2>1. /\ t \in Proc /\ t # p /\ pc[p] = "signal"
          /\ UNCHANGED <<kind, target, opened, disk, history>>
      BY <1>2, SignalReaches
    <2>2. CASE /\ pc[t] = "named"
               /\ pc' = [pc EXCEPT ![p] = "wait", ![t] = "gone"]
               /\ lock' = NoProc /\ UNCHANGED stop
      BY <2>1, <2>2, SameRecords
    <2>3. CASE /\ pc[t] \in Loop
               /\ pc' = [pc EXCEPT ![p] = "wait"]
               /\ stop' = [stop EXCEPT ![t] = TRUE] /\ UNCHANGED lock
      BY <2>1, <2>3, SameRecords
    <2>4. CASE /\ pc[t] = "zombie"
               /\ pc' = [pc EXCEPT ![p] = "wait"] /\ UNCHANGED <<stop, lock>>
      BY <2>1, <2>4, SameRecords
    <2>5. CASE Returned(p, FALSE) /\ UNCHANGED <<stop, lock>>
      <3> HIDE DEF TypeOK, MirrorOK
      <3> QED
        BY <2>1, <2>5, ReturnedElsewhere, SameRecords DEF disk, history
    <2> QED
      BY <1>2, <2>2, <2>3, <2>4, <2>5, SignalReaches
  <1>3. ASSUME NEW p \in Proc, Probe(p) PROVE MirrorOK'
    BY <1>3, SameRecords DEF Probe
  <1>4. ASSUME NEW p \in Proc, ReleaseProbe(p) PROVE MirrorOK'
    <2>1. /\ Returned(p, TRUE) /\ UNCHANGED <<mirror, opened, appends, faults>>
      BY <1>4 DEF ReleaseProbe
    <2> HIDE DEF TypeOK, MirrorOK
    <2> QED
      BY <2>1, ReturnedElsewhere, SameRecords
  <1>5. ASSUME NEW p \in Proc, GiveUp(p) PROVE MirrorOK'
    <2>1. /\ Returned(p, FALSE) /\ UNCHANGED <<mirror, opened, appends, faults>>
      BY <1>5 DEF GiveUp
    <2> HIDE DEF TypeOK, MirrorOK
    <2> QED
      BY <2>1, ReturnedElsewhere, SameRecords
  <1>6. ASSUME NEW p \in Proc, Spawn(p) PROVE MirrorOK'
    BY <1>6, SameRecords DEF Spawn, Idle
  <1>7. ASSUME NEW p \in Proc, Acquire(p) PROVE MirrorOK'
    BY <1>7, SameRecords DEF Acquire
  <1>8. ASSUME NEW p \in Proc, WritePid(p) PROVE MirrorOK'
    BY <1>8, SameRecords DEF WritePid
  <1>9. ASSUME NEW p \in Proc, InstallHandlers(p) PROVE MirrorOK'
    BY <1>9, SameRecords DEF InstallHandlers
  <1>10. ASSUME NEW p \in Proc, Recover(p) PROVE MirrorOK'
    BY <1>10, AppendedWrites, SameRecords DEF Recover
  <1>11. ASSUME NEW p \in Proc, ClearRecovered(p) PROVE MirrorOK'
    BY <1>11, BoundAssumption, SameRecords DEF ClearRecovered
  <1>12. ASSUME NEW p \in Proc, Leave(p) PROVE MirrorOK'
    BY <1>12, AppendedWrites, SameRecords DEF Leave
  <1>13. ASSUME NEW p \in Proc, ClearMirror(p) PROVE MirrorOK'
    BY <1>13, BoundAssumption, SameRecords DEF ClearMirror
  <1>14. ASSUME NEW p \in Proc, Release(p) PROVE MirrorOK'
    BY <1>14, BoundAssumption, SameRecords DEF Release
  <1>15. ASSUME NEW p \in Proc, OpenSegment(p) PROVE MirrorOK'
    BY <1>15, BoundAssumption, SameRecords DEF OpenSegment
  <1>16. ASSUME NEW p \in Proc, Reap(p) PROVE MirrorOK'
    BY <1>16, SameRecords DEF Reap
  <1>17. ASSUME NEW p \in Proc, Kill(p) PROVE MirrorOK'
    <2>1. /\ pc[p] \in Daemons /\ pc' = [pc EXCEPT ![p] = "zombie"]
          /\ UNCHANGED <<mirror, opened, appends>>
      BY <1>17 DEF Kill
    <2>2. Killed' = Killed \cup {p} /\ Written' = Written
      BY <1>17, <2>1, KillIsRecorded, SameRecords
    <2> QED
      BY <2>1, <2>2
  <1>18. ASSUME NEW p \in Proc, GiveUpOnSlow(p) PROVE MirrorOK'
    <2>1. Returned(p, FALSE) /\ UNCHANGED <<mirror, opened, appends>>
      BY <1>18 DEF GiveUpOnSlow
    <2> QED
      BY <1>18, <2>1, ReturnedElsewhere, KillIsRecorded
  <1>19. ASSUME NEW p \in Proc, NEW k \in Kinds, Launch(p, k) PROVE MirrorOK'
    <2>1. /\ pc' = [pc EXCEPT ![p] = pc'[p]] /\ pc'[p] \in {"acquire", "read"}
          /\ UNCHANGED <<mirror, opened, appends, faults>>
      BY <1>19 DEF Launch
    <2> QED
      BY <2>1, MoveElsewhere, SameRecords
  <1>20. CASE OtherAppends \/ UNCHANGED vars
    BY <1>20, AppendedWrites, SameRecords DEF OtherAppends, vars
  <1> QED
    BY <1>1, <1>2, <1>3, <1>4, <1>5, <1>6, <1>7, <1>8, <1>9, <1>10, <1>11, <1>12, <1>13, <1>14, <1>15, <1>16, <1>17, <1>18, <1>19, <1>20 DEF Next, Step

-----------------------------------------------------------------------------

\* A `stop` is on record from its start.
LEMMA NobodyStopsNext ==
    ASSUME TypeOK, TargetOK, StageOK, ~stopped => NobodyStops, [Next]_vars
    PROVE  (~stopped => NobodyStops)'
  <1> USE DEF TypeOK, NobodyStops, memory, disk, history, Places, Commanding, Daemons, Loop, Gone
  <1>1. ASSUME NEW p \in Proc, ReadHolder(p) PROVE (~stopped => NobodyStops)'
    BY <1>1, ReturnedGoesTo DEF ReadHolder, Alive
  <1>2. ASSUME NEW p \in Proc, Signal(p) PROVE (~stopped => NobodyStops)'
    <2> DEFINE t == target[p]
    <2>1. /\ t \in Proc /\ t # p /\ pc[p] = "signal"
          /\ UNCHANGED <<kind, target, opened, disk, history>>
      BY <1>2, SignalReaches
    <2>2. CASE /\ pc[t] = "named"
               /\ pc' = [pc EXCEPT ![p] = "wait", ![t] = "gone"]
               /\ lock' = NoProc /\ UNCHANGED stop
      BY <2>1, <2>2
    <2>3. CASE /\ pc[t] \in Loop
               /\ pc' = [pc EXCEPT ![p] = "wait"]
               /\ stop' = [stop EXCEPT ![t] = TRUE] /\ UNCHANGED lock
      BY <2>1, <2>3
    <2>4. CASE /\ pc[t] = "zombie"
               /\ pc' = [pc EXCEPT ![p] = "wait"] /\ UNCHANGED <<stop, lock>>
      BY <2>1, <2>4
    <2>5. CASE Returned(p, FALSE) /\ UNCHANGED <<stop, lock>>
      BY <2>1, <2>5, ReturnedGoesTo
    <2> QED
      BY <1>2, <2>2, <2>3, <2>4, <2>5, SignalReaches
  <1>3. ASSUME NEW p \in Proc, Probe(p) PROVE (~stopped => NobodyStops)'
    BY <1>3 DEF Probe
  <1>4. ASSUME NEW p \in Proc, ReleaseProbe(p) PROVE (~stopped => NobodyStops)'
    BY <1>4, ReturnedGoesTo DEF ReleaseProbe
  <1>5. ASSUME NEW p \in Proc, GiveUp(p) PROVE (~stopped => NobodyStops)'
    BY <1>5, ReturnedGoesTo DEF GiveUp
  <1>6. ASSUME NEW p \in Proc, Spawn(p) PROVE (~stopped => NobodyStops)'
    BY <1>6 DEF Spawn, Idle
  <1>7. ASSUME NEW p \in Proc, Acquire(p) PROVE (~stopped => NobodyStops)'
    BY <1>7 DEF Acquire
  <1>8. ASSUME NEW p \in Proc, WritePid(p) PROVE (~stopped => NobodyStops)'
    BY <1>8 DEF WritePid
  <1>9. ASSUME NEW p \in Proc, InstallHandlers(p) PROVE (~stopped => NobodyStops)'
    BY <1>9 DEF InstallHandlers
  <1>10. ASSUME NEW p \in Proc, Recover(p) PROVE (~stopped => NobodyStops)'
    BY <1>10, AppendedWrites DEF Recover
  <1>11. ASSUME NEW p \in Proc, ClearRecovered(p) PROVE (~stopped => NobodyStops)'
    BY <1>11 DEF ClearRecovered
  <1>12. ASSUME NEW p \in Proc, Leave(p) PROVE (~stopped => NobodyStops)'
    BY <1>12, AppendedWrites DEF Leave
  <1>13. ASSUME NEW p \in Proc, ClearMirror(p) PROVE (~stopped => NobodyStops)'
    BY <1>13 DEF ClearMirror
  <1>14. ASSUME NEW p \in Proc, Release(p) PROVE (~stopped => NobodyStops)'
    BY <1>14 DEF Release
  <1>15. ASSUME NEW p \in Proc, OpenSegment(p) PROVE (~stopped => NobodyStops)'
    BY <1>15 DEF OpenSegment
  <1>16. ASSUME NEW p \in Proc, Reap(p) PROVE (~stopped => NobodyStops)'
    BY <1>16 DEF Reap
  <1>17. ASSUME NEW p \in Proc, Kill(p) PROVE (~stopped => NobodyStops)'
    BY <1>17 DEF Kill
  <1>18. ASSUME NEW p \in Proc, GiveUpOnSlow(p) PROVE (~stopped => NobodyStops)'
    BY <1>18 DEF GiveUpOnSlow
  <1>19. ASSUME NEW p \in Proc, NEW k \in Kinds, Launch(p, k) PROVE (~stopped => NobodyStops)'
    BY <1>19 DEF Launch
  <1>20. CASE OtherAppends \/ UNCHANGED vars
    BY <1>20, AppendedWrites DEF OtherAppends, vars
  <1> QED
    BY <1>1, <1>2, <1>3, <1>4, <1>5, <1>6, <1>7, <1>8, <1>9, <1>10, <1>11, <1>12, <1>13, <1>14, <1>15, <1>16, <1>17, <1>18, <1>19, <1>20 DEF Next, Step

\* A process moves on that waits for no daemon that was told to stop.
LEMMA StillAwaited ==
    ASSUME TypeOK, ~stopped => StoppedIsAwaited, NEW p \in Proc,
           pc' = [pc EXCEPT ![p] = pc'[p]], pc'[p] \notin Loop, UNCHANGED <<stop, stopped>>,
           \A q \in Proc \ {p} : target'[q] = target[q],
           pc[p] = "wait" => \A h \in Proc : pc[h] \in Loop => ~stop[h]
    PROVE  (~stopped => StoppedIsAwaited)'
  <1> SUFFICES ASSUME ~stopped, NEW h \in Proc, pc'[h] \in Loop, stop[h]
               PROVE  \E q \in Proc : pc'[q] = "wait" /\ target'[q] = h
    BY DEF StoppedIsAwaited
  <1>1. h # p /\ pc[h] \in Loop
    BY DEF TypeOK
  <1>2. PICK q \in Proc : pc[q] = "wait" /\ target[q] = h
    BY <1>1 DEF StoppedIsAwaited
  <1>3. q # p
    BY <1>1, <1>2
  <1> QED
    BY <1>2, <1>3 DEF TypeOK

\* Who waits for a daemon goes on when that has left its loop.
LEMMA AwaitedNext ==
    ASSUME TypeOK, LockOK, TargetOK, StageOK, ~stopped => StoppedIsAwaited, [Next]_vars
    PROVE  (~stopped => StoppedIsAwaited)'
  <1> USE DEF TypeOK, LockOK, StageOK, StoppedIsAwaited, Holding, memory, disk, history, Places, Commanding, Daemons, Loop, Gone
  <1>1. ASSUME NEW p \in Proc, ReadHolder(p) PROVE (~stopped => StoppedIsAwaited)'
    <2>1. /\ pc[p] = "read" /\ target' = [target EXCEPT ![p] = pidFile]
          /\ UNCHANGED <<stop, stopped>>
          /\ Returned(p, FALSE) \/ pc' = [pc EXCEPT ![p] = "signal"]
      BY <1>1 DEF ReadHolder
    <2>2. pc' = [pc EXCEPT ![p] = pc'[p]] /\ pc'[p] \notin Loop
      <3>1. CASE Returned(p, FALSE)
        BY <3>1, ReturnedGoesTo
      <3>2. CASE pc' = [pc EXCEPT ![p] = "signal"]
        BY <3>2
      <3> QED
        BY <2>1, <3>1, <3>2
    <2>3. \A q \in Proc \ {p} : target'[q] = target[q]
      BY <2>1
    <2> QED
      BY <2>1, <2>2, <2>3, StillAwaited
  <1>2. ASSUME NEW p \in Proc, Signal(p) PROVE (~stopped => StoppedIsAwaited)'
    <2> DEFINE t == target[p]
    <2>1. /\ t \in Proc /\ t # p /\ pc[p] = "signal"
          /\ UNCHANGED <<kind, target, opened, disk, history>>
      <3> HIDE DEF TypeOK, TargetOK, StoppedIsAwaited
      <3> QED
        BY <1>2, SignalReaches
    <2>2. CASE /\ pc[t] = "named"
               /\ pc' = [pc EXCEPT ![p] = "wait", ![t] = "gone"]
               /\ lock' = NoProc /\ UNCHANGED stop
      BY <2>1, <2>2
    <2>3. CASE /\ pc[t] \in Loop
               /\ pc' = [pc EXCEPT ![p] = "wait"]
               /\ stop' = [stop EXCEPT ![t] = TRUE] /\ UNCHANGED lock
      BY <2>1, <2>3
    <2>4. CASE /\ pc[t] = "zombie"
               /\ pc' = [pc EXCEPT ![p] = "wait"] /\ UNCHANGED <<stop, lock>>
      BY <2>1, <2>4
    <2>5. CASE Returned(p, FALSE) /\ UNCHANGED <<stop, lock>>
      <3>1. pc' = [pc EXCEPT ![p] = pc'[p]] /\ pc'[p] \notin Loop
        BY <2>5, ReturnedGoesTo
      <3> QED
        BY <2>1, <2>5, <3>1, StillAwaited
    <2> HIDE DEF StoppedIsAwaited
    <2> QED
      BY <1>2, <2>2, <2>3, <2>4, <2>5, SignalReaches
  <1>3. ASSUME NEW p \in Proc, Probe(p) PROVE (~stopped => StoppedIsAwaited)'
    <2>1. \A h \in Proc : pc[h] \notin Loop
      BY <1>3, BoundAssumption DEF Probe
    <2>2. pc' = [pc EXCEPT ![p] = pc'[p]] /\ pc'[p] \notin Loop /\ UNCHANGED <<stop, stopped, target>>
      BY <1>3 DEF Probe
    <2> QED
      BY <2>1, <2>2, StillAwaited
  <1>4. ASSUME NEW p \in Proc, ReleaseProbe(p) PROVE (~stopped => StoppedIsAwaited)'
    <2>1. Returned(p, TRUE) /\ pc[p] = "probed" /\ UNCHANGED <<stop, stopped, target>>
      BY <1>4 DEF ReleaseProbe
    <2>2. pc' = [pc EXCEPT ![p] = pc'[p]] /\ pc'[p] \notin Loop
      BY <2>1, ReturnedGoesTo
    <2> QED
      BY <2>1, <2>2, StillAwaited
  <1>5. ASSUME NEW p \in Proc, GiveUp(p) PROVE (~stopped => StoppedIsAwaited)'
    <2>1. \A h \in Proc : pc[h] \in Loop => ~stop[h]
      BY <1>5 DEF GiveUp
    <2>2. Returned(p, FALSE) /\ UNCHANGED <<stop, stopped, target>>
      BY <1>5 DEF GiveUp
    <2>3. pc' = [pc EXCEPT ![p] = pc'[p]] /\ pc'[p] \notin Loop
      BY <2>2, ReturnedGoesTo
    <2> QED
      BY <2>1, <2>2, <2>3, StillAwaited
  <1>6. ASSUME NEW p \in Proc, Spawn(p) PROVE (~stopped => StoppedIsAwaited)'
    BY <1>6 DEF Spawn, Idle
  <1>7. ASSUME NEW p \in Proc, Acquire(p) PROVE (~stopped => StoppedIsAwaited)'
    BY <1>7 DEF Acquire
  <1>8. ASSUME NEW p \in Proc, WritePid(p) PROVE (~stopped => StoppedIsAwaited)'
    BY <1>8 DEF WritePid
  <1>9. ASSUME NEW p \in Proc, InstallHandlers(p) PROVE (~stopped => StoppedIsAwaited)'
    BY <1>9 DEF InstallHandlers
  <1>10. ASSUME NEW p \in Proc, Recover(p) PROVE (~stopped => StoppedIsAwaited)'
    BY <1>10, AppendedWrites DEF Recover
  <1>11. ASSUME NEW p \in Proc, ClearRecovered(p) PROVE (~stopped => StoppedIsAwaited)'
    BY <1>11 DEF ClearRecovered
  <1>12. ASSUME NEW p \in Proc, Leave(p) PROVE (~stopped => StoppedIsAwaited)'
    BY <1>12, AppendedWrites DEF Leave
  <1>13. ASSUME NEW p \in Proc, ClearMirror(p) PROVE (~stopped => StoppedIsAwaited)'
    BY <1>13 DEF ClearMirror
  <1>14. ASSUME NEW p \in Proc, Release(p) PROVE (~stopped => StoppedIsAwaited)'
    BY <1>14 DEF Release
  <1>15. ASSUME NEW p \in Proc, OpenSegment(p) PROVE (~stopped => StoppedIsAwaited)'
    BY <1>15 DEF OpenSegment
  <1>16. ASSUME NEW p \in Proc, Reap(p) PROVE (~stopped => StoppedIsAwaited)'
    BY <1>16 DEF Reap
  <1>17. ASSUME NEW p \in Proc, Kill(p) PROVE (~stopped => StoppedIsAwaited)'
    BY <1>17 DEF Kill
  <1>18. ASSUME NEW p \in Proc, GiveUpOnSlow(p) PROVE (~stopped => StoppedIsAwaited)'
    BY <1>18 DEF GiveUpOnSlow
  <1>19. ASSUME NEW p \in Proc, NEW k \in Kinds, Launch(p, k) PROVE (~stopped => StoppedIsAwaited)'
    BY <1>19 DEF Launch
  <1>20. CASE OtherAppends \/ UNCHANGED vars
    BY <1>20, AppendedWrites DEF OtherAppends, vars
  <1> QED
    BY <1>1, <1>2, <1>3, <1>4, <1>5, <1>6, <1>7, <1>8, <1>9, <1>10, <1>11, <1>12, <1>13, <1>14, <1>15, <1>16, <1>17, <1>18, <1>19, <1>20 DEF Next, Step

\* A step of p leaves everybody else as they are: whoever succeeds still does, or p
\* does.
LEMMA StillSucceeds ==
    ASSUME TypeOK, StageOK, NobodyStops, SomeoneSucceeds, NEW p \in Proc,
           pc[p] # "idle", UNCHANGED kind,
           \A q \in Proc \ {p} : pc'[q] = pc[q] /\ stop'[q] = stop[q],
           Killed' = {} => Killed = {},
           Succeeds(p) => \E q \in Proc : Succeeds(q)'
    PROVE  SomeoneSucceeds'
  <1> SUFFICES ASSUME Killed' = {}, NEW x \in Proc, pc'[x] # "idle", kind[x] # "flush"
               PROVE  \E q \in Proc : Succeeds(q)'
    BY DEF SomeoneSucceeds
  <1>1. pc[x] # "idle"
    OBVIOUS
  <1>2. PICK w \in Proc : Succeeds(w)
    BY <1>1 DEF SomeoneSucceeds
  <1>3. w # p => Succeeds(w)'
    BY <1>2 DEF Succeeds
  <1> QED
    BY <1>2, <1>3

\* Whoever commands a stop or a restart and is past its signal is a restart or a flush.
LEMMA Commands ==
    ASSUME TypeOK, StageOK, NobodyStops, NEW p \in Proc, pc[p] \in Stopping
    PROVE  kind[p] \in {"restart", "flush"} /\ pc[p] # "idle"
  BY DEF TypeOK, StageOK, NobodyStops, Kinds, Stopping

\* A process that finds the lock taken leaves it to a daemon, or to a process that
\* goes on to launch one.
LEMMA SucceedsElse ==
    ASSUME TypeOK, LockOK, StageOK, NobodyStops, StoppedIsAwaited, lock # NoProc
    PROVE  \E q \in Proc : Succeeds(q) /\ pc[q] # "acquire"
  <1>1. lock \in Proc /\ pc[lock] \in Holding
    BY DEF TypeOK, LockOK
  <1>2. CASE pc[lock] = "probed"
    <2>1. kind[lock] \in {"restart", "flush"}
      BY <1>1, <1>2, Commands DEF Stopping
    <2> QED
      BY <1>1, <1>2, <2>1 DEF Succeeds, Stopping
  <1>3. CASE pc[lock] \in Daemons /\ ~stop[lock]
    BY <1>1, <1>3 DEF Succeeds, Daemons, Loop
  <1>4. CASE pc[lock] \in Daemons /\ stop[lock]
    <2>1. pc[lock] \in Loop
      BY <1>1, <1>4 DEF StageOK, Daemons
    <2>2. PICK q \in Proc : pc[q] = "wait"
      BY <1>1, <1>4, <2>1 DEF StoppedIsAwaited
    <2>3. kind[q] \in {"restart", "flush"}
      BY <2>2, Commands DEF Stopping
    <2> QED
      BY <2>2, <2>3 DEF Succeeds, Stopping
  <1> QED
    BY <1>1, <1>2, <1>3, <1>4 DEF Holding

\* A stop() that returns goes on to launch a daemon, unless it is a flush that failed.
LEMMA ReturnedSucceeds ==
    ASSUME TypeOK, NEW p \in Proc, NEW ok \in BOOLEAN, Returned(p, ok), UNCHANGED kind,
           kind[p] = "restart" \/ (kind[p] = "flush" /\ ok)
    PROVE  Succeeds(p)'
  BY ReturnedGoesTo DEF Succeeds

\* Every step keeps one because of whom there will be a daemon, or leaves another.
LEMMA SuccessionNext ==
    ASSUME IInv, [Next]_vars, ~stopped', TypeOK'
    PROVE  SomeoneSucceeds'
  <1> USE DEF memory, disk, history
  <1>0. /\ TypeOK /\ LockOK /\ TargetOK /\ StageOK
        /\ ~stopped => NobodyStops /\ StoppedIsAwaited /\ SomeoneSucceeds
    BY DEF IInv, SuccessionOK
  <1>1. ASSUME NEW p \in Proc, ReadHolder(p) PROVE SomeoneSucceeds'
    <2>1. ~stopped /\ pc[p] = "read" /\ UNCHANGED <<kind, stop, faults>>
      BY <1>1 DEF ReadHolder
    <2>2. Returned(p, FALSE) \/ pc' = [pc EXCEPT ![p] = "signal"]
      BY <1>1 DEF ReadHolder
    <2>3. \A q \in Proc \ {p} : pc'[q] = pc[q]
      BY <1>0, <2>2, ReturnedGoesTo, ZenonT(40) DEF TypeOK
    <2>4. Succeeds(p) => kind[p] = "restart"
      BY <2>1 DEF Succeeds, Daemons, Loop
    <2>5. kind[p] = "restart" => Succeeds(p)'
      <3>1. CASE Returned(p, FALSE)
        BY <1>0, <2>1, <3>1, ReturnedSucceeds
      <3>2. CASE pc' = [pc EXCEPT ![p] = "signal"]
        BY <1>0, <2>1, <3>2 DEF Succeeds, TypeOK, Stopping
      <3> QED
        BY <2>2, <3>1, <3>2
    <2> QED
      BY <1>0, <2>1, <2>3, <2>4, <2>5, StillSucceeds, SameRecords
  <1>2. ASSUME NEW p \in Proc, Signal(p) PROVE SomeoneSucceeds'
    <2> DEFINE t == target[p]
    <2>1. /\ t \in Proc /\ t # p /\ pc[p] = "signal"
          /\ UNCHANGED <<kind, target, opened, disk, history>>
      BY <1>0, <1>2, SignalReaches
    <2>2. kind[p] \in {"restart", "flush"} /\ ~stopped
      BY <1>0, <2>1, Commands DEF Stopping
    <2>3. CASE pc'[p] = "wait"
      BY <2>1, <2>2, <2>3 DEF SomeoneSucceeds, Succeeds, Stopping
    <2>4. CASE Returned(p, FALSE) /\ UNCHANGED <<stop, lock>>
      <3>1. \A q \in Proc \ {p} : pc'[q] = pc[q]
        BY <1>0, <2>4, ReturnedGoesTo DEF TypeOK
      <3>2. Succeeds(p) => kind[p] = "restart"
        BY <2>1 DEF Succeeds, Daemons, Loop
      <3>3. kind[p] = "restart" => Succeeds(p)'
        BY <1>0, <2>1, <2>4, ReturnedSucceeds
      <3> QED
        BY <1>0, <2>1, <2>2, <2>4, <3>1, <3>2, <3>3, StillSucceeds, SameRecords
    <2>5. pc'[p] = "wait" \/ (Returned(p, FALSE) /\ UNCHANGED <<stop, lock>>)
      <3>1. \/ pc' = [pc EXCEPT ![p] = "wait", ![t] = "gone"]
            \/ pc' = [pc EXCEPT ![p] = "wait"]
            \/ Returned(p, FALSE) /\ UNCHANGED <<stop, lock>>
        BY <1>0, <1>2, SignalReaches
      <3> QED
        BY <1>0, <2>1, <3>1 DEF TypeOK
    <2> QED
      BY <2>3, <2>4, <2>5
  <1>3. ASSUME NEW p \in Proc, Probe(p) \/ ReleaseProbe(p) PROVE SomeoneSucceeds'
    <2>1. /\ pc[p] \in {"wait", "probed"} /\ ~stopped /\ UNCHANGED <<kind, stop, faults>>
          /\ pc' = [pc EXCEPT ![p] = "probed"] \/ Returned(p, TRUE)
      <3>1. CASE Probe(p)
        BY <3>1 DEF Probe
      <3>2. CASE ReleaseProbe(p)
        BY <3>2 DEF ReleaseProbe
      <3> QED
        BY <1>3, <3>1, <3>2
    <2>2. kind[p] \in {"restart", "flush"}
      BY <1>0, <2>1, Commands DEF Stopping
    <2>3. CASE pc' = [pc EXCEPT ![p] = "probed"]
      BY <1>0, <2>1, <2>2, <2>3 DEF SomeoneSucceeds, Succeeds, Stopping, TypeOK
    <2>4. CASE Returned(p, TRUE)
      <3>1. Succeeds(p)'
        BY <1>0, <2>1, <2>2, <2>4, ReturnedSucceeds
      <3> QED
        BY <3>1 DEF SomeoneSucceeds
    <2> QED
      BY <2>1, <2>3, <2>4
  <1>4. ASSUME NEW p \in Proc, GiveUp(p) PROVE SomeoneSucceeds'
    <2>1. /\ lock \in Proc /\ lock # p /\ pc[lock] = "loop" /\ ~stop[lock]
          /\ Returned(p, FALSE) /\ UNCHANGED <<kind, stop>>
      BY <1>0, <1>4 DEF GiveUp, TypeOK
    <2>2. pc'[lock] = "loop"
      BY <1>0, <2>1, ReturnedGoesTo DEF TypeOK
    <2>3. Succeeds(lock)'
      BY <1>4, <2>1, <2>2 DEF Succeeds, Daemons, Loop, GiveUp
    <2>4. PICK h \in Proc : h = lock
      BY <2>1
    <2>5. Succeeds(h)'
      BY <1>4, <2>1, <2>2, <2>4 DEF Succeeds, Daemons, Loop, GiveUp
    <2> QED
      BY <2>5 DEF SomeoneSucceeds
  <1>5. ASSUME NEW p \in Proc, Spawn(p) PROVE SomeoneSucceeds'
    <2>1. PICK q \in Idle : pc' = [pc EXCEPT ![p] = "ended", ![q] = "acquire"]
      BY <1>5 DEF Spawn
    <2>2. q \in Proc /\ pc'[q] = "acquire"
      BY <1>0, <2>1 DEF Idle, TypeOK
    <2> QED
      BY <2>2 DEF SomeoneSucceeds, Succeeds
  <1>6. ASSUME NEW p \in Proc, Acquire(p) PROVE SomeoneSucceeds'
    <2>1. pc[p] = "acquire" /\ ~stopped /\ UNCHANGED <<kind, stop, faults>>
      BY <1>6 DEF Acquire
    <2>2. CASE lock = NoProc
      <3>1. pc'[p] = "claimed" /\ ~stop[p]
        BY <1>0, <1>6, <2>2 DEF Acquire, TypeOK, StageOK, Loop
      <3> QED
        BY <2>1, <3>1 DEF SomeoneSucceeds, Succeeds, Daemons
    <2>3. CASE lock # NoProc
      <3>1. PICK q \in Proc : Succeeds(q) /\ pc[q] # "acquire"
        BY <1>0, <2>1, <2>3, SucceedsElse
      <3>2. pc'[q] = pc[q]
        BY <1>0, <1>6, <2>1, <2>3, <3>1 DEF Acquire, TypeOK
      <3> QED
        BY <2>1, <3>1, <3>2 DEF SomeoneSucceeds, Succeeds
    <2> QED
      BY <2>2, <2>3
  <1>7. ASSUME NEW p \in Proc,
               \/ WritePid(p) \/ InstallHandlers(p) \/ Recover(p) \/ ClearRecovered(p)
               \/ OpenSegment(p) \/ Leave(p) \/ ClearMirror(p) \/ Release(p) \/ Reap(p)
        PROVE  SomeoneSucceeds'
    <2>1. /\ ~stopped /\ UNCHANGED <<kind, stop>> /\ pc[p] \in Daemons \cup {"zombie"}
          /\ \A q \in Proc \ {p} : pc'[q] = pc[q]
          /\ pc'[p] \in Daemons \/ stop[p] \/ pc[p] = "zombie"
      BY <1>0, <1>7
      DEF WritePid, InstallHandlers, Recover, ClearRecovered, OpenSegment, Leave, ClearMirror,
          Release, Reap, TypeOK, StageOK, Daemons, Loop
    <2>2. Killed' = Killed
      <3>1. CASE UNCHANGED faults
        BY <3>1, SameRecords
      <3>2. CASE Recover(p) /\ mirror # NoProc
        BY <1>0, <3>2, AppendedWrites DEF Recover, TypeOK
      <3>3. CASE Leave(p) /\ opened[p]
        BY <1>0, <3>3, AppendedWrites DEF Leave, TypeOK
      <3> QED
        BY <1>7, <3>1, <3>2, <3>3
        DEF WritePid, InstallHandlers, Recover, ClearRecovered, OpenSegment, Leave,
            ClearMirror, Release, Reap
    <2>3. Succeeds(p) => Succeeds(p)'
      BY <2>1 DEF Succeeds, Daemons, Loop, Stopping
    <2>4. pc[p] # "idle"
      BY <2>1 DEF Daemons, Loop
    <2> QED
      BY <1>0, <2>1, <2>2, <2>3, <2>4, StillSucceeds
  <1>8. ASSUME NEW p \in Proc, Kill(p) \/ GiveUpOnSlow(p) PROVE SomeoneSucceeds'
    <2>1. CASE Kill(p)
      BY <2>1, KillIsRecorded DEF SomeoneSucceeds
    <2>2. CASE GiveUpOnSlow(p)
      BY <2>2 DEF GiveUpOnSlow
    <2> QED
      BY <1>8, <2>1, <2>2
  <1>9. ASSUME NEW p \in Proc, NEW k \in Kinds, Launch(p, k) PROVE SomeoneSucceeds'
    <2>1. /\ ~stopped /\ k # "stop" /\ pc[p] = "idle" /\ UNCHANGED <<stop, faults>>
          /\ pc' = [pc EXCEPT ![p] = IF k = "daemon" THEN "acquire" ELSE "read"]
          /\ kind' = [kind EXCEPT ![p] = k]
      BY <1>9 DEF Launch
    <2>2. CASE k \in {"daemon", "restart"}
      BY <1>0, <2>1, <2>2 DEF SomeoneSucceeds, Succeeds, TypeOK, Stopping
    <2>3. CASE k = "flush"
      <3> SUFFICES ASSUME Killed = {}, NEW x \in Proc, pc'[x] # "idle", kind'[x] # "flush"
                   PROVE  \E q \in Proc : Succeeds(q)'
        BY <2>1, SameRecords DEF SomeoneSucceeds
      <3>1. x # p /\ pc[x] # "idle" /\ kind[x] # "flush"
        BY <1>0, <2>1, <2>3 DEF TypeOK
      <3>2. PICK w \in Proc : Succeeds(w)
        BY <1>0, <2>1, <3>1 DEF SomeoneSucceeds
      <3>3. w # p
        BY <2>1, <3>2 DEF Succeeds, Daemons, Loop, Stopping
      <3> QED
        BY <1>0, <2>1, <3>2, <3>3 DEF Succeeds, TypeOK
    <2> QED
      BY <2>1, <2>2, <2>3 DEF Kinds
  <1>10. CASE OtherAppends \/ UNCHANGED vars
    <2>1. Killed' = Killed /\ UNCHANGED <<pc, kind, stop, stopped>>
      BY <1>0, <1>10, AppendedWrites, SameRecords DEF OtherAppends, vars, TypeOK
    <2> QED
      BY <1>0, <2>1 DEF SomeoneSucceeds, Succeeds
  <1> QED
    BY <1>1, <1>2, <1>3, <1>4, <1>5, <1>6, <1>7, <1>8, <1>9, <1>10 DEF Next, Step

\* The invariant is inductive.
LEMMA NextInv ==
    ASSUME IInv, [Next]_vars
    PROVE  IInv'
  <1>1. TypeOK' /\ LockOK' /\ TargetOK' /\ StageOK' /\ MirrorOK'
    BY TypeNext, LockNext, TargetNext, StageNext, MirrorNext DEF IInv
  <1>2. ~stopped' => NobodyStops' /\ StoppedIsAwaited'
    BY NobodyStopsNext, AwaitedNext DEF IInv, SuccessionOK
  <1>3. ~stopped' => SomeoneSucceeds'
    BY <1>1, SuccessionNext
  <1> QED
    BY <1>1, <1>2, <1>3 DEF IInv, SuccessionOK

-----------------------------------------------------------------------------

\* The inductive invariant holds of every run of the commands.
THEOREM Invariance == Spec => []IInv
  <1>1. IInv /\ [Next]_vars => IInv'
    BY NextInv
  <1> QED
    BY <1>1, InitInv, PTL DEF Spec

\* Of the processes of a session, one at most is at a place that needs the lock: two
\* daemons never write current.json next to each other (main.py:165-172).
THEOREM OneHolderCorrect ==
    Spec => [](\A p, q \in Proc : pc[p] \in Holding /\ pc[q] \in Holding => p = q)
  <1>1. IInv => \A p, q \in Proc : pc[p] \in Holding /\ pc[q] \in Holding => p = q
    BY DEF IInv, LockOK
  <1> QED
    BY <1>1, Invariance, PTL

\* When stop, flush or restart has seen the lock free, the daemon it signalled has
\* written its entry and left nothing in current.json, unless it was killed
\* (main.py:285-287).
THEOREM FlushedCorrect == Spec => []FlushedMeansWritten
  <1>1. IInv => FlushedMeansWritten
    <2> SUFFICES ASSUME IInv, NEW p \in Proc, pc[p] = "probed"
                 PROVE  /\ pc[target[p]] \in Gone
                        /\ opened[target[p]] => InJournal(target[p]) \/ mirror = target[p]
                        /\ target[p] \notin Killed => mirror # target[p]
      BY DEF FlushedMeansWritten
    <2> DEFINE t == target[p]
    <2>1. t \in Proc /\ pc[t] \in Named
      BY DEF IInv, TypeOK, TargetOK
    <2>2. pc[t] \notin Holding
      <3>1. lock = p
        BY DEF IInv, LockOK, Holding
      <3>2. pc[t] \in Holding => t = p
        BY <2>1, <3>1 DEF IInv, LockOK
      <3> QED
        BY <2>1, <3>2 DEF Named, Loop
    <2>3. pc[t] \in {"zombie", "gone"}
      BY <2>1, <2>2 DEF Named, Holding, Daemons
    <2>4. opened[t] => t \in Written \/ mirror = t
      BY <2>1 DEF IInv, MirrorOK
    <2>5. mirror = t => t \in Killed
      BY <2>1, <2>3 DEF IInv, MirrorOK
    <2> QED
      BY <2>3, <2>4, <2>5, WrittenIsInJournal DEF Gone
  <1> QED
    BY <1>1, Invariance, PTL

\* Once everything is at rest, a daemon that a hook, a restart or a flush was to
\* leave behind runs, unless somebody asked for none, one was killed, or one needed
\* more than 10 s to stop (main.py:309-313).
THEOREM SomeoneRunsCorrect == Spec => []SomeoneRuns
  <1>1. IInv => SomeoneRuns
    <2> SUFFICES ASSUME IInv, AtRest, ~stopped, Killed = {},
                        \E p \in Proc : pc[p] # "idle" /\ kind[p] # "flush"
                 PROVE  \E p \in Proc : pc[p] = "loop"
      BY DEF SomeoneRuns
    <2>1. PICK p \in Proc : Succeeds(p)
      BY DEF IInv, SuccessionOK, SomeoneSucceeds
    <2>2. pc[p] \in {"idle"} \cup Gone \/ pc[p] = "loop"
      BY DEF AtRest
    <2>3. pc[p] = "loop"
      BY <2>1, <2>2 DEF Succeeds, Daemons, Loop, Stopping, Gone
    <2> QED
      BY <2>3
  <1> QED
    BY <1>1, Invariance, PTL

-----------------------------------------------------------------------------
(* The journal as text.                                                    *)

\* The natural numbers are the only set of naturals closed under successor.
LEMMA NatSetInduction ==
    ASSUME NEW T, 0 \in T, \A n \in Nat : n \in T => n + 1 \in T
    PROVE  Nat \subseteq T
  <1> DEFINE R == OpToRel(<, Nat)
             B == {n \in Nat : n \notin T}
  <1>1. IsWellFoundedOn(R, Nat)
    BY NatLessThanWellFounded
  <1>2. SUFFICES ASSUME B # {}
                 PROVE  FALSE
    OBVIOUS
  <1>3. PICK x \in B : \A y \in B : ~(<<y, x>> \in R)
    <2> HIDE DEF R
    <2> QED
      BY <1>1, <1>2, WFMin
  <1>4. x - 1 \in Nat /\ x # 0
    OBVIOUS
  <1>5. <<x - 1, x>> \in R
    BY <1>4 DEF OpToRel
  <1>6. x - 1 \notin B
    BY <1>3, <1>5
  <1> QED
    BY <1>4, <1>6

\* The characters that the lines are made of.
Chars == {"{", "}", Newline} \cup Proc \cup {Other}

\* What a write adds to the text.
Piece(append) == SubSeq(Line(append.of), 1, append.length)

\* Four members of a set are a sequence over it of length 4.
LEMMA FourIs ==
    ASSUME NEW E, NEW a \in E, NEW b \in E, NEW c \in E, NEW d \in E
    PROVE  <<a, b, c, d>> \in Seq(E) /\ Len(<<a, b, c, d>>) = 4
  OBVIOUS

\* What a write adds is a beginning of a line, which is four characters long.
LEMMA PieceIs ==
    ASSUME NEW a \in WriteRecord
    PROVE  /\ Piece(a) \in Seq(Chars) /\ Len(Piece(a)) = a.length /\ a.length \in 0..4
           /\ \A m \in 1..a.length : Piece(a)[m] = Line(a.of)[m]
           /\ Whole(a) <=> a.length = 4
           /\ Line(a.of)[1] = "{" /\ Line(a.of)[2] = a.of /\ Line(a.of)[3] = "}"
           /\ Line(a.of)[4] = Newline
  <1>1. a.of \in Proc \cup {Other} /\ a.length \in 0..4
    BY DEF WriteRecord
  <1>2. Line(a.of) \in Seq(Chars) /\ Len(Line(a.of)) = 4
    <2>1. "{" \in Chars /\ a.of \in Chars /\ "}" \in Chars /\ Newline \in Chars
      BY <1>1 DEF Chars
    <2>2. <<"{", a.of, "}", Newline>> \in Seq(Chars) /\ Len(<<"{", a.of, "}", Newline>>) = 4
      BY <2>1, FourIs
    <2> QED
      BY <2>2 DEF Line
  <1>3. /\ Line(a.of)[1] = "{" /\ Line(a.of)[2] = a.of /\ Line(a.of)[3] = "}"
        /\ Line(a.of)[4] = Newline
    BY DEF Line
  <1>4. /\ Piece(a) \in Seq(Chars) /\ Len(Piece(a)) = a.length
        /\ \A m \in 1..a.length : Piece(a)[m] = Line(a.of)[m]
    BY <1>1, <1>2 DEF Piece
  <1> QED
    BY <1>1, <1>2, <1>3, <1>4 DEF Whole

\* What FlattenSeq goes through: one piece after the other.
IsFlat(f, k, s) == f = [i \in 1..k |-> IF i = 1 THEN s[i] ELSE f[i - 1] \o s[i]]

\* The recursive function by which FlattenSeq is defined exists.
LEMMA FlatExists ==
    ASSUME NEW s
    PROVE  \A k \in Nat : \E f : IsFlat(f, k, s)
  <1> DEFINE T == {k \in Nat : \E f : IsFlat(f, k, s)}
  <1>1. 0 \in T
    <2> DEFINE f == [i \in 1..0 |-> <<>>]
    <2>1. \A i \in 1..0 : FALSE
      OBVIOUS
    <2>2. IsFlat(f, 0, s)
      BY <2>1 DEF IsFlat
    <2> QED
      BY <2>2
  <1>2. ASSUME NEW k \in Nat, k \in T
        PROVE  k + 1 \in T
    <2>1. PICK g : IsFlat(g, k, s)
      BY <1>2
    <2> DEFINE f == [i \in 1..(k + 1) |-> IF i = 1 THEN s[i] ELSE g[i - 1] \o s[i]]
    <2>2. \A i \in 1..k : f[i] = g[i]
      <3> SUFFICES ASSUME NEW i \in 1..k
                   PROVE  f[i] = g[i]
        OBVIOUS
      <3>1. i \in 1..(k + 1)
        OBVIOUS
      <3>2. g[i] = IF i = 1 THEN s[i] ELSE g[i - 1] \o s[i]
        BY <2>1 DEF IsFlat
      <3> QED
        BY <3>1, <3>2
    <2>3. \A i \in 1..(k + 1) : i # 1 => i - 1 \in 1..k
      OBVIOUS
    <2>4. \A i \in 1..(k + 1) : i # 1 => f[i - 1] = g[i - 1]
      <3> HIDE DEF f
      <3> QED
        BY <2>2, <2>3
    <2>5. IsFlat(f, k + 1, s)
      <3> DEFINE h == f
      <3>1. f = [i \in 1..(k + 1) |-> IF i = 1 THEN s[i] ELSE h[i - 1] \o s[i]]
        <4> HIDE DEF h
        <4>1. \A i \in 1..(k + 1) : i # 1 => h[i - 1] = g[i - 1]
          BY <2>4 DEF h
        <4> QED
          BY <4>1
      <3> QED
        BY <3>1 DEF IsFlat
    <2> QED
      BY <2>5
  <1>3. Nat \subseteq T
    <2> HIDE DEF T
    <2> QED
      BY <1>1, <1>2, NatSetInduction
  <1> QED
    BY <1>3

\* The text is built up from nothing, write by write.
LEMMA TextSteps ==
    ASSUME NEW A \in Seq(WriteRecord)
    PROVE  \E acc : /\ acc[0] = <<>>
                    /\ \A k \in 0..(Len(A) - 1) : acc[k + 1] = acc[k] \o Piece(A[k + 1])
                    /\ Text(A) = acc[Len(A)]
  <1> DEFINE n == Len(A)
             s == [i \in DOMAIN A |-> SubSeq(Line(A[i].of), 1, A[i].length)]
             f == CHOOSE f : f = [i \in 1..Len(s) |-> IF i = 1 THEN s[i] ELSE f[i - 1] \o s[i]]
             acc == [k \in 0..n |-> IF k = 0 THEN <<>> ELSE f[k]]
  <1>1. n \in Nat /\ DOMAIN A = 1..n /\ \A i \in 1..n : A[i] \in WriteRecord
    OBVIOUS
  <1>2. Len(s) = n /\ \A i \in 1..n : s[i] = Piece(A[i]) /\ s[i] \in Seq(Chars)
    <2>1. s = [i \in 1..n |-> Piece(A[i])]
      BY <1>1 DEF Piece
    <2> HIDE DEF s, n
    <2>2. Len(s) = n /\ \A i \in 1..n : s[i] = Piece(A[i])
      BY <1>1, <2>1
    <2> QED
      BY <1>1, <2>2, PieceIs
  <1>3. IsFlat(f, Len(s), s)
    <2>1. \E g : IsFlat(g, Len(s), s)
      <3> HIDE DEF s, n
      <3>1. Len(s) \in Nat
        BY <1>1, <1>2
      <3> QED
        BY <3>1, FlatExists
    <2> HIDE DEF s
    <2> QED
      BY <2>1 DEF IsFlat
  <1>4. n # 0 => Text(A) = f[n]
    <2> SUFFICES ASSUME n # 0
                 PROVE  Text(A) = f[n]
      OBVIOUS
    <2>1. Len(s) # 0 /\ Text(A) = f[Len(s)]
      <3>1. Len(s) # 0
        BY <1>2
      <3>2. Text(A) = FlattenSeq(s)
        BY DEF Text
      <3> HIDE DEF s
      <3>3. FlattenSeq(s) = f[Len(s)]
        BY <3>1 DEF FlattenSeq
      <3> QED
        BY <3>1, <3>2, <3>3
    <2> QED
      BY <1>2, <2>1
  <1>5. n = 0 => Text(A) = <<>>
    <2> SUFFICES ASSUME n = 0
                 PROVE  Text(A) = <<>>
      OBVIOUS
    <2>1. Text(A) = s
      BY <1>2 DEF Text, FlattenSeq
    <2>2. s = <<>>
      BY <1>1
    <2> QED
      BY <2>1, <2>2
  <1>6. \A i \in 1..n : f[i] = IF i = 1 THEN Piece(A[i]) ELSE f[i - 1] \o Piece(A[i])
    <2> HIDE DEF f, s
    <2> QED
      BY <1>2, <1>3 DEF IsFlat
  <1> HIDE DEF f, s
  <1>7. acc[0] = <<>> /\ Text(A) = acc[n]
    BY <1>1, <1>4, <1>5
  <1>8. ASSUME NEW k \in 0..(n - 1)
        PROVE  acc[k + 1] = acc[k] \o Piece(A[k + 1])
    <2>1. k + 1 \in 1..n /\ k \in 0..n /\ k + 1 \in 0..n /\ k + 1 # 0 /\ (k + 1) - 1 = k
      BY <1>1
    <2>2. CASE k = 0
      <3>1. acc[1] = Piece(A[1]) /\ acc[0] = <<>>
        BY <1>1, <1>6, <2>1, <2>2
      <3>2. Piece(A[1]) \in Seq(Chars)
        <4>1. A[1] \in WriteRecord
          BY <1>1, <2>1, <2>2
        <4> QED
          BY <4>1, PieceIs
      <3> HIDE DEF acc
      <3>3. <<>> \o Piece(A[1]) = Piece(A[1])
        BY <3>2
      <3> QED
        BY <2>2, <3>1, <3>3
    <2>3. CASE k # 0
      <3>1. acc[k + 1] = f[k + 1] /\ acc[k] = f[k]
        BY <2>1, <2>3
      <3>2. f[k + 1] = f[(k + 1) - 1] \o Piece(A[k + 1])
        <4>1. k + 1 # 1
          BY <2>3
        <4> QED
          BY <1>6, <2>1, <4>1
      <3> QED
        BY <2>1, <3>1, <3>2
    <2> QED
      BY <2>2, <2>3
  <1> HIDE DEF acc
  <1> QED
    BY <1>7, <1>8

\* The text t of the writes A: write i is from off[i - 1] + 1 to off[i].
Layout(t, off, A) ==
    /\ t \in Seq(Chars)
    /\ off[0] = 0 /\ off[Len(A)] = Len(t)
    /\ \A i \in 0..Len(A) : off[i] \in Nat
    /\ \A i \in 1..Len(A) : off[i] = off[i - 1] + A[i].length /\ off[i] <= Len(t)
    /\ \A i \in 1..Len(A) : \A m \in 1..A[i].length :
           t[off[i - 1] + m] = Line(A[i].of)[m]

\* The journal is one write after the other.
LEMMA TextLayout ==
    ASSUME NEW A \in Seq(WriteRecord)
    PROVE  \E off : Layout(Text(A), off, A)
  <1>1. PICK acc : /\ acc[0] = <<>>
                   /\ \A k \in 0..(Len(A) - 1) : acc[k + 1] = acc[k] \o Piece(A[k + 1])
                   /\ Text(A) = acc[Len(A)]
    BY TextSteps
  <1>2. Len(A) \in Nat /\ \A i \in 1..Len(A) : A[i] \in WriteRecord
    OBVIOUS
  <1> DEFINE n == Len(A)
             off == [k \in 0..n |-> Len(acc[k])]
             Good(k) ==
                 /\ acc[k] \in Seq(Chars)
                 /\ \A i \in 1..k :
                        /\ Len(acc[i - 1]) \in Nat /\ Len(acc[i]) \in Nat
                        /\ Len(acc[i]) = Len(acc[i - 1]) + A[i].length
                        /\ Len(acc[i]) <= Len(acc[k])
                        /\ \A m \in 1..A[i].length :
                               acc[k][Len(acc[i - 1]) + m] = Line(A[i].of)[m]
             T == {k \in Nat : k <= n => Good(k)}
  <1>3. 0 \in T
    <2>1. \A i \in 1..0 : FALSE
      OBVIOUS
    <2>2. acc[0] \in Seq(Chars)
      BY <1>1
    <2> QED
      BY <2>1, <2>2
  <1>4. ASSUME NEW k \in Nat, k \in T
        PROVE  k + 1 \in T
    <2> SUFFICES ASSUME k + 1 <= n
                 PROVE  Good(k + 1)
      OBVIOUS
    <2>1. Good(k) /\ k + 1 \in 1..n /\ k \in 0..(n - 1)
      BY <1>2, <1>4
    <2> DEFINE a == A[k + 1]
               x == acc[k]
               y == acc[k + 1]
    <2>2. /\ x \in Seq(Chars) /\ y = x \o Piece(a)
          /\ a \in WriteRecord
      BY <1>1, <1>2, <2>1
    <2>3. /\ Piece(a) \in Seq(Chars) /\ Len(Piece(a)) = a.length /\ a.length \in 0..4
          /\ \A m \in 1..a.length : Piece(a)[m] = Line(a.of)[m]
      BY <2>2, PieceIs
    <2>4. /\ y \in Seq(Chars) /\ Len(y) = Len(x) + a.length
          /\ Len(x) \in Nat /\ Len(y) \in Nat
          /\ \A j \in 1..Len(x) : y[j] = x[j]
          /\ \A m \in 1..a.length : y[Len(x) + m] = Line(a.of)[m]
      <3> HIDE DEF x, y, a
      <3>1. y \in Seq(Chars) /\ Len(y) = Len(x) + a.length /\ Len(x) \in Nat /\ Len(y) \in Nat
        BY <2>2, <2>3
      <3>2. \A j \in 1..Len(x) : y[j] = x[j]
        BY <2>2, <2>3
      <3>3. \A m \in 1..a.length : y[Len(x) + m] = Piece(a)[m]
        BY <2>2, <2>3
      <3> QED
        BY <2>3, <3>1, <3>2, <3>3
    <2>5. ASSUME NEW i \in 1..(k + 1)
          PROVE  /\ Len(acc[i - 1]) \in Nat /\ Len(acc[i]) \in Nat
                 /\ Len(acc[i]) = Len(acc[i - 1]) + A[i].length
                 /\ Len(acc[i]) <= Len(acc[k + 1])
                 /\ \A m \in 1..A[i].length :
                        acc[k + 1][Len(acc[i - 1]) + m] = Line(A[i].of)[m]
      <3>1. CASE i = k + 1
        <4>1. acc[i - 1] = x /\ acc[i] = y /\ A[i] = a /\ acc[k + 1] = y
          BY <3>1
        <4> HIDE DEF x, y, a
        <4> QED
          BY <2>4, <4>1
      <3>2. CASE i # k + 1
        <4>1. i \in 1..k
          BY <3>2
        <4>2. /\ Len(acc[i - 1]) \in Nat /\ Len(acc[i]) \in Nat
              /\ Len(acc[i]) = Len(acc[i - 1]) + A[i].length
              /\ Len(acc[i]) <= Len(x)
              /\ \A m \in 1..A[i].length : x[Len(acc[i - 1]) + m] = Line(A[i].of)[m]
          BY <2>1, <4>1
        <4>3. A[i] \in WriteRecord
          BY <1>2, <2>1, <4>1
        <4>4. A[i].length \in 0..4
          BY <4>3 DEF WriteRecord
        <4>5. acc[k + 1] = y
          OBVIOUS
        <4> HIDE DEF x, y, a
        <4>6. Len(acc[i]) <= Len(y)
          BY <2>3, <2>4, <4>2
        <4>7. ASSUME NEW m \in 1..A[i].length
              PROVE  y[Len(acc[i - 1]) + m] = Line(A[i].of)[m]
          <5>1. Len(acc[i - 1]) + m \in 1..Len(x)
            <6>1. \A u, v, w \in Nat : \A z \in 1..v : u + v <= w => u + z \in 1..w
            OBVIOUS
          <6>2. /\ Len(acc[i - 1]) \in Nat /\ Len(acc[i - 1]) + A[i].length <= Len(x)
                /\ m \in 1..A[i].length
            BY <4>2
          <6>3. Len(x) \in Nat /\ A[i].length \in Nat
            BY <2>4, <4>4
          <6> QED
            BY ONLY <6>1, <6>2, <6>3
        <5>2. y[Len(acc[i - 1]) + m] = x[Len(acc[i - 1]) + m]
            BY <2>4, <5>1
          <5> QED
            BY <4>2, <5>2
        <4> QED
          BY <4>2, <4>5, <4>6, <4>7
      <3> QED
        BY <3>1, <3>2
    <2> QED
      BY <2>4, <2>5
  <1>5. n \in T
    <2>1. Nat \subseteq T
      <3> HIDE DEF T
      <3> QED
        BY <1>3, <1>4, NatSetInduction
    <2> HIDE DEF T
    <2> QED
      BY <1>2, <2>1
  <1>6. Good(n)
    BY <1>2, <1>5
  <1>7. \A i \in 0..n : off[i] = Len(acc[i]) /\ off[i] \in Nat
    <2> SUFFICES ASSUME NEW i \in 0..n
                 PROVE  Len(acc[i]) \in Nat
      OBVIOUS
    <2>1. CASE i = 0
      BY <1>1, <2>1
    <2>2. CASE i # 0
      BY <1>2, <1>6, <2>2
    <2> QED
      BY <2>1, <2>2
  <1>8. \A i \in 1..n : i \in 0..n /\ i - 1 \in 0..n
    BY <1>2
  <1>9. 0 \in 0..n /\ n \in 0..n
    BY <1>2
  <1>10. \A i \in 1..n :
             /\ off[i] = off[i - 1] + A[i].length /\ off[i] <= Len(acc[n])
             /\ \A m \in 1..A[i].length : acc[n][off[i - 1] + m] = Line(A[i].of)[m]
    <2> SUFFICES ASSUME NEW i \in 1..n
                 PROVE  /\ off[i] = off[i - 1] + A[i].length /\ off[i] <= Len(acc[n])
                        /\ \A m \in 1..A[i].length :
                               acc[n][off[i - 1] + m] = Line(A[i].of)[m]
      OBVIOUS
    <2>1. off[i] = Len(acc[i]) /\ off[i - 1] = Len(acc[i - 1])
      BY <1>7, <1>8
    <2> HIDE DEF off
    <2> QED
      BY <1>6, <2>1
  <1>11. off[0] = 0 /\ off[n] = Len(acc[n])
    <2>1. off[0] = Len(acc[0])
      BY <1>9
    <2>2. Len(acc[0]) = 0
      BY <1>1
    <2> QED
      BY <1>9, <2>1, <2>2
  <1>12. Text(A) = acc[n] /\ acc[n] \in Seq(Chars)
    BY <1>1, <1>6
  <1> HIDE DEF off
  <1> QED
    BY <1>7, <1>10, <1>11, <1>12 DEF Layout

\* No character of an entry, and neither brace, is a newline.
LEMMA NewlineEnds ==
    ASSUME NEW a \in WriteRecord
    PROVE  /\ Line(a.of)[1] # Newline /\ Line(a.of)[2] # Newline
           /\ Line(a.of)[3] # Newline
  <1>1. a.of # Newline
    BY EntryAssumption DEF WriteRecord
  <1>2. "{" # Newline /\ "}" # Newline
    BY DEF Newline
  <1> QED
    BY <1>1, <1>2, PieceIs

\* A whole write at the beginning of the file, or after a whole write, is a line of
\* its own, and parses.
LEMMA WholeAfterWholeIsGood ==
    ASSUME NEW A \in Seq(WriteRecord), NEW t, NEW off, Layout(t, off, A),
           NEW i \in 1..Len(A), Whole(A[i]), i = 1 \/ Whole(A[i - 1])
    PROVE  off[i - 1] + 1 \in GoodLines(t)
  <1> DEFINE b == off[i - 1]
  <1>1. A[i] \in WriteRecord /\ Len(A) \in Nat /\ i \in Nat
    OBVIOUS
  <1>2. A[i].length = 4
    BY <1>1, PieceIs
  <1>3. /\ b \in Nat /\ b + 4 <= Len(t) /\ Len(t) \in Nat
        /\ \A m \in 1..4 : t[b + m] = Line(A[i].of)[m]
    <2>1. i - 1 \in 0..Len(A)
      BY <1>1
    <2>2. off[i] = b + 4 /\ off[i] <= Len(t) /\ b \in Nat
      BY <1>2, <2>1 DEF Layout
    <2>3. Len(t) \in Nat
      BY DEF Layout
    <2>4. \A m \in 1..4 : t[b + m] = Line(A[i].of)[m]
      BY <1>2 DEF Layout
    <2> QED
      BY <2>2, <2>3, <2>4
  <1>4. /\ t[b + 1] = "{" /\ t[b + 3] = "}" /\ t[b + 4] = Newline
        /\ t[b + 1] # Newline /\ t[b + 2] # Newline /\ t[b + 3] # Newline
    <2>1. /\ Line(A[i].of)[1] = "{" /\ Line(A[i].of)[3] = "}"
          /\ Line(A[i].of)[4] = Newline
      BY <1>1, PieceIs
    <2>2. /\ Line(A[i].of)[1] # Newline /\ Line(A[i].of)[2] # Newline
          /\ Line(A[i].of)[3] # Newline
      BY <1>1, NewlineEnds
    <2>3. 1 \in 1..4 /\ 2 \in 1..4 /\ 3 \in 1..4 /\ 4 \in 1..4
      OBVIOUS
    <2>4. /\ t[b + 1] = Line(A[i].of)[1] /\ t[b + 2] = Line(A[i].of)[2]
          /\ t[b + 3] = Line(A[i].of)[3] /\ t[b + 4] = Line(A[i].of)[4]
      <3> HIDE DEF b
      <3> QED
        BY <1>3, <2>3
    <2> HIDE DEF b
    <2> QED
      BY <2>1, <2>2, <2>4
  <1>5. DOMAIN t = 1..Len(t) /\ t \in Seq(Chars)
    BY DEF Layout
  <1>6. b + 1 \in LineStarts(t)
    <2>1. CASE i = 1
      <3>1. b = 0
        BY <2>1 DEF Layout
      <3> QED
        BY <3>1 DEF LineStarts
    <2>2. CASE i # 1
      <3>1. i - 1 \in 1..Len(A) /\ Whole(A[i - 1]) /\ i - 2 \in 0..Len(A)
            /\ (i - 1) - 1 = i - 2
        BY <1>1, <2>2
      <3>2. A[i - 1] \in WriteRecord
        BY <3>1
      <3>3. A[i - 1].length = 4
        BY <3>1, <3>2, PieceIs
      <3>4. off[i - 1] = off[i - 2] + 4 /\ off[i - 2] \in Nat
        BY <3>1, <3>3 DEF Layout
      <3>5. t[off[i - 2] + 4] = Line(A[i - 1].of)[4]
        <4>1. \A j \in 1..4 : t[off[(i - 1) - 1] + j] = Line(A[i - 1].of)[j]
          BY <3>1, <3>3 DEF Layout
        <4> QED
          BY <3>1, <4>1
      <3>6. t[b] = Newline
        BY <3>2, <3>4, <3>5, PieceIs
      <3>7. b \in DOMAIN t
        <4>1. b = off[i - 2] + 4
          BY <3>4
        <4> HIDE DEF b
        <4>2. b \in Nat /\ b >= 1
          BY <3>4, <4>1
        <4> QED
          BY <1>3, <1>5, <4>2
      <3> QED
        BY <3>6, <3>7 DEF LineStarts
    <2> QED
      BY <2>1, <2>2
  <1> HIDE DEF b
  <1>7. LineAt(t, b + 1) = SubSeq(t, b + 1, b + 3)
    <2> DEFINE ends == {j \in (b + 1)..Len(t) : t[j] = Newline} \cup {Len(t) + 1}
    <2>1. b + 4 \in ends
      <3>1. b + 4 \in (b + 1)..Len(t)
        BY <1>3
      <3> QED
        BY <1>4, <3>1
    <2>2. \A j \in ends : b + 4 <= j
      <3> SUFFICES ASSUME NEW j \in ends
                   PROVE  b + 4 <= j
        OBVIOUS
      <3>1. CASE j = Len(t) + 1
        BY <1>3, <3>1
      <3>2. CASE j \in (b + 1)..Len(t) /\ t[j] = Newline
        <4>1. j # b + 1 /\ j # b + 2 /\ j # b + 3
          BY <1>4, <3>2
        <4> QED
          BY <1>3, <3>2, <4>1
      <3> QED
        BY <3>1, <3>2
    <2>3. \A j \in ends : j \in Int
      BY <1>3
    <2>4. LineAt(t, b + 1) = SubSeq(t, b + 1, Min(ends) - 1)
      BY DEF LineAt
    <2> HIDE DEF ends
    <2>5. Min(ends) = b + 4
      <3>1. Min(ends) \in ends /\ \A y \in ends : Min(ends) <= y
        BY <2>1, <2>2 DEF Min
      <3> QED
        BY <1>3, <2>1, <2>2, <2>3, <3>1
    <2> QED
      BY <1>3, <2>4, <2>5
  <1>8. /\ Len(SubSeq(t, b + 1, b + 3)) = 3
        /\ SubSeq(t, b + 1, b + 3)[1] = t[b + 1]
        /\ SubSeq(t, b + 1, b + 3)[3] = t[b + 3]
    BY <1>3, <1>5
  <1>9. IsEntry(LineAt(t, b + 1))
    BY <1>4, <1>7, <1>8 DEF IsEntry
  <1>10. b + 1 \in GoodLines(t)
    BY <1>6, <1>9 DEF GoodLines
  <1> QED
    BY <1>10 DEF b

\* Later writes are further on in the text.
LEMMA LayoutGoesOn ==
    ASSUME NEW A \in Seq(WriteRecord), NEW t, NEW off, Layout(t, off, A)
    PROVE  \A k \in 0..Len(A) : \A i \in 0..k : off[i] <= off[k]
  <1> DEFINE n == Len(A)
             T == {k \in Nat : k <= n => \A i \in 0..k : off[i] <= off[k]}
  <1>1. n \in Nat /\ \A i \in 1..n : A[i] \in WriteRecord
    OBVIOUS
  <1>2. 0 \in T
    BY <1>1 DEF Layout
  <1>3. ASSUME NEW k \in Nat, k \in T
        PROVE  k + 1 \in T
    <2> SUFFICES ASSUME k + 1 <= n, NEW i \in 0..(k + 1)
                 PROVE  off[i] <= off[k + 1]
      OBVIOUS
    <2>1. k + 1 \in 1..n /\ k \in 0..n /\ k + 1 \in 0..n /\ i \in 0..n /\ (k + 1) - 1 = k
      BY <1>1
    <2>2. off[k + 1] = off[k] + A[k + 1].length
      BY <2>1 DEF Layout
    <2>3. A[k + 1].length \in 0..4
      BY <1>1, <2>1 DEF WriteRecord
    <2>4. off[k] \in Nat /\ off[k + 1] \in Nat /\ off[i] \in Nat
      BY <2>1 DEF Layout
    <2>5. CASE i = k + 1
      BY <2>4, <2>5
    <2>6. CASE i # k + 1
      <3>1. i \in 0..k
        BY <2>6
      <3>2. off[i] <= off[k]
        BY <1>1, <1>3, <2>1, <3>1
      <3> QED
        BY <2>2, <2>3, <2>4, <3>2
    <2> QED
      BY <2>5, <2>6
  <1>4. Nat \subseteq T
    <2> HIDE DEF T
    <2> QED
      BY <1>2, <1>3, NatSetInduction
  <1> SUFFICES ASSUME NEW k \in 0..n
               PROVE  \A i \in 0..k : off[i] <= off[k]
    OBVIOUS
  <1>5. k \in T
    <2>1. k \in Nat
      BY <1>1
    <2> HIDE DEF T
    <2> QED
      BY <1>4, <2>1
  <1> QED
    BY <1>1, <1>5

\* A journal loses, beside the writes that were cut short, at most the write that
\* comes after each of them.
LEMMA LossIsBounded ==
    ASSUME NEW A \in Seq(WriteRecord)
    PROVE  Cardinality({i \in DOMAIN A : Whole(A[i])}) - Cardinality(GoodLines(Text(A)))
               <= Cardinality({i \in DOMAIN A : ~Whole(A[i])})
  <1>1. PICK off : Layout(Text(A), off, A)
    BY TextLayout
  <1> DEFINE n == Len(A)
             t == Text(A)
             W == {i \in DOMAIN A : Whole(A[i])}
             S == {i \in DOMAIN A : ~Whole(A[i])}
             First == {i \in W : i = 1 \/ i - 1 \in W}
             After == {i \in W : i - 1 \in S}
             G == GoodLines(t)
  <1>2. n \in Nat /\ DOMAIN A = 1..n /\ \A i \in 1..n : A[i] \in WriteRecord
    OBVIOUS
  <1>3. /\ IsFiniteSet(W) /\ IsFiniteSet(S) /\ IsFiniteSet(First) /\ IsFiniteSet(After)
        /\ W = First \cup After
    <2>1. IsFiniteSet(1..n)
      BY <1>2, FS_Interval
    <2>2. W \subseteq 1..n /\ S \subseteq 1..n /\ First \subseteq 1..n /\ After \subseteq 1..n
      BY <1>2
    <2>3. W = First \cup After
      <3> SUFFICES ASSUME NEW i \in W, i # 1
                   PROVE  i - 1 \in W \/ i - 1 \in S
        OBVIOUS
      <3>1. i - 1 \in DOMAIN A
        BY <1>2
      <3> QED
        BY <3>1
    <2> HIDE DEF W, S, First, After
    <2> QED
      BY <2>1, <2>2, <2>3, FS_Subset
  <1>4. IsFiniteSet(G)
    <2>1. t \in Seq(Chars)
      BY <1>1 DEF Layout
    <2>2. Len(t) \in Nat /\ DOMAIN t = 1..Len(t)
      <3> HIDE DEF t
      <3> QED
        BY <2>1
    <2>3. G \subseteq 1..(Len(t) + 1)
      <3> HIDE DEF t
      <3> QED
        BY <2>2 DEF GoodLines, LineStarts
    <2>4. IsFiniteSet(1..(Len(t) + 1))
      <3> HIDE DEF t
      <3> QED
        BY <2>2, FS_Interval
    <2> HIDE DEF G, t
    <2> QED
      BY <2>3, <2>4, FS_Subset
  <1>5. Cardinality(First) <= Cardinality(G)
    <2> DEFINE f == [i \in First |-> off[i - 1] + 1]
    <2>1. \A i \in First : f[i] \in G
      <3> SUFFICES ASSUME NEW i \in First
                   PROVE  off[i - 1] + 1 \in G
        OBVIOUS
      <3>1. i \in 1..n /\ Whole(A[i]) /\ (i = 1 \/ Whole(A[i - 1]))
        BY <1>2
      <3> HIDE DEF t
      <3> QED
        BY <1>1, <3>1, WholeAfterWholeIsGood DEF t
    <2>2. ASSUME NEW i \in First, NEW j \in First, i < j
          PROVE  f[i] # f[j]
      <3>1. i \in 1..n /\ j \in 1..n /\ A[i].length = 4
        BY <1>2, PieceIs
      <3>2. off[i] = off[i - 1] + 4
        BY <1>1, <3>1 DEF Layout
      <3>3. i - 1 \in 0..n /\ j - 1 \in 0..n /\ i \in 0..(j - 1)
        BY <1>2, <2>2, <3>1
      <3>4. off[i] <= off[j - 1]
        BY <1>1, <3>3, LayoutGoesOn
      <3>5. off[i - 1] \in Nat /\ off[j - 1] \in Nat
        BY <1>1, <3>3 DEF Layout
      <3>6. f[i] = off[i - 1] + 1 /\ f[j] = off[j - 1] + 1
        OBVIOUS
      <3> HIDE DEF f
      <3> QED
        BY <3>2, <3>4, <3>5, <3>6
    <2>3. \A i, j \in First : i # j => f[i] # f[j]
      <3> SUFFICES ASSUME NEW i \in First, NEW j \in First, i # j
                   PROVE  f[i] # f[j]
        OBVIOUS
      <3>1. i < j \/ j < i
        BY <1>2
      <3> HIDE DEF f, First
      <3> QED
        BY <2>2, <3>1
    <2>4. f \in Injection(First, G)
      <3> HIDE DEF First, G
      <3>1. f \in [First -> G]
        BY <2>1
      <3> HIDE DEF f
      <3> QED
        BY <2>3, <3>1 DEF Injection, IsInjective
    <2> HIDE DEF f, First, G
    <2> QED
      BY <1>4, <2>4, FS_Injection
  <1>6. Cardinality(After) <= Cardinality(S)
    <2> DEFINE f == [i \in After |-> i - 1]
    <2>1. \A i \in After : f[i] \in S
      OBVIOUS
    <2>2. \A i, j \in After : f[i] = f[j] => i = j
      <3>1. \A i \in After : i \in Nat /\ f[i] = i - 1
        BY <1>2
      <3> HIDE DEF f, After
      <3> QED
        BY <3>1
    <2>3. f \in Injection(After, S)
      <3> HIDE DEF After, S
      <3>1. f \in [After -> S]
        BY <2>1
      <3> HIDE DEF f
      <3> QED
        BY <2>2, <3>1 DEF Injection, IsInjective
    <2> HIDE DEF f, After, S
    <2> QED
      BY <1>3, <2>3, FS_Injection
  <1>7. Cardinality(W) <= Cardinality(First) + Cardinality(After)
    <2> HIDE DEF W, First, After, S
    <2>1. Cardinality(First \cup After)
            = Cardinality(First) + Cardinality(After) - Cardinality(First \cap After)
      BY <1>3, FS_Union
    <2>2. Cardinality(First \cap After) \in Nat /\ Cardinality(First) \in Nat
          /\ Cardinality(After) \in Nat
      BY <1>3, FS_Intersection, FS_CardinalityType
    <2> QED
      BY <1>3, <2>1, <2>2
  <1>8. /\ Cardinality(W) \in Nat /\ Cardinality(S) \in Nat /\ Cardinality(G) \in Nat
        /\ Cardinality(First) \in Nat /\ Cardinality(After) \in Nat
    <2> HIDE DEF W, S, G, First, After
    <2> QED
      BY <1>3, <1>4, FS_CardinalityType
  <1>9. Cardinality(W) - Cardinality(G) <= Cardinality(S)
    <2> HIDE DEF W, S, G, First, After
    <2> QED
      BY <1>5, <1>6, <1>7, <1>8
  <1> QED
    BY <1>9

\* A write to entries.jsonl that is cut short costs the report at most one entry more
\* than its own (store.py:8-10, 44-45), for any number of sessions, writes and faults.
THEOREM ShortWriteCorrect == Spec => []ShortWriteCostsOneMore
  <1>1. IInv => ShortWriteCostsOneMore
    BY LossIsBounded DEF IInv, TypeOK, ShortWriteCostsOneMore
  <1> QED
    BY <1>1, Invariance, PTL
==============================================================================
