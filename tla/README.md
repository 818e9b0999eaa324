# herdr-plugins in TLA+

Models of the four plugins of this repository, the model checking of small
instances of them, and machine-checked proofs of the facts that matter most.
Paths below are relative to the repository; `main.py:137` is a line of the
plugin under discussion.

## 1. The system

[Herdr](https://herdr.dev) is a terminal multiplexer for coding agents: a server per
session owns *Spaces* (workspaces) with tabs and panes, answers requests on a
Unix socket, and launches plugin commands on startup and on events. The
repository holds four independent plugins.

| Component | State it keeps | Operations | Talks to |
|---|---|---|---|
| **workspace-time-tracker** `segments.py` | the open segment | `update`, `close`, `recover` | called by the poll loop |
| … `main.py`, `store.py`, `daemonize.py` | stop flag, last focus; on disk `entries.jsonl` (append only, **shared by all sessions**), `current.json` (mirror of the open segment), flock and pid | daemon start, `--restart`, poll loop, shutdown, recovery, `stop`, `flush` | server by socket, its next incarnation by disk, other processes by lock and signals |
| … `activity.py` | screen hash per pane | was there activity since the last poll | server |
| … `report.py` | – | sums of entries by day and label, overlap note | reads `entries.jsonl` |
| **agent-caffeinate** `main.py`, `daemonize.py` | flock on `daemon.lock`, the pid in it, `daemon.json` | start, `--ensure`, `--restart`, takeover of a stale daemon, `stop`, poll loop | other processes by lock, files and signals |
| … `tracker.py` | holding, time of the last activity | `update`, `next_wakeup`: the grace period | called by the poll loop |
| … `inhibitor.py` | the inhibitor process, `inhibitor.json` | spawn, record, stop, reap what a predecessor left | its child, its predecessor's child |
| … status, indicator, doctor, gap report | – | print | read the files |
| **vscode-workspace-sync** `main.py`, `folders.py`, `write.py`, `rewrite.py` | the `folders` member of a `.code-workspace` file | one run per event: snapshot, compute, compare, splice, `os.replace` | server by CLI, VS Code by the file; **other runs, without a lock** |
| … `adopt.py` | – | create and relabel Spaces from the file | server, call by call |
| … `herdr.py` | – | snapshot to Spaces; create, rename | server |
| … `config.py` | `config.json`, one for all sessions, edited by the user | which file, mode and pinned folders a session has; refuses two sessions with one file | asked by sync and by the guard of adopt |
| … `jsonc.py` | position and state of the scanner | find the span of a top-level member; `loads` with comments and trailing commas | called by `rewrite.py`, and by every reader of settings |
| **bridge-keepawake** launcher `bin/bridge-keepawake` | the flock that `flock(1)`, deno and perhaps the ping share | start, `--restart`, `--foreground` | daemons by lock, pid file and signals |
| … `main.ts`, `daemonize.ts`, `bridge.ts` | pid file, `daemon.json`, lastActiveAt, stop flag | `stop`, poll loop that pings a bridge, indicator | server, bridge command, its next incarnation by `daemon.json` |
| `config`, `launchers`, `sock` of each plugin, `scripts/` (and `jsonc.py`, copied verbatim into the two trackers) | – | parsing, settings, wrapper scripts | – |

What is hard in it, and what makes each part correct:

* **Daemons are killed and restarted at any point.** What the time tracker has
  seen must be on disk, once; what caffeinate spawned must be reaped. Each
  write to disk, spawn and signal is a step at which a kill can fall.
* **Processes of one session race for a lock, a pid file and a status file
  that are not updated together.** There must be one daemon, a healthy one
  must not be killed, a stuck one must be replaced, and when a lock comes free
  the inhibitor must be gone.
* **Time.** Grace periods, idle timeouts, staleness, midnight, a clock that is
  set back. An entry is within one local day, entries never overlap, work is
  billed and absence is not.
* **Hook runs without a lock** overwrite one file that the user edits too.
* **A file that all sessions append to**, where a write can be cut short: one torn
  line must not cost the report more than itself and its neighbour.
* **A text that the user formats as he likes**, comments and trailing commas
  included, in which one span is found without a parser and replaced.
* **One config.json for all sessions**: links, overrides and missing entries must
  never point two sessions at one file, nor change what another session gets.
* **A lock in one program, a pid file in another.** bridge-keepawake's flock is held
  by a process that its pid file does not name, and `--foreground` does without it.
* **Multi-call changes without a transaction.** adopt plans on one snapshot
  and then creates Spaces one by one; any call can fail or lose its answer.

PROJECT.json lists every hazard at its line, with the properties that cover it, and
a note where they exempt a part of it.

## 2. The modules

| Module | Models | State and actions |
|---|---|---|
| `Ledger` | what `report.py` relies on: an append-only list of disjoint entries, each within a day | abstract specification |
| `SegmentTracker` | `segments.py` | `now`, `current`, `entries`, `call`. `update()` is `BeginUpdate` (idle close), a `Rollover` per turn of the midnight loop, `EndUpdate` (comparison with the focus); `Close`, `Recover` |
| `Attention` | `SegmentTracker` with history variables for where the user is and since when, the time really worked and the time billed in absence | the same actions |
| `SegmentTrackerProofs` | proofs | |
| `TimeTracker` | `main.py`, `store.py`: the daemon around `SegmentTracker` (by `INSTANCE … WITH entries <- pending`), and the report that can be asked for at any time (`Report`) | memory, `log` = entries.jsonl, `mirror` = current.json; every disk write is an action; `Kill`, `AppendFails`, `MirrorFails` |
| `TrackCommands` | `main.py`, `daemonize.py`: start, `--restart`, `stop` and `flush` of one session next to each other | `pc`, `target`, `stop` per process; `lock`, `pidFile`, `mirror`, `appends`; kills, writes cut short, a daemon too slow to stop; appends of another session |
| `TrackCommandsProofs` | proofs, those about `Journal` too | |
| `Journal` | `store.py`: entries.jsonl as text, `append_entry` and `read_entries` | operators, used by `TrackCommands` |
| `Report` | `report.py`: filter by days, sums, overlap note | operators, used by `TimeTracker` |
| `TimeTrackerProofs` | proofs, those about `Report` too | |
| `Caffeinate` | all of the agent-caffeinate daemon, its commands and its inhibitor | `pc` per process; `lock`, `pidfile`, `age` of daemon.json, `recorded` = inhibitor.json, `inhibitors` alive; faults of eight kinds |
| `CaffeinateProofs` | proofs | |
| `Herdr` | the Spaces of a session and the directories on disk; what a snapshot and a hook context show, what create and rename do | external; extended by the next two |
| `Sync` | `vscode-workspace-sync`: hook runs | `run` = memory of each run: launched → read → replace; the user edits the file, Spaces change, runs fail |
| `SyncProofs` | proofs | |
| `Adopt` | `adopt.py` | `job` = memory of each run: planning → executing; creates and renames one call at a time |
| `AdoptProofs` | proofs | |
| `Config` | `config.py` | `raw` = config.json, `runs` = what each run of the sync resolved since it was saved; `Sync`, `Save` |
| `Jsonc` | `jsonc.py` and the splice of `rewrite.py`, against a grammar of workspace files | `text`, and the scanner: `at`, `expect`, `matched`; one action per branch of its loop, then `Splice`. `doc` is the document that the text should be, and changes by definition |
| `UserFileProofs` | proofs about `Jsonc` and `Config`: the two files that the user edits and a run reads | |
| `Bridge` | all of bridge-keepawake: launcher, flock, daemon, `stop`, what the indicator shows | `pc` per launch (setsid, flock, deno); `pidFile`, `status` = daemon.json, `command` = the stop or restart under way, `pinging` = ping commands alive, history of pings and activity |
| `BridgeProofs` | proofs | |

A module `MCx` gives `x` its instance. Operators that come with a variant
of a telling name (`IdleCloseAtNow`, `SpacesBeforePins`, …) are plausible bugs:
PROJECT.json pairs each property with the variant that breaks it.

### What is atomic, and why

* *SegmentTracker*: `update()` reads the clock once and calls nothing. The turns
  of its midnight loop are separate steps only because the loop is not
  assumed to end.
* *TimeTracker*: a step ends after each write to disk. The snapshot and the
  decisions on it are one step: nothing else of the daemon runs in between.
* *TrackCommands*: each access to the lock, a file or a process is a step. A daemon
  opens at most one segment in its life (its loop is `TimeTracker`), and the server is
  up. `Launch` to `acquire` hides the reading of settings; the two forks of
  `detach`, through which the lock is inherited, are part of `WritePid`. An append
  is one `write()`; `flush` launches its daemon from the processes that are still
  idle.
* *Config*: a run reads config.json once. `Save` sets one key to any of its values,
  or replaces a file that is missing or unreadable.
* *Jsonc*: nothing else runs; a step is a turn of the scanner's loop.
* *Caffeinate*: each access to the lock, a file, a process or the socket is a step.
  A process that is not stuck does everything but wait in less than a clock
  unit (`Tick` is enabled only when the rest waits); stuck ones are `wedged`.
  `ftruncate` and `write` of the lock file are one step, and so is the check in
  `_take_over` of the age and of the pid; exceptions other than `ServerGone` and
  `ProtocolError` are not modelled, nor is dry mode (no inhibitor command), and
  pids are not recycled.
* *Sync*: a run has three steps: the check for the file together with the
  snapshot and the folders; the read of the file together with comparison and
  rendering; `os.replace`. Temporary files that a killed run leaves beside the
  workspace file are not modelled. config.json does not change.
* *Adopt*: the guard is one step with the reading of the file; the snapshot is one
  with the plan; then a step per call. Neither config.json nor the workspace file
  changes. A create that fails may have made the Space all the same.
* *Bridge*: each access to the lock, a file, a process or the socket is a step, but
  a status is put together, written and renamed in one, and `kill -0` and `TERM`
  are one. Times are ages; a step can take any time. A stop or a restart gives up
  waiting only while the daemon waits for the socket or a ping. What can go
  wrong before the pid file is written is one action, `Refuse`. Pids are not
  recycled. Whether a ping inherits the locked file from deno the code
  does not say: `PingKeepsLock` is a constant.

## 3. The runs

| Run | Instance | Shows |
|---|---|---|
| `attention` | 2 Spaces, idle timeout 4, minimum entry 2, 8 seconds around a midnight | entries never overlap, each lies within a day and none precedes another (`IsLedger`: SegmentTracker implements Ledger); what is billed goes to the Space in which the user was seen all along (`BilledWhereSeen`); every second of work is billed or discarded on purpose; an absence is billed for less than two idle timeouts |
| `clock_back` | clock set back over midnight | **violation** of "0, 1 or 2 entries": the midnight loop does not end |
| `time_tracker` | 1 Space change, restarts without bound, 2 faults | what a poll has seen stays on disk over kills; overlaps only by a recovery; clean exits leave nothing; the report of every range of days counts each second on disk, and notes an overlap exactly if it counts one twice; stop is obeyed and the daemon follows its server |
| `track_commands` | 4 processes, each a daemon, restart, stop or flush; 1 append of another session; 1 kill, short write or slow daemon | when `stop`, `flush` or `--restart` sees the lock free, the segment is written; a flush or restart, also next to others, leaves a daemon behind; a write cut short costs at most the entry after it |
| `caffeinate` | 3 processes, each a daemon, restart or stop; 1 fault of any of 8 kinds | one daemon; orphans reaped; no more inhibitors without a daemon than faults, recorded or not; a lock let go of means released; no healthy daemon is taken over; grace kept to the poll |
| `caffeinate_live` | 2 processes, kill, wedge or garbled answers | daemons follow their server, a wedged holder is displaced, commands end |
| `sync` | 2 runs in flight, 2 Spaces, 3 directories, 1 pinned; 2 changes, 1 edit, 1 failed run; both modes | the next undisturbed run repairs every race; never a blank explorer; the pin keeps index 0; redundant runs do not write; edits are lost only in the window between read and replace |
| `adopt` | 2 runs in flight, up to 4 Spaces; a file with 2 folders, a duplicate and an unusable entry; 1 change, 1 fault | a run that succeeds undisturbed has adopted all folders, after any failed ones; one Space per folder; the file's order; nothing else is touched |
| `config` | 3 sessions (one called `sessions`), two files and a link, every value of every key, valid or not, with and without an override; 2 runs between saves | no two sessions write one file; no session depends on the entry of another |
| `jsonc` | an array, and every object of at most two members (strings with quotes, escapes and brackets, nested `folders`, trailing commas, bare words) with one of four gaps at one of six kinds of place or everywhere; spliced without bound | only the folders array changes, and the next run finds it; `loads` sees the JSON that the document means |
| `bridge` | 2 launches, hooks, restarts, stops, foreground daemons, kills, pings of any length that keep the lock; stale after 1, hold 0 | the pid file names the daemon in the loop; the coffee cup is earned, whoever wrote the status; lastActiveAt never goes back; daemons follow their server |
| `bridge_restart` | the same, pings do not keep the lock | **violation** of "it just always replaces" |

Why the bounds are enough. *attention*: the clock covers a midnight with an idle
timeout on each side of it, so an idle close, a switch and a rollover can each
come before, at and after midnight, and a segment can be below and above the
minimum. *time_tracker*: two faults allow a kill during the recovery from a kill;
the rest (restarts, polls, focus changes) is not bounded but by the clock.
*track_commands*: four processes are a running daemon, two commands that race for it, and
the daemon one of them launches, or a daemon, a command and two rivals for the
lock. A run has at most one tear; that two cost no more than one neighbour each is
`TrackCommandsProofs!ShortWriteCorrect`.
*time_tracker* has a clock of three seconds with a midnight in it, which is
enough for entries of each day and for overlaps, but not for two entries that merely
touch: that these are no overlap is `TimeTrackerProofs!NeighboursSuffice`.
*config*: two sessions can have entries while a third has none, and two files and a
link let both, or the top level, name the same one; the proofs cover any number. *jsonc*: the scanner keeps no memory but the position, the state
and whether the key matched, so two members are each predecessor of each other.
*caffeinate*: three processes are a holder, a taker and a third that stops,
restarts or takes over at the same time; poll interval, grace and staleness are
different, so a release is due between two polls. One fault suffices for every
handler; the combination of two is not checked. *sync*: two runs are what a
lost update needs, with a change after each snapshot; the number of runs one
after the other is not bounded. *adopt*: two runs and four ids let both create
both folders. *bridge*: two launches are a daemon and its successor, or one beside a
foreground daemon; the second can be launched at any step of the first. Commands
and the clock have no bound: ages are kept up to the one from which on nobody
can tell, so a status can be fresh, stale and from long ago. With a stale age of
1 and a hold of 0 each of the indicator's five answers occurs; the proofs cover
the other values. Pings that keep the lock give the longest hold; in
`bridge_restart` they do not, so that the violation rests on the code alone.

`MaxClock`, `MaxFaults`, `MaxChanges`, `MaxEdits`, `MaxOther`, `MaxRuns` and `MaxLaunches` are the only bounds in the
guards. Symmetry is used where no liveness is checked. Deadlock is checked but
in `clock_back`, where the runaway loop reaches the bound on the clock, and in
`adopt`, where a session that sync manages refuses every run, and in
`track_commands`, where every process has been launched in the end. (In `Bridge` it says
nothing: the clock can always tick.)

### Findings

* `clock_back`: with the clock set back over midnight, the `while` at
  `segments.py:169` moves away from `now` and returns entries in the future
  without end.
* `bridge_restart`: the restart waits for deno to be gone (`bin/bridge-keepawake:101-105`),
  but the lock is held by its parent `flock(1)` too, and after a KILL by deno for as
  long as it takes to die: `flock -n` (line 125) fails without a word and nobody runs,
  against lines 91-92. The next `workspace.focused` starts a daemon.

Seen while modelling, and without a run of their own.

Against a text of the repository:

* an absence over midnight that ends with a switch adds almost two idle timeouts, since
  the rollover (`segments.py:171`) carries the segment on with an activity at
  midnight that nobody made; `segments.py:12-14` promises at most one
  (`OverCountBelowTwoTimeouts` says what holds);
* append and mirror of the time tracker are two writes (`main.py:212-217`), and a
  kill between them bills a segment twice in one session, which the report explains
  by a second session (`report.py:69-71`; `OverlapOnlyByRecovery`);
* the inhibitor is spawned before its pid is recorded (`inhibitor.py:96-107`): a kill
  in between leaves one that nobody reaps, against `README.md:251-253`
  (`OrphansAreReaped` exempts it; `StraysAreCounted` says that it stays at one for each fault);
* an unusable snapshot skips caffeinate's status (`main.py:109-113`), so a daemon that
  polls all the time looks stale and is displaced, against `main.py:147-149`
  (`TakeoverSparesTheHealthy` exempts it; its inhibitor is counted by `StraysAreCounted`,
  and reaped by the successor if it is on record);
* what VS Code saves between `write.py:74` and `write.py:55` is overwritten, against
  vscode-workspace-sync `README.md:448-449` (`EditsLostOnlyInWindow`);
* a write cut short leaves no newline, so the next entry, whole as it is, is lost to
  the report with it, against `store.py:8-10` (`ShortWriteCostsOneMore`); one that
  lost only its newline is read until somebody appends.

Promised by nobody, but worth knowing:

* the last second of a day, in which the tracker saw the user, is billed by no entry: a
  rollover ends the entry at `end_of_day` (`segments.py:45-49`), a second before midnight,
  and the next one begins at midnight (`lost` of Attention and `Promised` of TimeTracker
  exempt it; with a clock finer than a second a recovery can bill it, so an overlap may
  be longer than the entry before it by less than a second);
* an `idleTimeoutSec` longer than a day is accepted (`config.py:117`): the rollover then
  makes an activity of every midnight, and an absence is billed day after day without end
  (`OverCountCorrect` assumes `DaysOutlastTimeout`, which the default of 60 s meets);
* `flush` prints "daemon: not running" when its wait of 10 s runs out, also if the
  daemon stops a moment later, and then starts none (`SomeoneRuns` exempts it);
* a failed append loses its entry for good (`EarnedStaysOnDisk` exempts it);
* a ping that hangs keeps bridge-keepawake from seeing its stop flag or the end of its
  server (`ExitsWithServer` exempts it);
* after a failed spawn caffeinate's tracker keeps `holding`, and nothing is spawned
  until the agents have been idle; the probe of `stop` can make a concurrent
  `--ensure` exit; `adopt_stale` forgets a recorded inhibitor whose configured command has
  changed, and it runs on; until its first report a new daemon is shown by the
  `daemon.json` of its predecessor;
* an override is applied after the claims are checked (`config.py:335`), so two hooks
  whose environments name one file both write it (`OneSessionPerFile` exempts it);
* `guard` of adopt looks once (`adopt.py:152`), at config.json and at its own environment:
  a `workspaceFile` that is saved after that, or an override that only the hook's
  environment has, lets sync run beside an adopt in flight. No property is stated of it,
  since nothing in the code prevents it;
* a socket of the default session below a directory called `sessions` is taken for
  that of a named one (`config.py:93`; `SocketAssumption`);
* of two `folders` members the first is spliced, while `loads` and VS Code take the
  last; the instances of `Jsonc` have one. A key spelt with `\u` escapes is found by
  the code and not modelled;
* `bin/bridge-keepawake:46` does not cut the session key to 64 characters as
  `daemonize.ts:46` does: with a longer one, stop and restart look in another place.

### Fairness

* `TimeTracker`: `WF_vars(Daemon)`. The loop is one thread without waits that
  something else must end; socket calls have timeouts.
* `Caffeinate`: weak fairness of each process's `Step`, which is disabled while the
  process is wedged, and of `Tick`. Kills, wedges, changes of the server and
  launches have none. `StopTimesOut`, `KillHolder` and `GiveUp` are the deadlines
  of the code; their guards say that what they wait for will not come.
* `Bridge`: `WF_vars(Step(d))` for each launch: processes run, sleeps end, and a
  request has a timeout. Nothing is assumed of a ping (`bridge.ts:17` has no
  timeout), of kills and of commands.
* `TrackCommands` states what is true when everything is at rest, in place of
  liveness; `Config` and `Jsonc` are functions of what they read.
* `Sync` and `Adopt` claim no liveness: nothing retries a run that failed, and no
  event is guaranteed. "The next event corrects the loser of a race"
  (vscode-workspace-sync `README.md:469-471`) is stated as the safety property
  `NextRunCorrects`: *if* a run starts alone and sees no change, the file is right.

## 4. What is proved

Each theorem is of the specification `Spec` of its component (of `AttentionSpec` for
`WorkCorrect`, `OverCountCorrect` and `AttributionCorrect`, of `ConfigSpec` for Config), for every value of the constants that meets the
assumptions of the module, and for every bound.

| Theorem | For every | Rests on |
|---|---|---|
| `SegmentTrackerProofs!TypeCorrect`, `ImplementsLedger`, `AttributionCorrect`, `WorkCorrect`, `OverCountCorrect` | calendar, timeout, minimum, set of Spaces, sequence of polls | `ParameterAssumption`, `CalendarAssumption` (days are longer than a second and do not overlap), and a clock that is never set back (`ForwardClock`); the last one also on `DaysOutlastTimeout`: no day is shorter than the idle timeout |
| `TimeTrackerProofs!EarnedCorrect`, `OverlapCorrect`, `ReportCorrect` | the same, and any number of kills, restarts, stops, failed writes | the same assumptions, `ForwardClock` |
| `TimeTrackerProofs!TypeCorrect`, `CleanExitCorrect` | the same | the same assumptions, whatever the clock does |
| `TimeTrackerProofs!NeighboursSuffice` | selection of entries that take some time | – |
| `TrackCommandsProofs!OneHolderCorrect`, `FlushedCorrect`, `SomeoneRunsCorrect` | number of processes, order of commands, number and kind of faults | `BoundAssumption` |
| `TrackCommandsProofs!ShortWriteCorrect` | number of appends of any sessions, cut short anywhere | `EntryAssumption`: no newline in an entry, which `json.dumps` escapes |
| `CaffeinateProofs!OneDaemonCorrect`, `ReleaseCorrect`, `OrphansCorrect`, `StraysCorrect`, `GraceCorrect`, `WakeupCorrect`, `TakeoverCorrect` | number of processes, timing, number and kind of faults | `ProcAssumption`, `TimingAssumption` |
| `SyncProofs!EditsCorrect`, `ExplorerCorrect`, `PinCorrect`, `NextRunCorrect`, `RedundantCorrect`, `ComputeShows` | number of runs, changes, edits, faults; Spaces; pins; directories | `HerdrAssumption`, `SyncAssumption` |
| `AdoptProofs!AdoptedCorrect`, `SidebarCorrect`, `OnlyAddsCorrect`, `OneSpaceCorrect`, `PlansHold` | number of runs, changes, faults; file; Spaces; directories | `HerdrAssumption`, `AdoptAssumption` |
| `UserFileProofs!FilesCorrect`, `EntriesCorrect` | set of sessions, config.json, links, overrides | `ConfigAssumption`, `SocketAssumption` (sockets have names of their own), `RecordAssumption` (an object has the four keys) |
| `UserFileProofs!UserTextIsKept`, `FilesStayReadable`, `NothingIsSteppedOver` | workspace file of the grammar `JsoncDocuments`, of any length and depth and over any set of characters; lists of folders; number of runs | `CharacterAssumption` (the characters with a meaning are among them), `Documents \subseteq JsoncDocuments`, `FolderLists \subseteq Lists` |
| `BridgeProofs!TypeCorrect`, `PidFileCorrect`, `CupCorrect`, `LastActiveCorrect` | number of launches, staleness, hold time, with or without pings that keep the lock | `BridgeAssumption` |

*SegmentTracker.* That entries are disjoint and that the open segment is the latest
(`EntriesDisjoint`, `OpenSegmentIsLatest`) is not inductive: a segment closes at its last activity, so one has to know that this is not
before its start and that no entry ends after that start, and at a midnight
that the segment lies within a day. `IInv` adds `EntriesSound`, `EntriesPast`
and `OpenWithinADay`. Its use for `ImplementsLedger` is that each step that
appends an entry appends one that is well formed and follows the rest.

*Attention.* `BilledWhereSeen` needs `OpenIsHere`: the open segment is of the Space in which
the user was last seen and starts no earlier than the first time there, also after a
midnight, which only moves its start forward. `WorkIsBilled` follows from `WorkAccounted` (what was worked is in an entry, in
the open segment up to its last activity, or discarded on purpose), which is kept since
the open segment follows the user (`PresenceIsTracked`). For `OverCountBelowTwoTimeouts`,
`LastIsSeen` says that the last activity of the open segment is that of the user, or a
midnight that came within one timeout of it; so what is billed ends within two
timeouts of it (`Horizon`). A second midnight within the timeout would move that
on again, hence `DaysOutlastTimeout`.

*TimeTracker.* The argument is about `AllEntries`: the entries in the log followed by
those on their way there. An append moves one within it, a kill cuts it off after
the log, and a call of the tracker adds at its end (`Evolves`); so the order of
the writes need be looked at once. `PairsOK` says that two entries are apart or that the
later one recovers what the earlier bills; it needs `ClearOf` for each entry and
the mirror, from which the next recovery will be made. `PromisesKept` says that
what current.json promises is in an entry or still open before the mirror is changed.
`CleanExitLeavesNothing` needs only `MirrorFollows`: without a fault,
current.json is there only while a daemon is, and is rewritten or removed in each poll.

*TrackCommands.* `LockOK` makes the lock the property of the process at a place that
needs it, `MirrorOK` says whose segment is in current.json; a command that probes the
lock has it, so the daemon it signalled is past its writes. `SomeoneRuns` needs
`SuccessionOK`: one that was told to stop is awaited by somebody (`StoppedIsAwaited`), and
once a daemon was asked for there is always one because of whom there will be one
(`SomeoneSucceeds`): it runs, is starting, or is a restart or a flush on its way. Who
finds the lock taken ends, but then `SucceedsElse` names another: the holder,
or the one that awaits it.

*Journal.* By induction over the appends the text is one piece after the other
(`TextLayout`). A whole append at the beginning or after a whole one starts after a
newline and ends at its own, which is the first, so it is a good line
(`WholeAfterWholeIsGood`); different ones start at different places. The other
whole ones come after one cut short, each after its own: two injections, and a count.

*Report.* A report is about a set of seconds, its sums are about a list. `TotalCounts`, by
induction over the list: what a selection of entries adds up to is at least the number of
seconds in them, and no more exactly if no two overlap. Let entries i and j overlap, i
before j in the order of starts. Of the entries after i some one is the earliest
(`AnEarliest`), it starts no later than j, so it overlaps i too: `NeighboursSuffice`.
`ReportIsTrue` follows with `EntrySound`, the part of the invariant of TimeTracker that
says that an entry takes some time within one day: so a day has all of the seconds
of the entries that start in it (`SecondsAreBilled`), and the selection by the day of the
start is one of seconds.

*Caffeinate.* `OneDaemon` follows from `HoldersOwnTheLock`: whoever is between its
claim and its exit is the owner of the flock, and owners are unique. A death
frees the lock, a signal that kills does the same, and no other step of
another process takes it away; one lemma for each way a step can treat the lock.

`UnlockedMeansReleased` adds `ReleaseInv`: a process whose inhibitor is alive is in one of the
places from which the release is still to come, and once `leaving` is set it is
past the loop for good. `OrphansAreReaped` adds `OnRecord`: an inhibitor alive is the one in
inhibitor.json, or about to be, or known not to be; so the daemon that reads the
record, and there is one at a time, reaps all there are.

`StraysAreCounted` is not inductive, since a takeover kills a daemon that is stuck or blind
without a fault of its own: the fault came before. `Lost` adds to the inhibitors without
a daemon the one whose daemon can be killed at no further cost, and `StrayInv` bounds
that set: each step adds nobody to it, or one and a fault.

`NeverReleasedEarly` and `HeldNoLongerThanGrace` need `CountInv`: what each process counts,
the time since the last activity and the nap it still has, agrees with the history at
each of its places; a nap is cut to end with the grace period, so a daemon that holds
wakes up in time. `TakeoverSparesTheHealthy` needs `WatchInv`, and of it above all
`WatchedWakesFirst`: who looks again at a stale status sleeps longer than a healthy
daemon, which so reports in between.

*Sync.* `EditsLostOnlyInWindow` needs `WritersHoldTheLastSave`: as long as no save
fell in a window, whoever is about to replace the file holds the version that was
saved last. The rest is about `compute_folders`: by induction over the
candidates of its loop, it lists each path that is a directory once, where it comes
first (`KeptStep`, `ComputeShows`). So a list is never empty when a pin or a Space has
a directory, and the pin comes first, in every run's memory and in the file (`ListsInv`),
whatever runs race. `NextRunCorrects` needs `TrustedInv`: a run that started alone and saw no
change is the only one, and what it has computed shows the Spaces. For `RedundantRunsAreFree`
two lists that show the same Spaces are sorted by one order, so they are the same
(`SortedOnce`).

*Adopt.* By induction over the loops of `read_folders` and `plan_adoption`, a plan creates
the folders of the file that exist and have no Space, once and in order, and renames those
with another label (`RefsAre`, `CreatesAre`, `RenamesAre`). `PlansInv` says that this
stays true of a run nobody disturbs while its plan is carried out: what is left to create
has no Space (`Lacking`), what exists has one or is left to create (`Complete`), a rename aims
at the Space of its folder (`Aimed`), which has the name or will get it (`Named`), and the Spaces
made so far are in the order of the file (`InOrder`). At the end nothing is left, so the
sidebar is complete. A step of one run disturbs the others that are in flight.

*Jsonc.* The grammar is given as least sets: `Gaps`, `Bodies` of strings, `Contents` of
containers are what is in every set closed under their productions. So a statement about
each gap is proved by showing that the set of texts for which it holds is closed, and no
induction theorem is needed. Three steps lead from there to the invariant.

1. The functions of the scanner are recursive over positions. `Descent` gives, by
   induction on the positions from the end, that such a function exists, so that it meets
   its equation (`SkipGapStep`, `StringEndStep`, `ContainerEndStep`). From it follows the
   value at the beginning of a gap, a string, a container or a literal that is in the text
   (`Holds`): the position behind it. For a container the statement that is closed is about
   every depth of nesting at once.
2. `Holds` places each part of a document in its text, at an offset that is the sum of
   the lengths before it. `Ahead` says what the scanner sees at a position after a gap.
3. `ScannerInv` says that the text is that of `doc` and that the scanner, in each state of
   its loop, is at the part of `doc` that this state is for: in front of a member or the
   end (`KeyNext`), of a colon, of a value, or of a comma or the end; and once it is done
   it has found the value of the `folders` member, or knows that there is none
   (`Located`). Each turn of the loop keeps it by the steps 1 and 2.

What is left is the splice: replacing a piece, or inserting one after the brace, gives the text of
`WithFolders(doc)` (`SpliceReplaces`, `InsertsFirst`, `InsertsOnly`), since a text is a
concatenation and this is associative. That document is of the grammar again: what
`render_folders` writes is a container (`RenderFoldersIsBracketed`), with any path
in it, since `json.dumps` escapes quotes and backslashes. The invariant has the grammar
`ScannedDocuments`, which is a little wider than `JsoncDocuments` (`JsoncIsScanned`):
it asks of strings and containers only that the scanner ends behind them. In both the root
has at most one member `folders`; of several the code takes the first, and VS Code the
last. The run `jsonc` also has files outside the grammar, for which the code has branches
of its own (`StepOver`): a key without quotes, a value with no comma after it.

*Config.* `OneSessionPerFile` compares runs that loaded config.json at different times;
`SettingsInv` says that all of them go by the one that is there now, since a
save forgets them. What a session is given it claims (`FilesAreClaimed`), and
`IsValid` lets no two claim one file.

*Bridge.* `PidFileNamesTheLoop` needs `PidInv`: without a foreground daemon at most one
launch holds the lock (`OneHolder`), and one that has written the pid file and
not yet removed it is on record (`OnRecord`); an heir cannot have written before
the lock is free, and the lock is free only after the removal or a death.
`HoldingIsEarned` needs `CupInv`: what a status says of the last activity, and what
each daemon carries of it, is not later than the last poll that found some
(`SeenIsLatest`), and a status that claims a ping is not younger than the last one
that succeeded (`PingIsLatest`). Neither speaks of the lock, so it holds beside a
foreground daemon too. `LastActiveNeverBack` needs `LoopRemembers`: a daemon in the loop
remembers an activity no older than the status says; an heir has it from
the status, and nobody else writes one.

### What stays with TLC

* Liveness under fairness (`StopIsObeyed`, `FollowsServer` of both daemons,
  `WedgedIsDisplaced`, `CommandsEnd`, `ExitsWithServer`), for which the prover has no rules for
  `ENABLED`.
* `LoadsAsJson` of Jsonc: that `loads` sees the JSON which the file means. It needs the
  strict text of each value, and so a second grammar beside that of `JsoncDocuments`.
* The two runs that expect a violation, which are counterexamples.

Induction is done without the library's induction theorems, which take an operator:
`NatSetInduction` is stated of a set of naturals, and a property of the numbers
becomes membership in it.

## 5. Not modelled

Caffeinate's indicator, `status`, `doctor` and `gap-report.py` (they print what others
wrote); the settings of three plugins and all launcher scripts (their results are
constants; the JSONC reader of the two Python ones is the one in `Jsonc`);
the pane that gives a Space its path; screen hashing and which panes count as
active (inputs of a poll); indentation of what is spliced; the rounding of a
report's seconds, which are whole in the models; dates that do not parse.

## 6. Plan

Done, in the order of importance: the tracker and its ledger, the time-tracker
daemon and its commands, caffeinate, sync, adopt, bridge, config, jsonc, report; the
theorems above, which state every safety property that the runs check but `LoadsAsJson`.
Next: that one, by the same grammar; type correctness of Caffeinate as a theorem of its
own.
