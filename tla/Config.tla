------------------------------- MODULE Config -------------------------------
(***************************************************************************)
(* vscode-workspace-sync/src/config.py: which workspace file, mode and     *)
(* pinned folders a run gets, from the socket of its Herdr session, from   *)
(* config.json and from an environment variable that overrides the file.   *)
(*                                                                         *)
(* config.json is shared by all sessions of the machine, and its user may  *)
(* save another at any time.  A file name is a normalized path; RealPath   *)
(* says what it is a link to.  Warnings, messages, JSON null and the       *)
(* entries of a list that are not strings are left out.                    *)
(*                                                                         *)
(* ConfigSpec has a name of its own, as have its parts, for modules that   *)
(* extend this one beside another.                                         *)
(***************************************************************************)
EXTENDS Integers, Sequences, FiniteSets, FiniteSetsExt

CONSTANTS
    Sockets,        \* the sockets of the sessions, as path components
    Configs,        \* what config.json can be: Missing, Unreadable or a record
    Overrides,      \* HERDR_VSCODE_SYNC_WORKSPACE_FILE: Absent or a file
    RealPath(_),    \* os.path.realpath
    Absent,         \* a key, or a variable, that is not set
    Malformed,      \* a value of the wrong type
    Missing,        \* there is no config.json
    Unreadable,     \* config.json is not JSON, or not an object
    ConfigError,    \* what load() raises
    MaxRuns         \* bound: runs between two saves of config.json

VARIABLES
    raw,            \* config.json
    runs            \* the runs since it was saved, with what they resolved

configVars == <<raw, runs>>

ASSUME ConfigAssumption == MaxRuns \in Nat /\ Absent \in Overrides

Default == "default"
Modes == {"mirror", "active"}

\* The component after the first `sessions` of the socket's path.
SessionName(parts) ==
    LET marks == {i \in DOMAIN parts : parts[i] = "sessions"}
    IN  IF marks # {} /\ Min(marks) < Len(parts) /\ parts[Min(marks) + 1] # ""
        THEN parts[Min(marks) + 1] ELSE Default

\* Herdr gives each session a name of its own, and none is called `default`.
ASSUME SocketAssumption ==
    \A s, t \in Sockets : SessionName(s) = SessionName(t) => s = t

\* An object has these keys; the code ignores others.
ASSUME RecordAssumption ==
    \A c \in Configs \ {Missing, Unreadable} :
        c = [workspaceFile |-> c.workspaceFile, mode |-> c.mode,
             pinnedFolders |-> c.pinnedFolders, sessions |-> c.sessions]

\* With an override there need not be a file, which is then as good as empty.
Nothing == [workspaceFile |-> Absent, mode |-> Absent, pinnedFolders |-> Absent,
            sessions |-> Absent]

Read(c) == IF c = Missing THEN Nothing ELSE c

TopMode(c) == IF c.mode = Absent THEN "mirror" ELSE c.mode
TopPins(c) == IF c.pinnedFolders = Absent THEN <<>> ELSE c.pinnedFolders
TopFile(c) == IF c.workspaceFile = Malformed THEN Absent ELSE c.workspaceFile

Entries(c) == IF c.sessions = Absent THEN <<>> ELSE c.sessions
Mapped(c) == DOMAIN Entries(c)

EntryIsValid(entry) ==
    /\ entry # Malformed
    /\ entry.workspaceFile \notin {Absent, Malformed}
    /\ entry.mode \in Modes \cup {Absent}
    /\ entry.pinnedFolders # Malformed

\* The top-level file belongs to the default session if that has no entry.
Claims(c) ==
    {[session |-> n, file |-> RealPath(Entries(c)[n].workspaceFile)] : n \in Mapped(c)}
    \cup {[session |-> Default, file |-> RealPath(f)] :
             f \in {g \in {TopFile(c)} : g # Absent /\ Default \notin Mapped(c)}}

ClaimsAreUniqueByName(c) ==
    \A m, n \in Mapped(c) :
        m # n => Entries(c)[m].workspaceFile # Entries(c)[n].workspaceFile

ClaimsAreUnique(c) ==
    \A a, b \in Claims(c) : a.file = b.file => a.session = b.session

IsValid(c, override) ==
    /\ c = Missing => override # Absent
    /\ c # Unreadable
    /\ LET r == Read(c) IN
       /\ TopMode(r) \in Modes
       /\ TopPins(r) # Malformed
       /\ r.sessions # Malformed
       /\ \A n \in Mapped(r) : EntryIsValid(Entries(r)[n])
       /\ ClaimsAreUnique(r)
       /\ TopFile(r) # Absent \/ Mapped(r) # {} \/ override # Absent

FromTopIfAlone(c, name) ==
    [file |-> IF name = Default /\ Mapped(c) = {} THEN TopFile(c) ELSE Absent,
     mode |-> TopMode(c), pins |-> TopPins(c)]

\* Without an entry, only the default session has the top-level file.
FromTop(c, name) ==
    [file |-> IF name = Default THEN TopFile(c) ELSE Absent,
     mode |-> TopMode(c), pins |-> TopPins(c)]

\* The file of an entry is its own; mode and pins may come from the top level.
FromEntry(c, name) ==
    LET entry == Entries(c)[name]
    IN  [file |-> entry.workspaceFile,
         mode |-> IF entry.mode = Absent THEN TopMode(c) ELSE entry.mode,
         pins |-> IF entry.pinnedFolders = Absent
                  THEN TopPins(c) ELSE entry.pinnedFolders]

Resolved(c, name) ==
    IF name \in Mapped(c) THEN FromEntry(c, name) ELSE FromTop(c, name)

\* load(): an error, or a file with its mode and its pins.  Without a file
\* (skip_reason) there is nothing to sync.
Load(c, name, override) ==
    LET got == Resolved(Read(c), name)
    IN  IF ~IsValid(c, override) THEN ConfigError
        ELSE IF override = Absent THEN got
        ELSE [got EXCEPT !.file = override]

Skips(got) == got # ConfigError /\ got.file = Absent

-----------------------------------------------------------------------------

ConfigInit ==
    /\ raw \in Configs
    /\ runs = {}

NoJson == {Missing, Unreadable}

\* What the keys can be set to.
Values ==
    LET records == Configs \ NoJson
    IN  [key \in DOMAIN Nothing |-> {c[key] : c \in records}]

\* The user saves another config.json, or another value of a key in it.
Save ==
    /\ \/ raw \in NoJson /\ raw' \in Configs
       \/ raw' \in NoJson \cap Configs
       \/ /\ raw \notin NoJson
          /\ \E key \in DOMAIN raw : \E v \in Values[key] :
                 raw' = [raw EXCEPT ![key] = v]
          /\ raw' \in Configs
    /\ runs' = {}

\* main() of the sync resolves what it is to do by the config.json of now.
Sync(socket, override) ==
    /\ Cardinality(runs) < MaxRuns
    /\ runs' = runs \cup {[socket |-> socket, override |-> override,
                           got |-> Load(raw, SessionName(socket), override)]}
    /\ UNCHANGED raw

ConfigNext ==
    \/ Save
    \/ \E socket \in Sockets, override \in Overrides : Sync(socket, override)

ConfigSpec == ConfigInit /\ [][ConfigNext]_configVars

-----------------------------------------------------------------------------

Writes(run) == run.got # ConfigError /\ ~Skips(run.got)

\* Two sessions never write one workspace file, by whatever names config.json
\* calls it (config.py:224-230), unless one of them is made to by the
\* environment: the override is applied after the check of the claims.
OneSessionPerFile ==
    \A a, b \in runs : Writes(a) /\ Writes(b) /\ a.socket # b.socket =>
        \/ RealPath(a.got.file) # RealPath(b.got.file)
        \/ a.override # Absent \/ b.override # Absent

\* c and d are valid, and say the same but for the entries of other sessions.
SameFor(name, c, d) ==
    /\ {c, d} \cap NoJson = {}
    /\ IsValid(c, Absent) /\ IsValid(d, Absent)
    /\ d = [c EXCEPT !.sessions = d.sessions]
    /\ \/ name \notin Mapped(c) \cup Mapped(d)
       \/ name \in Mapped(c) \cap Mapped(d) /\ Entries(c)[name] = Entries(d)[name]

Independent ==
    \A socket \in Sockets :
        LET name == SessionName(socket)
        IN  SameFor(name, raw, raw') => Load(raw', name, Absent) = Load(raw, name, Absent)

\* What one session gets does not depend on the entry of another: as long as
\* config.json is valid before and after, adding, changing or removing the
\* entry of a session changes nothing for the rest, the session with the
\* top-level file included (config.py:250-266).
EntriesAreIndependent == [][Independent]_configVars
==============================================================================
