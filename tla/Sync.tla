-------------------------------- MODULE Sync --------------------------------
(***************************************************************************)
(* vscode-workspace-sync/src/main.py: the runs that event hooks launch to  *)
(* bring the `folders` of a VS Code workspace file into line with the      *)
(* Spaces (folders.py), while the user edits the same file.                *)
(*                                                                         *)
(* Runs take no lock.  Each reads the Spaces, then the file, and replaces  *)
(* the file with what it read and its own `folders` in it (write.py).      *)
(*                                                                         *)
(* The file is its `folders` and its other members.  A version number      *)
(* stands for all that is not `folders`; paths of entries are resolved, as *)
(* is_unchanged compares them, and `relative` is how they are spelled.     *)
(***************************************************************************)
EXTENDS Herdr

CONSTANTS
    Runs,           \* the runs that can be in flight at once
    Pinned,         \* pinnedFolders, resolved
    NoMember,       \* the file has no `folders`, or not a list of folders
    NoRoot,         \* the file is not a JSON object
    MaxChanges,     \* bound: changes of the Spaces and the directories
    MaxEdits,       \* bound: edits of the file by its user
    MaxFaults       \* bound: runs that are killed or fail

Folder == [path : Dirs, name : Labels \cup {NoName}, relative : BOOLEAN]

ASSUME SyncAssumption ==
    /\ Pinned \in Seq(Dirs)
    /\ {NoMember, NoRoot} \cap Seq(Folder) = {}
    /\ MaxChanges \in Nat /\ MaxEdits \in Nat /\ MaxFaults \in Nat

VARIABLES
    mode,           \* mode of config.json: "mirror" or "active"
    file,           \* the workspace file: [exists, folders, rest]
    run,            \* the memory of each run
    changes, faults, \* the changes and the faults so far
    edits,          \* the edits so far: the version the user saved last
    saved,          \* history: the version the user saved last, or Deleted
    windowEdit,     \* history: an edit fell between a run's read and its write
    trusted,        \* history: the last run started alone, and nothing has
                    \* changed, failed or started since
    pinGone         \* history: the first pinned folder has not always existed

history == <<saved, windowEdit, trusted, pinGone>>
vars == <<herdr, mode, file, run, changes, faults, edits, history>>

NoFile == [exists |-> FALSE, folders |-> NoMember, rest |-> 0]
Deleted == -1
Version(f) == IF f.exists THEN f.rest ELSE Deleted

Memory(pc, context, entries, rest) ==
    [pc |-> pc, context |-> context, entries |-> entries, rest |-> rest]
Idle == Memory("idle", NoContext, <<>>, 0)
InFlight == {r \in Runs : run[r].pc # "idle"}

----------------------------------------------------------------------------
(* compute_folders                                                         *)

\* folder_name: only a label that says more than the basename.
FolderName(label, path) == IF label = path THEN NoName ELSE label

\* The directory that a Space asks for; NoPath, which is none, if there is
\* none or the mode leaves the Space out.
ChosenPath(s) == IF mode = "mirror" \/ s.id = focused THEN s.path ELSE NoPath

\* What a run is asked to show: the pinned folders, then the Spaces.
Candidates(S) ==
    [i \in DOMAIN Pinned |-> [path |-> Pinned[i], name |-> NoName]]
    \o [i \in DOMAIN S |-> [path |-> ChosenPath(S[i]),
                            name |-> FolderName(S[i].label, S[i].path)]]

DedupeLast(S) ==
    FoldRight(LAMBDA e, es : IF ~IsDir(e.path) \/ \E i \in DOMAIN es : es[i].path = e.path
                             THEN es ELSE <<e>> \o es,
              Candidates(S), <<>>)

SpacesBeforePins(S) ==
    FoldLeft(LAMBDA es, e : IF ~IsDir(e.path) \/ \E i \in DOMAIN es : es[i].path = e.path
                            THEN es ELSE <<e>> \o es,
             <<>>, Candidates(S))

\* Each existing directory once, where it comes first.
ComputeFolders(S) ==
    FoldLeft(LAMBDA es, e : IF ~IsDir(e.path) \/ \E i \in DOMAIN es : es[i].path = e.path
                            THEN es ELSE Append(es, e),
             <<>>, Candidates(S))

\* resolved_existing_folders, when there is a list of folders.
Resolved(folders) ==
    [i \in DOMAIN folders |-> [path |-> folders[i].path, name |-> folders[i].name]]

\* render_folders: absolute paths.
Rendered(entries) ==
    [i \in DOMAIN entries |->
        [path |-> entries[i].path, name |-> entries[i].name, relative |-> FALSE]]

TextIsUnchanged(folders, entries) == folders = Rendered(entries)

\* is_unchanged
IsUnchanged(folders, entries) ==
    folders \notin {NoMember, NoRoot} /\ Resolved(folders) = entries

SplicedAfresh(entries, rest) ==
    [exists |-> TRUE, folders |-> Rendered(entries), rest |-> 0]

\* splice_folders: the member is replaced or inserted, the rest stays.
Spliced(entries, rest) ==
    [exists |-> TRUE, folders |-> Rendered(entries), rest |-> rest]

----------------------------------------------------------------------------
(* A run.  `Ended` is every return or exception of main().                 *)

Init ==
    /\ \E id \in Ids, d \in Dirs :
         spaces = <<[id |-> id, label |-> NoName, path |-> d]>> /\ focused = id
    /\ spent = Open(spaces)
    /\ dirs = Dirs
    /\ mode \in {"mirror", "active"}
    /\ file \in {NoFile} \cup
                [exists : {TRUE}, folders : {NoMember, NoRoot}, rest : {0}]
    /\ run = [r \in Runs |-> Idle]
    /\ changes = 0 /\ faults = 0 /\ edits = 0
    /\ saved = Version(file)
    /\ windowEdit = FALSE /\ trusted = FALSE /\ pinGone = FALSE

\* A hook, the startup entry or the action: Herdr launches a run in the state
\* S of the Spaces, with or without a context.
Launched(r, S) ==
    /\ run[r].pc = "idle"
    /\ \E c \in Contexts(S) :
         run' = [run EXCEPT ![r] = Memory("launched", c, <<>>, 0)]
    /\ trusted' = (InFlight = {})

Ended(r) == run' = [run EXCEPT ![r] = Idle]

\* Some launches change nothing: Herdr emits redundant events.
Launch(r) ==
    /\ Launched(r, spaces)
    /\ UNCHANGED <<herdr, mode, file, changes, faults, edits, saved, windowEdit, pinGone>>

ComputeAnything(r) ==
    /\ run[r].pc = "launched"
    /\ run' = [run EXCEPT ![r] =
          Memory("read", NoContext, ComputeFolders(Reduced(run[r].context)), 0)]
    /\ UNCHANGED trusted
    /\ UNCHANGED <<herdr, mode, file, changes, faults, edits, saved, windowEdit, pinGone>>

\* run_sync up to the folders: the file must exist, then the snapshot is
\* read.  An empty list ends the run: it would blank the explorer.
Compute(r) ==
    LET entries == ComputeFolders(Reduced(run[r].context))
    IN  /\ run[r].pc = "launched"
        /\ IF ~file.exists \/ entries = <<>>
           THEN /\ Ended(r)
                /\ trusted' = (trusted /\ file.exists)
           ELSE /\ run' = [run EXCEPT ![r] = Memory("read", NoContext, entries, 0)]
                /\ UNCHANGED trusted
        /\ UNCHANGED <<herdr, mode, file, changes, faults, edits, saved, windowEdit, pinGone>>

\* sync_file: the text is read, compared, and written to a temporary file, up
\* to os.replace.  A file that went away or whose root is no object raises
\* through main().
ReadFile(r) ==
    /\ run[r].pc = "read"
    /\ IF ~file.exists \/ file.folders = NoRoot
       THEN Ended(r) /\ trusted' = FALSE
       ELSE IF IsUnchanged(file.folders, run[r].entries)
       THEN Ended(r) /\ UNCHANGED trusted
       ELSE /\ run' = [run EXCEPT ![r] =
                  Memory("replace", NoContext, run[r].entries, file.rest)]
            /\ UNCHANGED trusted
    /\ UNCHANGED <<herdr, mode, file, changes, faults, edits, saved, windowEdit, pinGone>>

\* os.replace: whatever the file is by now.
Replace(r) ==
    /\ run[r].pc = "replace"
    /\ file' = Spliced(run[r].entries, run[r].rest)
    /\ Ended(r)
    /\ UNCHANGED <<herdr, mode, changes, faults, edits, history>>

\* The snapshot cannot be read (HerdrError), the write raises, or the run is
\* killed: the file is as it was, and nobody tries again.
Fail(r) ==
    /\ faults < MaxFaults
    /\ run[r].pc # "idle"
    /\ Ended(r)
    /\ trusted' = FALSE
    /\ faults' = faults + 1
    /\ UNCHANGED <<herdr, mode, file, changes, edits, saved, windowEdit, pinGone>>

----------------------------------------------------------------------------
(* The user, in Herdr and in VS Code.                                      *)

Changed ==
    /\ changes < MaxChanges
    /\ changes' = changes + 1
    /\ pinGone' = (pinGone \/ (Pinned # <<>> /\ Pinned[1] \notin dirs'))
    /\ UNCHANGED <<mode, file, faults, edits, saved, windowEdit>>

\* A change fires a hook; the event can also be missed.
SpacesChange ==
    /\ EventfulChange
    /\ \/ \E r \in Runs : Launched(r, spaces')
       \/ trusted' = FALSE /\ UNCHANGED run
    /\ Changed

QuietChange ==
    /\ SilentChange
    /\ trusted' = FALSE
    /\ Changed
    /\ UNCHANGED run

\* A save of the file in VS Code.
Edited(f) ==
    /\ edits < MaxEdits
    /\ edits' = edits + 1
    /\ file' = f
    /\ saved' = Version(f)
    /\ windowEdit' = (windowEdit \/ \E r \in Runs : run[r].pc = "replace")
    /\ UNCHANGED <<herdr, mode, run, changes, faults, pinGone>>

EditRest ==
    /\ file.exists
    /\ Edited([file EXCEPT !.rest = edits'])
    /\ UNCHANGED trusted

\* "Add Folder to Workspace" writes a relative path at the end.
AddFolder(d) ==
    /\ file.exists /\ file.folders \notin {NoMember, NoRoot}
    /\ ~\E i \in DOMAIN file.folders : file.folders[i].path = d
    /\ Edited([exists |-> TRUE, folders |-> Append(file.folders,
                    [path |-> d, name |-> NoName, relative |-> TRUE]),
            rest |-> edits'])
    /\ trusted' = FALSE

DeleteFile ==
    /\ file.exists
    /\ Edited(NoFile)
    /\ trusted' = FALSE

RestoreFile ==
    /\ ~file.exists
    /\ Edited([exists |-> TRUE, folders |-> NoMember, rest |-> edits'])
    /\ trusted' = FALSE

UserEdits == EditRest \/ (\E d \in Dirs : AddFolder(d)) \/ DeleteFile \/ RestoreFile

Run(r) == Launch(r) \/ Compute(r) \/ ReadFile(r) \/ Replace(r) \/ Fail(r)

Next == (\E r \in Runs : Run(r)) \/ SpacesChange \/ QuietChange \/ UserEdits

Spec == Init /\ [][Next]_vars
----------------------------------------------------------------------------
(* Properties.                                                             *)

\* What the explorer should show, said of the paths and not of the list.
ChosenSpaces == {i \in DOMAIN spaces : mode = "mirror" \/ spaces[i].id = focused}
IsPinned(p) == \E i \in DOMAIN Pinned : Pinned[i] = p
Sources(p) == {i \in ChosenSpaces : spaces[i].path = p}
First(S) == CHOOSE i \in S : \A j \in S : i <= j
Rank(p) == IF IsPinned(p) THEN First({i \in DOMAIN Pinned : Pinned[i] = p})
                          ELSE Len(Pinned) + First(Sources(p))
Wanted == {d \in dirs : IsPinned(d) \/ Sources(d) # {}}

ShowsTheSpaces(folders) ==
    /\ {folders[i].path : i \in DOMAIN folders} = Wanted
    /\ \A i, j \in DOMAIN folders :
         i < j => Rank(folders[i].path) < Rank(folders[j].path)
    /\ \A i \in DOMAIN folders :
         LET p == folders[i].path
         IN  folders[i].name = IF IsPinned(p) THEN NoName
                               ELSE FolderName(spaces[First(Sources(p))].label, p)

\* The next event corrects the loser of a race (README.md, "Writing"): after
\* a run that started alone and saw no change, the file shows the Spaces,
\* whatever the races and kills before it left in the file.
NextRunCorrects ==
    trusted /\ InFlight = {} => Wanted = {} \/ ShowsTheSpaces(file.folders)

\* However runs race with each other and with changes, no run leaves an
\* empty list of folders: it would blank the explorer (main.py, run_sync).
ExplorerNeverBlank == file.exists => file.folders # <<>>

\* What the user saved last is in the file, unless the save fell between a
\* run's read and its os.replace (rewrite.py: every other member survives).
EditsLostOnlyInWindow ==
    ~windowEdit => Version(file) = saved

\* Once the first pinned folder is folders[0] it stays there as long as its
\* directory exists, so that no change of the Spaces restarts VS Code's
\* extension host (main.py, warn_unpinned_active).
IsAtIndexZero(f) ==
    /\ Pinned # <<>> /\ f.exists /\ f.folders \notin {NoMember, NoRoot, <<>>}
    /\ f.folders[1].path = Pinned[1]
PinStaysAtIndexZero ==
    [][IsAtIndexZero(file) /\ file'.exists /\ ~pinGone' => IsAtIndexZero(file')]_vars

\* A run that starts with the right folders in the file, and sees no change,
\* does not write, even when VS Code has spelled them as relative paths
\* (write.py, is_unchanged): the redundant runs are free.
RedundantRunsAreFree ==
    [][trusted /\ file.exists /\ file.folders \notin {NoMember, NoRoot}
         /\ ShowsTheSpaces(file.folders)
       => \A r \in Runs : run[r].pc = "read" => run'[r].pc # "replace"]_vars
=============================================================================
