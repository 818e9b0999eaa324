-------------------------------- MODULE Adopt --------------------------------
(***************************************************************************)
(* vscode-workspace-sync/src/adopt.py: a run creates Spaces from the       *)
(* folders of a workspace file.  It plans against one snapshot and then    *)
(* creates and renames with one call of Herdr at a time, while the user    *)
(* and other runs change the same Spaces.                                  *)
(***************************************************************************)
EXTENDS Herdr

CONSTANTS
    Adopters,       \* the runs that can be in flight at once
    Folders,        \* the file's folders: [path, name], or Unusable
    Unusable,       \* an entry without a path, or with a ${variable} in it
    MaxChanges,     \* bound: changes made by the user
    MaxFaults       \* bound: calls that fail, runs that are killed

ASSUME AdoptAssumption ==
    /\ Folders \in Seq([path : Dirs, name : Labels \cup {NoName}] \cup {Unusable})
    /\ MaxChanges \in Nat /\ MaxFaults \in Nat

VARIABLES
    managed,        \* whether the session has a workspaceFile of its own
    job,            \* the memory of each run
    changes, faults, \* the changes and the faults so far
    disturbed,      \* history: the runs that somebody else's change overlapped
    fromEmpty       \* history: the runs whose snapshot had no Space

vars == <<herdr, managed, job, changes, faults, disturbed, fromEmpty>>

NoJob == [pc |-> "idle", context |-> NoContext, relabel |-> FALSE, failed |-> FALSE,
          creates |-> <<>>, renames |-> <<>>]
InFlight == {a \in Adopters : job[a].pc # "idle"}

----------------------------------------------------------------------------
(* Planning                                                                *)

\* read_folders: unusable entries and repeated paths are dropped.
Refs ==
    FoldLeft(LAMBDA rs, f : IF f = Unusable \/ \E i \in DOMAIN rs : rs[i].path = f.path
                            THEN rs ELSE Append(rs, f),
             <<>>, Folders)

\* by_path: the first Space of a path, if any.
SpacesAt(S, path) == {i \in DOMAIN S : S[i].path = path}
FirstAt(S, path) == S[CHOOSE i \in SpacesAt(S, path) : \A j \in SpacesAt(S, path) : i <= j]

\* The label a snapshot gives: Herdr's own one is the basename.
LabelOf(s) == IF s.label = NoName THEN s.path ELSE s.label

CreatesUncovered(S) ==
    FoldLeft(LAMBDA cs, f : IF SpacesAt(S, f.path) = {} THEN Append(cs, f) ELSE cs, <<>>, Refs)
CreatesReversed(S) ==
    FoldLeft(LAMBDA cs, f : IF IsDir(f.path) /\ SpacesAt(S, f.path) = {}
                            THEN <<f>> \o cs ELSE cs,
             <<>>, Refs)

\* plan_adoption: what to create, in file order.
Creates(S) ==
    FoldLeft(LAMBDA cs, f : IF IsDir(f.path) /\ SpacesAt(S, f.path) = {}
                            THEN Append(cs, f) ELSE cs,
             <<>>, Refs)

\* A folder whose Space has another label than the file's name for it.
Mislabelled(S, f) ==
    /\ IsDir(f.path) /\ SpacesAt(S, f.path) # {}
    /\ f.name # NoName /\ LabelOf(FirstAt(S, f.path)) # f.name
RenameTo(S, f) == [id |-> FirstAt(S, f.path).id, label |-> f.name]

RenamesAlways(S, relabel) ==
    FoldLeft(LAMBDA rs, f : IF Mislabelled(S, f) THEN Append(rs, RenameTo(S, f)) ELSE rs,
             <<>>, Refs)

\* plan_adoption: what to rename, in file order.
Renames(S, relabel) ==
    FoldLeft(LAMBDA rs, f : IF relabel /\ Mislabelled(S, f)
                            THEN Append(rs, RenameTo(S, f)) ELSE rs,
             <<>>, Refs)

----------------------------------------------------------------------------
(* A run                                                                   *)

Init ==
    /\ \E n \in 0 .. 1, id \in Ids, d \in Dirs :
         spaces = IF n = 0 THEN <<>> ELSE <<[id |-> id, label |-> NoName, path |-> d]>>
    /\ focused \in {NoId} \cup Open(spaces)
    /\ spent = Open(spaces)
    /\ dirs \in {D \in SUBSET Dirs : Home \in D}
    /\ managed \in BOOLEAN
    /\ job = [a \in Adopters |-> NoJob]
    /\ changes = 0 /\ faults = 0
    /\ disturbed = {} /\ fromEmpty = {}

\* guard() lets the run pass; the directory has one workspace file.
Admitted == ~managed

\* main(): a session that sync manages is refused; else the file is read.  A
\* run from the action has a context and takes no flag; one from the command
\* line has no context.
Start(a) ==
    /\ job[a].pc = "idle"
    /\ Admitted
    /\ \E c \in Contexts(spaces), relabel \in BOOLEAN :
         /\ relabel => c = NoContext
         /\ job' = [job EXCEPT ![a] = [NoJob EXCEPT !.pc = "planning", !.context = c,
                                                    !.relabel = relabel]]
    /\ disturbed' = disturbed \ {a}
    /\ UNCHANGED <<herdr, managed, changes, faults, fromEmpty>>

\* load_spaces and plan_adoption; nothing to do ends the run.
Plan(a) ==
    LET S == Reduced(job[a].context)
        creates == Creates(S)
        renames == Renames(S, job[a].relabel)
    IN  /\ job[a].pc = "planning"
        /\ job' = [job EXCEPT ![a] =
             [NoJob EXCEPT !.pc = "executing", !.relabel = job[a].relabel,
                           !.creates = creates, !.renames = renames]]
        /\ fromEmpty' = IF S = <<>> THEN fromEmpty \cup {a} ELSE fromEmpty \ {a}
        /\ UNCHANGED <<herdr, managed, changes, faults, disturbed>>

\* Others in flight planned against other Spaces than there are now.
Disturbs(a) == disturbed' = disturbed \cup (InFlight \ {a})

Created(a, failed) ==
    job' = [job EXCEPT ![a].creates = Tail(@), ![a].failed = @ \/ failed]
Renamed(a, failed) ==
    job' = [job EXCEPT ![a].renames = Tail(@), ![a].failed = @ \/ failed]

\* execute: the next workspace create.
Create(a) ==
    /\ job[a].pc = "executing" /\ job[a].creates # <<>>
    /\ \E id \in Ids : NewSpace(id, Head(job[a].creates).path, Head(job[a].creates).name)
    /\ \/ Created(a, FALSE) /\ UNCHANGED faults
       \/ \* the answer is lost or unusable: a failure, though the Space is there
          /\ faults < MaxFaults /\ faults' = faults + 1
          /\ Created(a, TRUE)
    /\ Disturbs(a)
    /\ UNCHANGED <<managed, changes, fromEmpty>>

CreateFailsSilently(a) ==
    /\ job[a].pc = "executing" /\ job[a].creates # <<>>
    /\ \/ faults < MaxFaults /\ faults' = faults + 1
       \/ spent = Ids /\ UNCHANGED faults
    /\ Created(a, FALSE)
    /\ UNCHANGED <<herdr, managed, changes, disturbed, fromEmpty>>

\* The call fails: the run goes on with the next folder.
CreateFails(a) ==
    /\ job[a].pc = "executing" /\ job[a].creates # <<>>
    /\ \/ faults < MaxFaults /\ faults' = faults + 1
       \/ spent = Ids /\ UNCHANGED faults
    /\ Created(a, TRUE)
    /\ UNCHANGED <<herdr, managed, changes, disturbed, fromEmpty>>

\* The renames come after all creates; a Space that is gone is a failure.
RenameNext(a) ==
    /\ job[a].pc = "executing" /\ job[a].creates = <<>> /\ job[a].renames # <<>>
    /\ LET r == Head(job[a].renames)
       IN  \/ RenameSpace(r.id, r.label) /\ Renamed(a, FALSE) /\ Disturbs(a)
             /\ UNCHANGED faults
           \/ /\ \/ r.id \notin Open(spaces) /\ UNCHANGED faults
                 \/ faults < MaxFaults /\ faults' = faults + 1
              /\ Renamed(a, TRUE)
              /\ UNCHANGED <<herdr, disturbed>>
    /\ UNCHANGED <<managed, changes, fromEmpty>>

Finish(a) ==
    /\ job[a].pc = "executing" /\ job[a].creates = <<>> /\ job[a].renames = <<>>
    /\ job' = [job EXCEPT ![a] = NoJob]
    /\ UNCHANGED <<herdr, managed, changes, faults, disturbed, fromEmpty>>

\* The snapshot cannot be read, or the run is killed.
Aborts(a) ==
    /\ faults < MaxFaults
    /\ a \in InFlight
    /\ job' = [job EXCEPT ![a] = NoJob]
    /\ faults' = faults + 1
    /\ UNCHANGED <<herdr, managed, changes, disturbed, fromEmpty>>

UserChange ==
    /\ changes < MaxChanges
    /\ EventfulChange \/ SilentChange
    /\ changes' = changes + 1
    /\ disturbed' = disturbed \cup InFlight
    /\ UNCHANGED <<managed, job, faults, fromEmpty>>

Adopt(a) == \/ Start(a) \/ Plan(a) \/ Create(a) \/ CreateFails(a)
            \/ RenameNext(a) \/ Finish(a) \/ Aborts(a)

Next == (\E a \in Adopters : Adopt(a)) \/ UserChange

Spec == Init /\ [][Next]_vars
----------------------------------------------------------------------------
(* Properties.  A run is undisturbed when nobody else changed a Space or a *)
(* directory since it was launched: Herdr offers no way to plan and create *)
(* in one step.                                                            *)

Completes(a) == Finish(a) /\ ~job[a].failed /\ a \notin disturbed

\* A run that exits 0 undisturbed leaves a Space for each folder that exists,
\* with the file's name when asked to relabel, after any number of earlier runs
\* that failed, were killed or lost an answer (adopt.py, execute).
AdoptedAllFolders ==
    [][\A a \in Adopters : Completes(a) =>
         \A i \in DOMAIN Refs : IsDir(Refs[i].path) =>
            /\ SpacesAt(spaces, Refs[i].path) # {}
            /\ job[a].relabel /\ Refs[i].name # NoName =>
                 LabelOf(FirstAt(spaces, Refs[i].path)) = Refs[i].name]_vars

\* An undisturbed run never makes a second Space for a directory, nor one at
\* $HOME for a directory that is not there: Herdr does both without an error
\* (herdr.py, the note on mutating calls).
OneSpacePerFolder ==
    [][\A a \in Adopters \ disturbed :
         job[a].creates # <<>> /\ spaces' # spaces /\ job'[a].creates = Tail(job[a].creates)
           => LET path == Head(job[a].creates).path
              IN  SpacesAt(spaces, path) = {} /\ Last(spaces').path = path]_vars

\* The place of a folder in the file.
Place(path) == CHOOSE i \in DOMAIN Refs : Refs[i].path = path
ExistingFolders == {i \in DOMAIN Refs : IsDir(Refs[i].path)}

\* Started in a session without Spaces, an undisturbed run that exits 0 leaves
\* one Space for each folder that exists, in the order of the file (README.md,
\* "What adopt does").
SidebarMatchesFile ==
    [][\A a \in fromEmpty : Completes(a) =>
         /\ {spaces[i].path : i \in DOMAIN spaces} = {Refs[i].path : i \in ExistingFolders}
         /\ \A i, j \in DOMAIN spaces :
              i < j => Place(spaces[i].path) < Place(spaces[j].path)]_vars

\* A run only ever adds: the Spaces that are there keep their place and their
\* directory, and a label only changes under --relabel, to a name from the file.
OnlyAdds ==
    [][\A a \in Adopters : job'[a] # job[a] =>
         /\ Len(spaces) <= Len(spaces')
         /\ \A i \in DOMAIN spaces :
              /\ spaces'[i].id = spaces[i].id /\ spaces'[i].path = spaces[i].path
              /\ spaces'[i].label # spaces[i].label =>
                   /\ job[a].relabel
                   /\ \E j \in DOMAIN Refs : /\ Refs[j].name = spaces'[i].label
                                            /\ a \notin disturbed =>
                                                 Refs[j].path = spaces[i].path]_vars
=============================================================================
