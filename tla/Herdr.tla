-------------------------------- MODULE Herdr --------------------------------
(***************************************************************************)
(* The Spaces of one Herdr session, as the processes of                    *)
(* vscode-workspace-sync see and change them (vscode-workspace-sync/src/   *)
(* herdr.py), with the directories on disk that a Space or a folder names. *)
(*                                                                         *)
(* A Space's path is the cwd of its active pane: `cd` changes it and fires *)
(* no event.  Paths stand for resolved ones (folders.resolve_path).        *)
(***************************************************************************)
EXTENDS Integers, FiniteSets, SequencesExt

CONSTANTS
    Dirs,           \* the directories a Space or a folder can name
    Home,           \* $HOME, which always exists
    NoPath,         \* the path of a Space no pane of which reports a cwd
    Ids,            \* workspace ids; an id is never used again
    NoId,           \* no workspace: nothing focused, no hook context
    Labels,         \* labels that a user gives; a directory stands for its basename
    NoName          \* the label Herdr derives from the basename of the path

ASSUME HerdrAssumption ==
    Home \in Dirs /\ NoPath \notin Dirs /\ NoId \notin Ids /\ NoName \notin Labels

VARIABLES
    spaces,         \* the workspaces in sidebar order: [id, label, path]
    focused,        \* focused_workspace_id
    dirs,           \* the directories that exist
    spent           \* the ids used so far

herdr == <<spaces, focused, dirs, spent>>

NoContext == [id |-> NoId, cwd |-> NoPath]

Open(S) == {S[i].id : i \in DOMAIN S}
IsDir(d) == d \in dirs

----------------------------------------------------------------------------
(* What a process reads. *)

\* reduce_snapshot: the context's cwd wins for the Space it names.  It was
\* put in the environment when the process was launched.
Reduced(context) ==
    [i \in DOMAIN spaces |->
        IF context.id = spaces[i].id /\ context.cwd # NoPath
        THEN [spaces[i] EXCEPT !.path = context.cwd]
        ELSE spaces[i]]

\* HERDR_PLUGIN_CONTEXT_JSON of a process launched when the Spaces are S.
Contexts(S) ==
    {NoContext} \cup {[id |-> S[i].id, cwd |-> S[i].path] : i \in DOMAIN S}

----------------------------------------------------------------------------
(* What Herdr does with a call, from a user or from adopt.py.              *)

\* workspace create: no check for a Space with the same path; a directory
\* that does not exist roots the Space at $HOME, without an error.
NewSpace(id, dir, label) ==
    /\ id \in Ids \ spent
    /\ spaces' = Append(spaces, [id |-> id, label |-> label,
                                 path |-> IF IsDir(dir) THEN dir ELSE Home])
    /\ spent' = spent \cup {id}
    /\ UNCHANGED <<focused, dirs>>

CloseSpace(id) ==
    /\ \E i \in DOMAIN spaces : spaces[i].id = id /\ spaces' = RemoveAt(spaces, i)
    /\ focused' \in IF focused = id THEN Open(spaces') \cup {NoId} ELSE {focused}
    /\ UNCHANGED <<dirs, spent>>

RenameSpace(id, label) ==
    /\ id \in Open(spaces)
    /\ spaces' = [i \in DOMAIN spaces |->
                    IF spaces[i].id = id THEN [spaces[i] EXCEPT !.label = label]
                                         ELSE spaces[i]]
    /\ UNCHANGED <<focused, dirs, spent>>

MoveToFront(i) ==
    /\ i \in DOMAIN spaces /\ i > 1
    /\ spaces' = <<spaces[i]>> \o RemoveAt(spaces, i)
    /\ UNCHANGED <<focused, dirs, spent>>

FocusSpace(id) ==
    /\ id \in Open(spaces) /\ id # focused
    /\ focused' = id
    /\ UNCHANGED <<spaces, dirs, spent>>

Cd(id, path) ==
    /\ id \in Open(spaces)
    /\ path \in dirs \cup {NoPath}
    /\ spaces' = [i \in DOMAIN spaces |->
                    IF spaces[i].id = id THEN [spaces[i] EXCEPT !.path = path]
                                         ELSE spaces[i]]
    /\ UNCHANGED <<focused, dirs, spent>>

DirsChange(d) ==
    /\ d \in Dirs \ {Home}
    /\ dirs' = IF d \in dirs THEN dirs \ {d} ELSE dirs \cup {d}
    /\ UNCHANGED <<spaces, focused, spent>>

\* What a user does that fires one of the hooked workspace events.
EventfulChange ==
    \/ \E id \in Ids, d \in dirs, l \in Labels \cup {NoName} : NewSpace(id, d, l)
    \/ \E id \in Ids : CloseSpace(id) \/ FocusSpace(id)
    \/ \E id \in Ids, l \in Labels : RenameSpace(id, l)
    \/ \E i \in DOMAIN spaces : MoveToFront(i)

\* What changes the desired folders and fires nothing.
SilentChange ==
    \/ \E id \in Ids, p \in Dirs \cup {NoPath} : Cd(id, p)
    \/ \E d \in Dirs : DirsChange(d)
=============================================================================
