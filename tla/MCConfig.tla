------------------------------ MODULE MCConfig ------------------------------
(***************************************************************************)
(* Config with three sessions, one of them named `sessions`, two entries,  *)
(* and two files, one of which has a link to it.                           *)
(***************************************************************************)
EXTENDS Config

CONSTANTS f1, f2, link, pin

MCRealPath(f) == IF f = link THEN f1 ELSE f

MCSockets == {<<"herdr.sock">>, <<"sessions", "probe", "herdr.sock">>,
              <<"sessions", "sessions", "herdr.sock">>}

MCOverrides == {Absent, f2}

Entry(file, mode, pins) ==
    [workspaceFile |-> file, mode |-> mode, pinnedFolders |-> pins]

EntryValues == {
    Malformed, Entry(Absent, "active", Absent),
    Entry(f1, "other", Absent), Entry(f1, Absent, Malformed),
    Entry(f1, Absent, Absent), Entry(link, "active", Absent), Entry(f2, Absent, <<>>)}

SessionMaps ==
    UNION {[names -> EntryValues] :
              names \in {{}, {"default"}, {"probe"}, {"sessions"}, {"default", "probe"}}}

MCConfigs ==
    {Missing, Unreadable} \cup
    [workspaceFile : {Absent, Malformed, f1, f2},
     mode : {Absent, "active", "other"},
     pinnedFolders : {Absent, Malformed, <<pin>>},
     sessions : {Absent, Malformed} \cup SessionMaps]
==============================================================================
