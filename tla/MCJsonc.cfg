\* Workspace files with up to two members, spliced by any number of runs.
SPECIFICATION Spec
CONSTANTS
    Characters <- MCCharacters
    Documents <- MCDocuments
    FolderLists <- MCFolderLists
INVARIANTS
    OnlyFoldersChange
    LoadsAsJson
