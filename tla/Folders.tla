------------------------------ MODULE Folders ------------------------------
(***************************************************************************)
(* DocumentFoldersService: the trees of folders of the projects and of the   *)
(* company.                                                                 *)
(*                                                                         *)
(* A folder is changed in a SERIALIZABLE transaction that takes the advisory *)
(* lock of its project first: it is one action, which may also fail.  A      *)
(* folder never changes its project, so that what is read before the         *)
(* transaction is read again in it.                                          *)
(***************************************************************************)
EXTENDS Handlers

CONSTANTS
    Folders,        \* ids of rows of document_folders
    Names,          \* of folders, trimmed and in lower case
    Projects        \* Null stands for the company

VARIABLES
    folders,        \* rows of document_folders
    docs            \* rows of documents

Scopes == Projects \cup {Null}

FolderRows == [parent: Folders \cup {Null}, name: Names, project: Scopes]

ASSUME FoldersAssumption ==
    IsFiniteSet(Folders) /\ Folders \subseteq Nat /\ Null \notin Folders \cup FolderRows

Exists(f)      == f \in Folders /\ folders[f] # Null
Children(f)    == {g \in Folders : Exists(g) /\ folders[g].parent = f}
Filed(d, f)    == docs[d] # Null /\ docs[d].folder = f
NextFolder     == {f \in Folders : ~Exists(f) /\ \A g \in Folders : g < f => Exists(g)}

\* The folders one folder is in, itself included.
Ancestors(f) ==
    LET up[n \in 0..Cardinality(Folders)] ==
          IF n = 0 THEN {f}
          ELSE up[n - 1] \cup {folders[g].parent : g \in {h \in up[n - 1] : Exists(h)}}
    IN  up[Cardinality(Folders)] \ {Null}

\* Unique among the folders with the same parent and scope.
NameFree(name, scope, parent, but) ==
    \A g \in Folders \ {but} :
        Exists(g) /\ folders[g].parent = parent /\ folders[g].project = scope => folders[g].name # name

Holds(parent, scope) == parent = Null \/ (Exists(parent) /\ folders[parent].project = scope)

----------------------------------------------------------------------------
CreateFolder(c) ==
    /\ At(c, "createFolder")
    /\ LET q == Req(c)
       IN  IF Holds(q.parent, q.project) /\ NameFree(q.name, q.project, q.parent, Null)
           THEN \E f \in NextFolder : folders' = [folders EXCEPT ![f] =
                    [parent |-> q.parent, name |-> q.name, project |-> q.project]]
           ELSE UNCHANGED folders
    /\ Answer(c)
    /\ UNCHANGED docs

RenameFolder(c) ==
    /\ At(c, "renameFolder")
    /\ LET f == Req(c).folder
       IN  IF Exists(f) /\ NameFree(Req(c).name, folders[f].project, folders[f].parent, f)
           THEN folders' = [folders EXCEPT ![f].name = Req(c).name] ELSE UNCHANGED folders
    /\ Answer(c)
    /\ UNCHANGED docs

\* Faulty variant: a folder is only kept from being its own parent.
MayBeMovedAnywhere(f, parent) ==
    /\ f # parent
    /\ Holds(parent, folders[f].project)
    /\ NameFree(folders[f].name, folders[f].project, parent, f)

\* Not into itself or one of its descendants.
MayBeMoved(f, parent) ==
    /\ parent # Null => f \notin Ancestors(parent)
    /\ Holds(parent, folders[f].project)
    /\ NameFree(folders[f].name, folders[f].project, parent, f)

MoveFolder(c) ==
    /\ At(c, "moveFolder")
    /\ LET f == Req(c).folder
       IN  IF Exists(f) /\ MayBeMoved(f, Req(c).parent)
           THEN folders' = [folders EXCEPT ![f].parent = Req(c).parent] ELSE UNCHANGED folders
    /\ Answer(c)
    /\ UNCHANGED docs

\* Only an empty folder; an archived document still occupies it.
DeleteFolder(c) ==
    /\ At(c, "deleteFolder")
    /\ LET f == Req(c).folder
       IN  IF Exists(f) /\ Children(f) = {} /\ \A d \in DOMAIN docs : ~Filed(d, f)
           THEN folders' = [folders EXCEPT ![f] = Null] ELSE UNCHANGED folders
    /\ Answer(c)
    /\ UNCHANGED docs

FoldersStep(c) == CreateFolder(c) \/ RenameFolder(c) \/ MoveFolder(c) \/ DeleteFolder(c)

FolderRequest(q) ==
    /\ q.kind \in {"createFolder", "renameFolder", "moveFolder", "deleteFolder"}
    /\ q.folder \in Folders \cup {Null} /\ q.parent \in Folders \cup {Null}
    /\ q.name \in Names /\ q.project \in Scopes

FoldersTypeOK == folders \in [Folders -> FolderRows \cup {Null}]
=============================================================================
