----------------------------- MODULE Documents -----------------------------
(***************************************************************************)
(* DocumentsService, UploadService, AttachmentsService: a file is kept in    *)
(* the storage, which is not the database, before its document or version is *)
(* written, and taken out again when that fails.                             *)
(*                                                                         *)
(* Everybody here may see and change every document.  Titles, codes and      *)
(* types are left out.                                                       *)
(***************************************************************************)
EXTENDS Folders, Sequences

CONSTANTS
    Docs,           \* ids of rows of documents
    Contents,       \* what a file may hold: its checksum
    MaxBlobs,       \* files stored in a behaviour
    Attachments,    \* ids of rows of attachments
    FirstFolders

VARIABLES
    versions,       \* rows of document_versions
    attachments,    \* rows of attachments
    blobs,          \* of every file ever stored: whether it is still there
    mishaps         \* files whose writer died, heard of no commit, got an error from a storage
                    \* that had kept something, or could not remove them

fileVars == <<versions, attachments, blobs, mishaps>>
vars     == <<handlers, folders, docs, fileVars>>

DocumentRows == [project: Scopes, folder: Folders \cup {Null}, archived: BOOLEAN,
                 version: 1..MaxBlobs, path: 1..MaxBlobs]

\* project is the one the request that attached it was let into, target that of the work
\* it is attached to; checked, that the two were compared.
AttachmentRows == [doc: Docs, ref: (1..MaxBlobs) \cup {Null}, project: Scopes, target: Scopes, checked: BOOLEAN]

\* What the link of a request is to: the work of a project, which is compared with the
\* request's unless an administrator attaches, or an upload names anything but an expense.
LinkRequest(q) == q.target \in Scopes /\ q.checked \in BOOLEAN /\ <<"links">> \in q.on

\* A request names rows that may not exist, and says which others it is about.
DocumentRequest(q) ==
    \/ /\ q.kind = "upload" /\ q.project \in Scopes /\ q.folder \in Folders \cup {Null}
       /\ q.content \in Contents /\ {q.unique, q.link} \subseteq BOOLEAN /\ (q.link => LinkRequest(q))
    \/ /\ q.kind = "addVersion" /\ q.doc \in Docs /\ q.content \in Contents /\ q.unique \in BOOLEAN
       /\ <<"doc", q.doc>> \in q.on
    \/ q.kind \in {"archive", "restore"} /\ q.doc \in Docs /\ <<"doc", q.doc>> \in q.on
    \/ q.kind = "file" /\ q.doc \in Docs /\ q.folder \in Folders \cup {Null}
    \/ q.kind = "reassign" /\ q.doc \in Docs /\ q.project \in Projects
       /\ {<<"doc", q.doc>>, <<"links">>} \subseteq q.on
    \/ q.kind = "attach" /\ q.doc \in Docs /\ q.project \in Projects /\ LinkRequest(q)
    \/ q.kind = "detach" /\ q.attachment \in Attachments

ASSUME DocumentsAssumption ==
    /\ Null \notin Docs \cup DocumentRows \cup AttachmentRows
    /\ MaxBlobs \in Nat

\* The folders there are at the start have no parent: any other tree is made of them.
ASSUME FirstFoldersAssumption ==
    /\ FirstFolders \in [Folders -> FolderRows \cup {Null}]
    /\ \A f \in Folders : FirstFolders[f] # Null => FirstFolders[f].parent = Null
    /\ \A f, g \in Folders : f # g /\ FirstFolders[f] # Null /\ FirstFolders[g] # Null
          => FirstFolders[f].name # FirstFolders[g].name \/ FirstFolders[f].project # FirstFolders[g].project

ASSUME RequestsAssumption ==
    \A w \in Workloads : \A q \in w : FolderRequest(q) \/ DocumentRequest(q)

Created(d)     == d \in Docs /\ docs[d] # Null
NextDoc        == {d \in Docs : ~Created(d) /\ \A e \in Docs : e < d => Created(e)}
VersionsOf(d)  == {v \in versions : v.doc = d}
Referenced(b)  == \E v \in versions : v.path = b
Carries(d, x)  == \E v \in VersionsOf(d) : v.content = x
Fits(f, scope) == f = Null \/ (Exists(f) /\ folders[f].project = scope)

\* assertTargetInProject; uploadFile, of an expense.
TargetAllowed(q) == q.checked => q.target = q.project

----------------------------------------------------------------------------
(* createFromUpload, uploadFile, addVersionFromUpload *)

\* The folder must be one of the project, the same file not be there already, unless the
\* request, or the other endpoint, does not mind, and what is linked be allowed.
Upload(c) ==
    /\ At(c, "upload")
    /\ IF Fits(Req(c).folder, Req(c).project)
          /\ (Req(c).unique => \A d \in Docs : ~Carries(d, Req(c).content))
          /\ (Req(c).link => TargetAllowed(Req(c)))
       THEN Goto(c, "store", [doc |-> Null]) ELSE Answer(c)
    /\ UNCHANGED <<folders, docs, fileVars>>

\* Of an archived document there is no new version, nor one with a file it has already.
AddVersion(c) ==
    /\ At(c, "addVersion")
    /\ LET d == Req(c).doc
       IN  IF Created(d) /\ ~docs[d].archived /\ (Req(c).unique => ~Carries(d, Req(c).content))
           THEN Goto(c, "store", [doc |-> d]) ELSE Answer(c)
    /\ UNCHANGED <<folders, docs, fileVars>>

\* storage.save, under a new key.  It may keep the file, or a part of it, and throw: nothing
\* takes that out again.
Store(c) ==
    /\ At(c, "store") /\ Len(blobs) < MaxBlobs
    /\ blobs' = Append(blobs, TRUE)
    /\ \/ /\ Goto(c, IF Seen(c).doc = Null THEN "insert" ELSE "number",
                     [doc |-> Seen(c).doc, path |-> Len(blobs) + 1])
          /\ UNCHANGED mishaps
       \/ Answer(c) /\ mishaps' = mishaps \cup {Len(blobs) + 1}
    /\ UNCHANGED <<folders, docs, versions, attachments>>

Version(d, n, c) == [doc |-> d, n |-> n, path |-> Seen(c).path, content |-> Req(c).content]

\* A write is answered with success, or with the error of a commit whose answer was lost.
Commits(c, success) ==
    \/ success /\ UNCHANGED mishaps
    \/ Goto(c, "cleanup", Seen(c)) /\ mishaps' = mishaps \cup {Seen(c).path}

Fails(c) == Goto(c, "cleanup", Seen(c)) /\ UNCHANGED <<docs, versions, mishaps>>

\* The document and its first version, in one statement: the foreign key and the trigger
\* on the folder have the last word.
InsertDocument(c) ==
    /\ At(c, "insert")
    /\ \/ Fails(c)
       \/ /\ Fits(Req(c).folder, Req(c).project)
          /\ \E d \in NextDoc :
                /\ docs' = [docs EXCEPT ![d] = [project |-> Req(c).project, folder |-> Req(c).folder,
                               archived |-> FALSE, version |-> 1, path |-> Seen(c).path]]
                /\ versions' = versions \cup {Version(d, 1, c)}
                /\ Commits(c, IF Req(c).link THEN Goto(c, "link", [doc |-> d, path |-> Seen(c).path])
                              ELSE Answer(c))
    /\ UNCHANGED <<folders, attachments, blobs>>

Linked(doc, ref, q) == [doc |-> doc, ref |-> ref, project |-> q.project, target |-> q.target, checked |-> q.checked]

\* uploadFile attaches the new document to what the request names, if it can.
Link(c) ==
    /\ At(c, "link")
    /\ \/ UNCHANGED attachments
       \/ \E a \in Attachments :
             /\ attachments[a] = Null
             /\ attachments' = [attachments EXCEPT ![a] = Linked(Seen(c).doc, Seen(c).path, Req(c))]
    /\ Answer(c)
    /\ UNCHANGED <<folders, docs, versions, blobs, mishaps>>

\* addVersion reads the number before the transaction.
NumberVersion(c) ==
    /\ At(c, "number")
    /\ Goto(c, "append", [doc |-> Seen(c).doc, path |-> Seen(c).path, n |-> docs[Seen(c).doc].version + 1])
    /\ UNCHANGED <<folders, docs, fileVars>>

WriteVersion(c) ==
    LET d == Seen(c).doc  n == Seen(c).n
    IN  /\ versions' = versions \cup {Version(d, n, c)}
        /\ docs' = [docs EXCEPT ![d].version = n, ![d].path = Seen(c).path]
        /\ Commits(c, Answer(c))

\* Faulty variant: the numbers of a document are not unique.
AppendVersionUnindexed(c) ==
    /\ At(c, "append")
    /\ Fails(c) \/ WriteVersion(c)
    /\ UNCHANGED <<folders, attachments, blobs>>

\* The version and the document, in one transaction: the unique index refuses a number
\* that another request has written meanwhile.
AppendVersion(c) ==
    /\ At(c, "append")
    /\ \/ Fails(c)
       \/ (\A v \in VersionsOf(Seen(c).doc) : v.n # Seen(c).n) /\ WriteVersion(c)
    /\ UNCHANGED <<folders, attachments, blobs>>

\* cleanupFailedUpload: the file is removed, or two attempts have failed.
CleanUp(c) ==
    /\ At(c, "cleanup")
    /\ \/ blobs' = [blobs EXCEPT ![Seen(c).path] = FALSE] /\ UNCHANGED mishaps
       \/ mishaps' = mishaps \cup {Seen(c).path} /\ UNCHANGED blobs
    /\ Answer(c)
    /\ UNCHANGED <<folders, docs, versions, attachments>>

----------------------------------------------------------------------------
(* updateMetadata, with another project *)

\* What an attachment of a document may name: its url, here Null, or one of its files.
\* Faulty variant: only the file of the latest version.
LatestPath(d) == {Null, docs[d].path}

Paths(d) == {Null} \cup {v.path : v \in VersionsOf(d)}

Reassign(c) ==
    /\ At(c, "reassign")
    /\ LET d == Req(c).doc
       IN  IF Created(d) /\ ~docs[d].archived /\ docs[d].project # Req(c).project
           THEN Goto(c, "countAttachments", [folder |-> docs[d].folder, refs |-> Paths(d)]) ELSE Answer(c)
    /\ UNCHANGED <<folders, docs, fileVars>>

\* Nothing may be attached, and the folder must be one of the destination.
CountAttachments(c) ==
    /\ At(c, "countAttachments")
    /\ LET linked == {a \in Attachments : /\ attachments[a] # Null /\ attachments[a].doc = Req(c).doc
                                          /\ attachments[a].ref \in Seen(c).refs}
       IN  IF linked = {} /\ Fits(Seen(c).folder, Req(c).project) THEN Goto(c, "own", Null) ELSE Answer(c)
    /\ UNCHANGED <<folders, docs, fileVars>>

\* Faulty variant: there is no trigger.
OwnUnguarded(c) ==
    /\ At(c, "own")
    /\ docs' = [docs EXCEPT ![Req(c).doc].project = Req(c).project]
    /\ Answer(c)
    /\ UNCHANGED <<folders, fileVars>>

\* UPDATE by id; the trigger compares the project with that of the folder the document is
\* in by now.
Own(c) ==
    /\ At(c, "own")
    /\ docs' = IF Fits(docs[Req(c).doc].folder, Req(c).project)
               THEN [docs EXCEPT ![Req(c).doc].project = Req(c).project] ELSE docs
    /\ Answer(c)
    /\ UNCHANGED <<folders, fileVars>>

----------------------------------------------------------------------------
(* archive, restore, moveToFolder *)

SetArchived(c, step, archived) ==
    /\ At(c, step)
    /\ docs' = IF Created(Req(c).doc) THEN [docs EXCEPT ![Req(c).doc].archived = archived] ELSE docs
    /\ Answer(c)
    /\ UNCHANGED <<folders, fileVars>>

\* Faulty variant: a restored document is archived neither way.
RestoreToNull(c) == SetArchived(c, "restore", Null)

Archive(c) == SetArchived(c, "archive", TRUE)
Restore(c) == SetArchived(c, "restore", FALSE)

File(c) ==
    /\ At(c, "file")
    /\ LET d == Req(c).doc
       IN  IF Created(d) /\ docs[d].folder # Req(c).folder
           THEN Goto(c, "refile", [project |-> docs[d].project, folder |-> docs[d].folder]) ELSE Answer(c)
    /\ UNCHANGED <<folders, docs, fileVars>>

\* Faulty variant: the transaction does not ask again whether the document is archived.
RefileAnyway(c) ==
    /\ At(c, "refile")
    /\ LET d == Req(c).doc
       IN  docs' = IF /\ [project |-> docs[d].project, folder |-> docs[d].folder] = Seen(c)
                      /\ Fits(Req(c).folder, docs[d].project)
                   THEN [docs EXCEPT ![d].folder = Req(c).folder] ELSE docs
    /\ Answer(c)
    /\ UNCHANGED <<folders, fileVars>>

\* The SERIALIZABLE transaction: the document is where it was, and not archived.
Refile(c) ==
    /\ At(c, "refile")
    /\ LET d == Req(c).doc
       IN  docs' = IF /\ [project |-> docs[d].project, folder |-> docs[d].folder] = Seen(c)
                      /\ ~docs[d].archived
                      /\ Fits(Req(c).folder, docs[d].project)
                   THEN [docs EXCEPT ![d].folder = Req(c).folder] ELSE docs
    /\ Answer(c)
    /\ UNCHANGED <<folders, fileVars>>

----------------------------------------------------------------------------
(* AttachmentsService *)

\* A document of another project is refused, one of the company is not; what it is
\* attached to must be of the project too, unless an administrator asks.
Attach(c) ==
    /\ At(c, "attach")
    /\ LET d == Req(c).doc
       IN  IF TargetAllowed(Req(c)) /\ Created(d) /\ docs[d].project \in {Null, Req(c).project}
           THEN Goto(c, "insertAttachment", Null) ELSE Answer(c)
    /\ UNCHANGED <<folders, docs, fileVars>>

InsertAttachment(c) ==
    /\ At(c, "insertAttachment")
    /\ \E a \in Attachments :
          /\ attachments[a] = Null
          /\ attachments' = [attachments EXCEPT ![a] = Linked(Req(c).doc, Null, Req(c))]
    /\ Answer(c)
    /\ UNCHANGED <<folders, docs, versions, blobs, mishaps>>

Detach(c) ==
    /\ At(c, "detach")
    /\ attachments' = [attachments EXCEPT ![Req(c).attachment] = Null]
    /\ Answer(c)
    /\ UNCHANGED <<folders, docs, versions, blobs, mishaps>>

\* The process dies, and a file that no document refers to stays; or a statement fails
\* before the storage has anything.
DropDocument(c) ==
    /\ Drop(c)
    /\ mishaps' = IF At(c, "insert") \/ At(c, "number") \/ At(c, "append") \/ At(c, "cleanup")
                  THEN mishaps \cup {Seen(c).path} ELSE mishaps
    /\ UNCHANGED <<folders, docs, versions, attachments, blobs>>

----------------------------------------------------------------------------
Init ==
    /\ HandlersInit
    /\ folders     = FirstFolders
    /\ docs        = [d \in Docs |-> Null]
    /\ versions    = {}
    /\ attachments = [a \in Attachments |-> Null]
    /\ blobs       = <<>>
    /\ mishaps     = {}

DocumentsStep(c) ==
    \/ Upload(c) \/ AddVersion(c) \/ Store(c) \/ InsertDocument(c) \/ Link(c)
    \/ NumberVersion(c) \/ AppendVersion(c) \/ CleanUp(c)
    \/ Reassign(c) \/ CountAttachments(c) \/ Own(c)
    \/ Archive(c) \/ Restore(c) \/ File(c) \/ Refile(c)
    \/ Attach(c) \/ InsertAttachment(c) \/ Detach(c) \/ DropDocument(c)

Next ==
    \E c \in Calls :
        \/ Arrive(c) /\ UNCHANGED <<folders, docs, fileVars>>
        \/ FoldersStep(c) /\ UNCHANGED fileVars
        \/ DocumentsStep(c)

Spec == Init /\ [][Next]_vars

----------------------------------------------------------------------------
Writing == {Seen(c).path : c \in {d \in Calls : call[d].pc \in {"insert", "number", "append", "cleanup"}}}

\* Every variable has its type.
TypeOK ==
    /\ HandlersTypeOK /\ FoldersTypeOK
    /\ docs \in [Docs -> DocumentRows \cup {Null}]
    /\ versions \subseteq [doc: Docs, n: 1..MaxBlobs, path: DOMAIN blobs, content: Contents]
    /\ attachments \in [Attachments -> AttachmentRows \cup {Null}]
    /\ blobs \in Seq(BOOLEAN) /\ Len(blobs) <= MaxBlobs /\ mishaps \subseteq DOMAIN blobs

\* The versions of a document are numbered without gaps, each once, and the document has
\* the number and the file of the latest one, although the number is read before the
\* transaction (documents.service.ts:1218-1245).  The storage holds the files of the versions
\* and no others: a file without a version is left by a process that died, a removal that
\* failed twice, or a storage that threw after it had kept the file (752, 876); and a
\* version without its file by a commit whose answer was lost (770-778, 1277-1293).
VersionsMatchFiles ==
    /\ \A d \in Docs : Created(d) =>
          /\ {v.n : v \in VersionsOf(d)} = 1..docs[d].version
          /\ Cardinality(VersionsOf(d)) = docs[d].version
          /\ \E v \in VersionsOf(d) : v.n = docs[d].version /\ v.path = docs[d].path
    /\ \A b \in DOMAIN blobs \ (mishaps \cup Writing) : blobs[b] <=> Referenced(b)

\* The folders are trees, one name once in a folder, each in its project; and a document
\* is in a folder that exists and belongs to its project, whatever moves, deletions
\* and reassignments overlap (documents.service.ts:954-955, document-folders.service.ts:140-220).
FoldersHoldTogether ==
    /\ \A f \in Folders : Exists(f) =>
          /\ Holds(folders[f].parent, folders[f].project)
          /\ folders[f].parent # Null => f \notin Ancestors(folders[f].parent)
          /\ NameFree(folders[f].name, folders[f].project, folders[f].parent, f)
    /\ \A d \in Docs : Created(d) => Fits(docs[d].folder, docs[d].project)

\* What was attached through a project is a document of that project or of the company for
\* as long as it is attached: a document that "is linked to a workflow attachment ... cannot
\* be reassigned safely" (documents.service.ts:508), by whichever of its files it is linked,
\* unless the link was made meanwhile.  What it is attached to is work of the same project
\* when the two were compared (attachments.service.ts:56-65, upload.service.ts:113-120):
\* what an administrator attaches, and an upload for anything but an expense, may hang on
\* the work of another.
AttachmentsStayInProject ==
    \A a \in Attachments : attachments[a] # Null /\ <<"links">> \notin raced =>
        LET row == attachments[a]
        IN  /\ docs[row.doc].project \in {Null, row.project}
            /\ row.checked => docs[row.doc].project \in {Null, row.target}

\* "Archived documents must be restored before" they change (documents.service.ts:470-472,
\* 850-852, 975-977): what is archived keeps its folder, and its project and its versions
\* unless another request about it overlapped.
ArchivedIsFrozen ==
    [][\A d \in Docs : Created(d) /\ docs[d].archived =>
          /\ docs'[d].folder = docs[d].folder
          /\ <<"doc", d>> \notin raced => [docs'[d] EXCEPT !.archived = TRUE] = docs[d]]_docs
=============================================================================
