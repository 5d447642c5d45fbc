----------------------------- MODULE StoredFiles -----------------------------
(***************************************************************************)
(* Uploaded and generated files: a row in the database, an object in the   *)
(* object storage, and nothing that joins the two in one transaction.      *)
(*                                                                         *)
(* Requests store files and delete them, alone or with their conversation  *)
(* or task; the lifecycle sweep purges files past their retention and      *)
(* removes objects that no row refers to.  A file belongs to a             *)
(* conversation's workspace, to a message of a chat, or to a task.         *)
(***************************************************************************)
EXTENDS FiniteSets, Naturals

CONSTANTS
    WorkspaceFiles, MessageFiles, TaskFiles,   \* the files that are ever stored
    MaxFiles                                   \* workspace_max_files

Files == WorkspaceFiles \cup MessageFiles \cup TaskFiles

ASSUME FilesAssumption ==
    /\ WorkspaceFiles \cap MessageFiles = {}
    /\ WorkspaceFiles \cap TaskFiles = {}
    /\ MessageFiles \cap TaskFiles = {}
    /\ MaxFiles \in Nat \ {0}
    /\ IsFiniteSet(Files)

VARIABLES
    row,        \* workspace_files, agent_message_files, job_input_files, artifacts
    object,     \* the object storage: young within the grace period for orphans
    owner,      \* the rows of the conversation, the chat and the task
    request,    \* the request that stores each file
    deletion,   \* the request that deletes a file, or an owner with its files
    sweep,      \* cleanup_expired_storage
    unanswered, \* history: files whose commit or refresh got no answer
    crowded     \* history: two uploads had both found room

vars == <<row, object, owner, request, deletion, sweep, unanswered, crowded>>

Row == {"none", "kept", "expired", "purged"}   \* expired: kept past the retention
Kept == {"kept", "expired"}
Object == {"none", "young", "old"}
Request == {"idle", "checked", "stored", "over"}
Owner == {"conversation", "chat", "task"}
\* undated: ended without a finished_at, as a job that is blocked on submission;
\* old: ended longer ago than the retention.
TaskStatus == {"none", "working", "ended", "undated", "old", "deleted"}

Of == [conversation |-> WorkspaceFiles, chat |-> MessageFiles, task |-> TaskFiles]

TypeOK ==
    /\ row \in [Files -> Row]
    /\ object \in [Files -> Object]
    /\ owner \in [conversation : {"open", "deleted"}, chat : {"open", "deleted"},
                  task : TaskStatus]
    /\ request \in [Files -> Request]
    /\ deletion \in [phase : {"idle", "listed", "unlinking"}, owner : Owner,
                     paths : SUBSET Files]
    /\ sweep \in [phase : {"idle", "purging", "purged", "referenced", "sweeping"},
                  paths : SUBSET Files, referenced : SUBSET Files]
    /\ unanswered \in SUBSET Files
    /\ crowded \in BOOLEAN

NoDeletion == [phase |-> "idle", owner |-> "conversation", paths |-> {}]
NoSweep == [phase |-> "idle", paths |-> {}, referenced |-> {}]

Init ==
    /\ row = [f \in Files |-> "none"]
    /\ object = [f \in Files |-> "none"]
    /\ owner = [conversation |-> "open", chat |-> "open", task |-> "none"]
    /\ request = [f \in Files |-> "idle"]
    /\ deletion = NoDeletion
    /\ sweep = NoSweep
    /\ unanswered = {} /\ crowded = FALSE

-----------------------------------------------------------------------------
(* Helpers.  A definition whose comment begins with "Fault" is how the one   *)
(* after it could be wrong; no action uses it.                             *)

Rows == {f \in WorkspaceFiles : row[f] # "none"}

\* Fault: the limit itself still counts as room.
RoomForOneMore == Cardinality(Rows) <= MaxFiles

\* _check_file_capacity counts rows, those of purged files too.
HasRoom == Cardinality(Rows) < MaxFiles

\* The owner's row may be referred to by a new file's row.
Accepts(f) ==
    IF f \in WorkspaceFiles THEN owner.conversation = "open"
    ELSE IF f \in MessageFiles THEN owner.chat = "open"
    ELSE owner.task \in {"none", "working"}

Deletable(o) == owner[o] \in {"open", "ended", "undated", "old"}

\* Fault: attachments and workspace files are forgotten.
ExpiredOfTask(f) == f \in TaskFiles /\ row[f] = "kept" /\ owner.task = "old"

\* What the retention of the sweep selects.
Expired(f) ==
    \/ row[f] = "expired"
    \/ f \in TaskFiles /\ row[f] = "kept" /\ owner.task = "old"

\* Fault: rows of purged files refer to their objects as well.
ReferencedByAny(f) == row[f] # "none"

Referenced(f) == row[f] \in Kept

\* Fault: the age of the object is not asked.
SweptAtOnce(f) == object[f] # "none" /\ f \notin sweep.referenced

Swept(f) == object[f] = "old" /\ f \notin sweep.referenced

Finish(f) == request' = [request EXCEPT ![f] = "over"]

-----------------------------------------------------------------------------
(* Storing.                                                                *)

\* The capacity is checked, then upload_workspace_file awaits the upload.
Check(f) ==
    /\ f \in WorkspaceFiles
    /\ request[f] = "idle"
    /\ owner.conversation = "open"
    /\ HasRoom
    /\ request' = [request EXCEPT ![f] = "checked"]
    /\ crowded' = (crowded \/ \E g \in WorkspaceFiles : request[g] \in {"checked", "stored"})
    /\ UNCHANGED <<row, object, owner, deletion, sweep, unanswered>>

\* The row is flushed, which its owner's row must allow, and the object is put.
Put(f) ==
    /\ request[f] = IF f \in WorkspaceFiles THEN "checked" ELSE "idle"
    /\ Accepts(f)
    /\ object' = [object EXCEPT ![f] = "young"]
    /\ request' = [request EXCEPT ![f] = "stored"]
    /\ UNCHANGED <<row, owner, deletion, sweep, unanswered, crowded>>

\* The first file of a task is an input, which is committed with the task; the
\* task begins, or is blocked at once and gets no time of its end.
Begun(f) ==
    IF f \in TaskFiles /\ owner.task = "none"
    THEN \E s \in {"working", "undated"} : owner' = [owner EXCEPT !.task = s]
    ELSE UNCHANGED owner

Commit(f) ==
    /\ request[f] = "stored"
    /\ Accepts(f)
    /\ row' = [row EXCEPT ![f] = "kept"]
    /\ Begun(f)
    /\ Finish(f)
    /\ UNCHANGED <<object, deletion, sweep, unanswered, crowded>>

\* _store_file takes any error for a commit that failed, also one of the answer
\* to its commit or of the refresh after it.
CommitUnanswered(f) ==
    /\ f \in WorkspaceFiles
    /\ request[f] = "stored"
    /\ row' = [row EXCEPT ![f] = "kept"]
    /\ object' = [object EXCEPT ![f] = "none"]
    /\ unanswered' = unanswered \cup {f}
    /\ Finish(f)
    /\ UNCHANGED <<owner, deletion, sweep, crowded>>

\* The transaction is rolled back.  _store_file, and the endpoint call that
\* loses to another with its key, remove the object; the others leave it.
Fail(f) ==
    /\ request[f] \in {"checked", "stored"}
    /\ object' \in {object, [object EXCEPT ![f] = "none"]}
    /\ Finish(f)
    /\ UNCHANGED <<row, owner, deletion, sweep, unanswered, crowded>>

-----------------------------------------------------------------------------
(* Deleting.                                                               *)

DeleteFile(f) ==
    /\ f \in WorkspaceFiles /\ row[f] # "none"
    /\ deletion.phase = "idle"
    /\ row' = [row EXCEPT ![f] = "none"]
    /\ deletion' = [phase |-> "unlinking", owner |-> "conversation", paths |-> {f}]
    /\ UNCHANGED <<object, owner, request, sweep, unanswered, crowded>>

\* delete_conversation, delete_agent_conversation and delete_workflow_job read
\* the paths of the objects they will remove.
ListFiles(o) ==
    /\ deletion.phase = "idle"
    /\ Deletable(o)
    /\ deletion' = [phase |-> "listed", owner |-> o,
                    paths |-> {f \in Of[o] : row[f] # "none"}]
    /\ UNCHANGED <<row, object, owner, request, sweep, unanswered, crowded>>

\* The rows go with their owner.  An open insert holds a lock on the owner; a
\* row added to a task meanwhile forbids it, one added to a conversation goes
\* too, and its object stays behind.
DeleteRows ==
    LET o == deletion.owner IN
    /\ deletion.phase = "listed"
    /\ \A f \in Of[o] : request[f] # "stored"
    /\ o = "task" => \A f \in TaskFiles : row[f] # "none" => f \in deletion.paths
    /\ row' = [f \in Files |-> IF f \in Of[o] THEN "none" ELSE row[f]]
    /\ owner' = [owner EXCEPT ![o] = "deleted"]
    /\ deletion' = [deletion EXCEPT !.phase = "unlinking"]
    /\ UNCHANGED <<object, request, sweep, unanswered, crowded>>

\* The objects are removed one after the other; an error keeps one of them.
Unlink(kept) ==
    /\ deletion.phase = "unlinking" /\ kept \subseteq deletion.paths
    /\ object' = [f \in Files |-> IF f \in deletion.paths \ kept THEN "none" ELSE object[f]]
    /\ deletion' = NoDeletion
    /\ UNCHANGED <<row, owner, request, sweep, unanswered, crowded>>

\* The request has ended, failed, or its process has.
EndDeletion ==
    /\ deletion.phase # "idle"
    /\ deletion' = NoDeletion
    /\ UNCHANGED <<row, object, owner, request, sweep, unanswered, crowded>>

-----------------------------------------------------------------------------
(* The sweep.                                                              *)

\* Rows past their retention are marked, and the marks committed, before an
\* object is touched.
Purge ==
    LET expired == {f \in Files : Expired(f)} IN
    /\ sweep.phase = "idle"
    /\ row' = [f \in Files |-> IF f \in expired THEN "purged" ELSE row[f]]
    /\ sweep' = [phase |-> "purging", paths |-> expired, referenced |-> {}]
    /\ UNCHANGED <<object, owner, request, deletion, unanswered, crowded>>

\* Objects of purged rows and, later, orphans are removed one after the other;
\* an error keeps one of them.
Remove(kept) ==
    /\ sweep.phase \in {"purging", "sweeping"} /\ kept \subseteq sweep.paths
    /\ object' = [f \in Files |-> IF f \in sweep.paths \ kept THEN "none" ELSE object[f]]
    /\ sweep' = IF sweep.phase = "purging" THEN [sweep EXCEPT !.phase = "purged", !.paths = {}]
                ELSE NoSweep
    /\ UNCHANGED <<row, owner, request, deletion, unanswered, crowded>>

ReadReferences ==
    /\ sweep.phase = "purged"
    /\ sweep' = [sweep EXCEPT !.phase = "referenced",
                              !.referenced = {f \in Files : Referenced(f)}]
    /\ UNCHANGED <<row, object, owner, request, deletion, unanswered, crowded>>

ListObjects ==
    /\ sweep.phase = "referenced"
    /\ sweep' = [phase |-> "sweeping", paths |-> {f \in Files : Swept(f)}, referenced |-> {}]
    /\ UNCHANGED <<row, object, owner, request, deletion, unanswered, crowded>>

-----------------------------------------------------------------------------
(* Time, tasks and processes.                                              *)

\* Time passes for some files and perhaps for the task.  A sweep compares every
\* age with the time at which it began, so what becomes old while it runs is old
\* for the next one.  The grace period is longer than any transaction stays open;
\* the retention of a task's files counts from its end.
TimePasses(aged, taskAged) ==
    /\ sweep.phase = "idle"
    /\ aged \subseteq {f \in Files : request[f] = "over"}
    /\ row' = [f \in Files |-> IF f \in aged \ TaskFiles /\ row[f] = "kept" THEN "expired"
                               ELSE row[f]]
    /\ object' = [f \in Files |-> IF f \in aged /\ object[f] = "young" THEN "old"
                                  ELSE object[f]]
    /\ owner' = IF taskAged /\ owner.task = "ended" THEN [owner EXCEPT !.task = "old"] ELSE owner
    /\ UNCHANGED <<request, deletion, sweep, unanswered, crowded>>

TaskEnds ==
    /\ owner.task = "working"
    /\ \A f \in TaskFiles : request[f] # "stored"
    /\ owner' = [owner EXCEPT !.task = "ended"]
    /\ UNCHANGED <<row, object, request, deletion, sweep, unanswered, crowded>>

\* The API process ends: objects that were put have no row.
Restart ==
    /\ sweep.phase # "idle" \/ deletion.phase # "idle"
          \/ \E f \in Files : request[f] \in {"checked", "stored"}
    /\ request' = [f \in Files |-> IF request[f] = "idle" THEN "idle" ELSE "over"]
    /\ deletion' = NoDeletion
    /\ sweep' = NoSweep
    /\ UNCHANGED <<row, object, owner, unanswered, crowded>>

Next ==
    \/ \E f \in Files :
          \/ Check(f) \/ Put(f) \/ Commit(f) \/ CommitUnanswered(f) \/ Fail(f)
          \/ DeleteFile(f)
    \/ \E o \in Owner : Of[o] # {} /\ ListFiles(o)
    \/ \E kept \in SUBSET Files : Unlink(kept) \/ Remove(kept)
    \/ DeleteRows \/ EndDeletion
    \/ Purge \/ ReadReferences \/ ListObjects
    \/ \E aged \in SUBSET Files, taskAged \in BOOLEAN : TimePasses(aged, taskAged)
    \/ TaskEnds \/ Restart

Spec == Init /\ [][Next]_vars

AllTimePasses == TimePasses({f \in Files : request[f] = "over"}, TRUE)

\* Time passes, tasks end, and the loop of the API sweeps again and again: its
\* process does not end over and over, and no removal fails every time.
FairSpec ==
    /\ Spec
    /\ <>[][~Restart]_vars
    /\ WF_vars(TaskEnds) /\ SF_vars(AllTimePasses)
    /\ WF_vars(Purge) /\ WF_vars(ReadReferences) /\ WF_vars(ListObjects)
    /\ SF_vars(sweep.phase = "purging" /\ Remove({}))
    /\ SF_vars(sweep.phase = "sweeping" /\ Remove({}))

-----------------------------------------------------------------------------
(* Safety.                                                                 *)

\* A file that can be downloaded or handed to a run has its object, whoever
\* purges, sweeps and deletes meanwhile; except that _store_file itself removes
\* the object when the answer to its commit is lost.
KeptFilesExist == \A f \in Files :
    row[f] \in Kept /\ f \notin unanswered => object[f] # "none"

\* A workspace does not exceed its limit unless two uploads had both found room
\* before either was stored: the count is not part of the insert.
CapacityKept == ~crowded => Cardinality(Rows) <= MaxFiles

\* An upload that is alone still has the room it has found.
RoomIsKept == ~crowded => \A f \in WorkspaceFiles : request[f] \in {"checked", "stored"} =>
    /\ HasRoom
    /\ \A g \in WorkspaceFiles \ {f} : request[g] \notin {"checked", "stored"}

\* A conversation or a task that is deleted leaves no row of a file behind.
NoRowOutlivesItsOwner == \A o \in Owner :
    owner[o] = "deleted" => \A f \in Of[o] : row[f] = "none" /\ request[f] # "stored"

\* A file whose row is not committed yet has an object that is too young for the
\* sweep; a file has no row before, and no object before that.
StoredIsYoung == \A f \in Files :
    /\ request[f] = "stored" => object[f] = "young" /\ row[f] = "none"
    /\ request[f] \in {"idle", "checked"} => object[f] = "none" /\ row[f] = "none"
    /\ f \in unanswered => request[f] = "over" /\ object[f] = "none"

\* Objects are removed for files that have no kept row and will get none.
RemovalsAreSafe ==
    /\ deletion.phase = "unlinking" =>
          \A f \in deletion.paths : row[f] = "none" /\ request[f] = "over"
    /\ deletion.phase = "listed" =>
          \A f \in deletion.paths : f \in Of[deletion.owner] /\ request[f] = "over"
    /\ sweep.phase \in {"purging", "sweeping"} =>
          \A f \in sweep.paths : row[f] \notin Kept /\ request[f] = "over"
    /\ sweep.phase = "referenced" => \A f \in Files :
          row[f] \in Kept => f \in sweep.referenced \/ object[f] = "young" \/ f \in unanswered

FilesInv ==
    /\ TypeOK
    /\ KeptFilesExist /\ CapacityKept /\ RoomIsKept /\ NoRowOutlivesItsOwner
    /\ StoredIsYoung /\ RemovalsAreSafe

-----------------------------------------------------------------------------
(* Liveness.                                                               *)

\* An object that no kept row refers to is removed in the end, whatever left it
\* there: a rollback, a crash, a removal that failed, an owner's deletion that
\* did not list it.
OrphansGo == \A f \in Files :
    (object[f] # "none" /\ row[f] \notin Kept /\ request[f] = "over") ~> (object[f] = "none")

\* A file past its retention does not stay available.
ExpiredGo == \A f \in Files :
    (row[f] = "expired" \/ (f \in TaskFiles /\ row[f] = "kept" /\ owner.task = "old"))
        ~> row[f] \notin Kept

\* What the documentation promises of attachments, task inputs and results: they
\* are kept for the retention period and not longer.
FilesExpire == \A f \in Files : (row[f] \in Kept) ~> (row[f] \notin Kept)
=============================================================================
