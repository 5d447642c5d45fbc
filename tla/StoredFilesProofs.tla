--------------------------- MODULE StoredFilesProofs ---------------------------
(***************************************************************************)
(* Theorems about StoredFiles, for any files and any limit: the inductive  *)
(* invariant that joins rows, objects and what the requests, the deletion  *)
(* and the sweep have read.                                                *)
(***************************************************************************)
EXTENDS StoredFiles, FiniteSetTheorems, TLAPS

Working == {"checked", "stored"}

LEMMA OfFacts ==
    /\ Of["conversation"] = WorkspaceFiles /\ Of["chat"] = MessageFiles /\ Of["task"] = TaskFiles
    /\ Owner = {"conversation", "chat", "task"}
    /\ \A o \in Owner : Of[o] \subseteq Files
    /\ WorkspaceFiles \cap MessageFiles = {}
    /\ WorkspaceFiles \cap TaskFiles = {}
    /\ MessageFiles \cap TaskFiles = {}
BY FilesAssumption DEF Of, Owner, Files

-----------------------------------------------------------------------------
(* The limit of a workspace.                                               *)

LEMMA RowsAreFinite ==
    /\ IsFiniteSet(Rows) /\ Cardinality(Rows) \in Nat
    /\ IsFiniteSet(Rows') /\ Cardinality(Rows') \in Nat
<1>1. /\ Rows \in SUBSET Files /\ Rows' \in SUBSET Files /\ IsFiniteSet(Files)
  BY FilesAssumption DEF Rows, Files
<1> QED
  BY <1>1, FS_Subset, FS_CardinalityType

\* No new upload is under way and no row was added.
LEMMA LimitFrame ==
    ASSUME FilesInv, Rows' \subseteq Rows, crowded' = crowded,
           \A f \in WorkspaceFiles : request'[f] \in Working => request[f] \in Working
    PROVE  CapacityKept' /\ RoomIsKept'
<1>1. Cardinality(Rows') <= Cardinality(Rows)
  BY RowsAreFinite, FS_Subset
<1>2. MaxFiles \in Nat
  BY FilesAssumption
<1>3. CapacityKept'
  BY <1>1, <1>2, RowsAreFinite DEF FilesInv, CapacityKept
<1>4. HasRoom => HasRoom'
  BY <1>1, <1>2, RowsAreFinite DEF HasRoom
<1>5. RoomIsKept'
  BY <1>4 DEF FilesInv, RoomIsKept, Working
<1> QED
  BY <1>3, <1>5

\* The one upload under way adds its row.
LEMMA LimitAdd ==
    ASSUME FilesInv, NEW f \in WorkspaceFiles, request[f] \in Working, request'[f] \notin Working,
           Rows' \subseteq Rows \cup {f}, crowded' = crowded,
           \A g \in WorkspaceFiles : request'[g] \in Working => request[g] \in Working
    PROVE  CapacityKept' /\ RoomIsKept'
<1> SUFFICES ASSUME ~crowded
             PROVE  CapacityKept' /\ RoomIsKept'
  BY DEF CapacityKept, RoomIsKept
<1>1. HasRoom /\ \A g \in WorkspaceFiles \ {f} : request[g] \notin Working
  BY Zenon DEF FilesInv, RoomIsKept, Working
<1>2. Cardinality(Rows') <= Cardinality(Rows) + 1
  <2>1. IsFiniteSet(Rows \cup {f}) /\ Cardinality(Rows \cup {f}) <= Cardinality(Rows) + 1
    <3>1. /\ IsFiniteSet(Rows \cup {f})
          /\ Cardinality(Rows \cup {f}) = IF f \in Rows THEN Cardinality(Rows) ELSE Cardinality(Rows) + 1
      BY RowsAreFinite, FS_AddElement, Zenon
    <3> QED
      BY <3>1, RowsAreFinite
  <2>2. Cardinality(Rows \cup {f}) \in Nat
    BY <2>1, FS_CardinalityType
  <2>3. Cardinality(Rows') <= Cardinality(Rows \cup {f})
    BY <2>1, FS_Subset
  <2> QED
    BY <2>1, <2>2, <2>3, RowsAreFinite
<1>3. CapacityKept'
  BY <1>1, <1>2, FilesAssumption, RowsAreFinite DEF CapacityKept, HasRoom
<1>4. RoomIsKept'
  BY <1>1 DEF RoomIsKept, Working
<1> QED
  BY <1>3, <1>4

-----------------------------------------------------------------------------
(* The steps.                                                              *)

LEMMA CheckKeeps == ASSUME FilesInv, NEW f \in Files, Check(f) PROVE FilesInv'
<1>1. /\ f \in WorkspaceFiles /\ request[f] = "idle" /\ HasRoom
      /\ request' = [request EXCEPT ![f] = "checked"]
      /\ crowded' = (crowded \/ \E g \in WorkspaceFiles : request[g] \in Working)
      /\ UNCHANGED <<row, object, owner, deletion, sweep, unanswered>>
  BY DEF Check, Working
<1>2. /\ request' \in [Files -> Request] /\ request'[f] = "checked"
      /\ \A g \in Files \ {f} : request'[g] = request[g]
  BY <1>1 DEF FilesInv, TypeOK, Request
<1>3. TypeOK'
  <2>1. crowded' \in BOOLEAN
    BY <1>1 DEF FilesInv, TypeOK
  <2> QED
    BY <1>1, <1>2, <2>1 DEF FilesInv, TypeOK
<1>4. Rows' = Rows /\ (HasRoom <=> HasRoom')
  BY <1>1 DEF Rows, HasRoom
<1>5. CapacityKept'
  BY <1>1, <1>4 DEF FilesInv, CapacityKept
<1>6. RoomIsKept'
  BY <1>1, <1>2, <1>4 DEF RoomIsKept, Files, Working
<1>7. KeptFilesExist' /\ NoRowOutlivesItsOwner'
  BY <1>1, <1>2, OfFacts DEF FilesInv, KeptFilesExist, NoRowOutlivesItsOwner
<1>8. StoredIsYoung'
  BY <1>1, <1>2 DEF FilesInv, StoredIsYoung
<1>9. RemovalsAreSafe'
  BY <1>1, <1>2 DEF FilesInv, RemovalsAreSafe, TypeOK
<1> QED
  BY <1>3, <1>5, <1>6, <1>7, <1>8, <1>9 DEF FilesInv

LEMMA PutKeeps == ASSUME FilesInv, NEW f \in Files, Put(f) PROVE FilesInv'
<1>1. /\ request[f] \in {"idle", "checked"} /\ Accepts(f)
      /\ f \in WorkspaceFiles => request[f] = "checked"
      /\ object' = [object EXCEPT ![f] = "young"]
      /\ request' = [request EXCEPT ![f] = "stored"]
      /\ UNCHANGED <<row, owner, deletion, sweep, unanswered, crowded>>
  BY DEF Put
<1>2. /\ request' \in [Files -> Request] /\ request'[f] = "stored"
      /\ \A g \in Files \ {f} : request'[g] = request[g]
      /\ object' \in [Files -> Object] /\ object'[f] = "young"
      /\ \A g \in Files \ {f} : object'[g] = object[g]
      /\ row[f] = "none" /\ f \notin unanswered
  BY <1>1 DEF FilesInv, TypeOK, Request, Object, StoredIsYoung
<1>3. TypeOK'
  BY <1>1, <1>2 DEF FilesInv, TypeOK
<1>4. Rows' = Rows
  BY <1>1 DEF Rows
<1>5. CapacityKept' /\ RoomIsKept'
  BY <1>1, <1>2, <1>4, LimitFrame DEF Working, Files
<1>6. KeptFilesExist'
  BY <1>1, <1>2 DEF FilesInv, KeptFilesExist
<1>7. NoRowOutlivesItsOwner'
  BY <1>1, <1>2, OfFacts DEF FilesInv, NoRowOutlivesItsOwner, Accepts, Files
<1>8. StoredIsYoung'
  BY <1>1, <1>2 DEF FilesInv, StoredIsYoung
<1>9. RemovalsAreSafe'
  BY <1>1, <1>2 DEF FilesInv, RemovalsAreSafe, TypeOK
<1> QED
  BY <1>3, <1>5, <1>6, <1>7, <1>8, <1>9 DEF FilesInv

LEMMA CommitKeeps == ASSUME FilesInv, NEW f \in Files, Commit(f) PROVE FilesInv'
<1>1. /\ request[f] = "stored" /\ Accepts(f)
      /\ row' = [row EXCEPT ![f] = "kept"]
      /\ request' = [request EXCEPT ![f] = "over"]
      /\ Begun(f)
      /\ UNCHANGED <<object, deletion, sweep, unanswered, crowded>>
  BY DEF Commit, Finish
<1>2. /\ request' \in [Files -> Request] /\ request'[f] = "over"
      /\ \A g \in Files \ {f} : request'[g] = request[g]
      /\ row' \in [Files -> Row] /\ row'[f] = "kept"
      /\ \A g \in Files \ {f} : row'[g] = row[g]
      /\ row[f] = "none" /\ f \notin unanswered /\ object[f] = "young"
  BY <1>1 DEF FilesInv, TypeOK, Request, Row, StoredIsYoung
<1>3. /\ owner' \in [conversation : {"open", "deleted"}, chat : {"open", "deleted"}, task : TaskStatus]
      /\ \A o \in Owner : owner'[o] = "deleted" => owner[o] = "deleted"
  <2>1. CASE owner' = owner
    BY <2>1 DEF FilesInv, TypeOK
  <2>2. ASSUME NEW s \in {"working", "undated"}, owner' = [owner EXCEPT !.task = s]
        PROVE  /\ owner' \in [conversation : {"open", "deleted"}, chat : {"open", "deleted"}, task : TaskStatus]
               /\ \A o \in Owner : owner'[o] = "deleted" => owner[o] = "deleted"
    BY <2>2 DEF FilesInv, TypeOK, TaskStatus, Owner
  <2> QED
    BY <1>1, <2>1, <2>2 DEF Begun
<1>4. TypeOK'
  BY <1>1, <1>2, <1>3 DEF FilesInv, TypeOK
<1>5. CapacityKept' /\ RoomIsKept'
  <2>1. \A g \in WorkspaceFiles : request'[g] \in Working => request[g] \in Working
    BY <1>2 DEF Working, Files
  <2>2. CASE f \in WorkspaceFiles
    <3>1. Rows' \subseteq Rows \cup {f} /\ request[f] \in Working /\ request'[f] \notin Working
      BY <1>1, <1>2 DEF Rows, Files, Working
    <3> QED
      BY <1>1, <2>1, <2>2, <3>1, LimitAdd
  <2>3. CASE f \notin WorkspaceFiles
    <3>1. Rows' \subseteq Rows
      BY <1>2, <2>3 DEF Rows, Files
    <3> QED
      BY <1>1, <2>1, <3>1, LimitFrame
  <2> QED
    BY <2>2, <2>3
<1>6. KeptFilesExist'
  BY <1>1, <1>2 DEF FilesInv, KeptFilesExist
<1>7. NoRowOutlivesItsOwner'
  BY <1>1, <1>2, <1>3, OfFacts DEF FilesInv, NoRowOutlivesItsOwner
<1>8. StoredIsYoung'
  BY <1>1, <1>2 DEF FilesInv, StoredIsYoung
<1>9. RemovalsAreSafe'
  BY <1>1, <1>2 DEF FilesInv, RemovalsAreSafe, TypeOK
<1> QED
  BY <1>4, <1>5, <1>6, <1>7, <1>8, <1>9 DEF FilesInv

LEMMA CommitUnansweredKeeps == ASSUME FilesInv, NEW f \in Files, CommitUnanswered(f) PROVE FilesInv'
<1>1. /\ f \in WorkspaceFiles /\ request[f] = "stored"
      /\ row' = [row EXCEPT ![f] = "kept"]
      /\ object' = [object EXCEPT ![f] = "none"]
      /\ unanswered' = unanswered \cup {f}
      /\ request' = [request EXCEPT ![f] = "over"]
      /\ UNCHANGED <<owner, deletion, sweep, crowded>>
  BY DEF CommitUnanswered, Finish
<1>2. /\ request' \in [Files -> Request] /\ request'[f] = "over"
      /\ \A g \in Files \ {f} : request'[g] = request[g]
      /\ row' \in [Files -> Row] /\ row'[f] = "kept"
      /\ \A g \in Files \ {f} : row'[g] = row[g]
      /\ object' \in [Files -> Object]
      /\ \A g \in Files \ {f} : object'[g] = object[g]
      /\ row[f] = "none"
  BY <1>1 DEF FilesInv, TypeOK, Request, Row, Object, StoredIsYoung
<1>3. TypeOK'
  BY <1>1, <1>2 DEF FilesInv, TypeOK
<1>4. CapacityKept' /\ RoomIsKept'
  <2>1. /\ \A g \in WorkspaceFiles : request'[g] \in Working => request[g] \in Working
        /\ Rows' \subseteq Rows \cup {f} /\ request[f] \in Working /\ request'[f] \notin Working
    BY <1>1, <1>2 DEF Rows, Files, Working
  <2> QED
    BY <1>1, <2>1, LimitAdd
<1>5. KeptFilesExist'
  BY <1>1, <1>2 DEF FilesInv, KeptFilesExist
<1>6. NoRowOutlivesItsOwner'
  BY <1>1, <1>2, OfFacts DEF FilesInv, NoRowOutlivesItsOwner
<1>7. StoredIsYoung'
  BY <1>1, <1>2 DEF FilesInv, StoredIsYoung
<1>8. RemovalsAreSafe'
  BY <1>1, <1>2 DEF FilesInv, RemovalsAreSafe, TypeOK
<1> QED
  BY <1>3, <1>4, <1>5, <1>6, <1>7, <1>8 DEF FilesInv

LEMMA FailKeeps == ASSUME FilesInv, NEW f \in Files, Fail(f) PROVE FilesInv'
<1>1. /\ request[f] \in Working
      /\ object' \in {object, [object EXCEPT ![f] = "none"]}
      /\ request' = [request EXCEPT ![f] = "over"]
      /\ UNCHANGED <<row, owner, deletion, sweep, unanswered, crowded>>
  BY DEF Fail, Finish, Working
<1>2. /\ request' \in [Files -> Request] /\ request'[f] = "over"
      /\ \A g \in Files \ {f} : request'[g] = request[g]
      /\ object' \in [Files -> Object]
      /\ \A g \in Files \ {f} : object'[g] = object[g]
      /\ row[f] = "none" /\ f \notin unanswered
  BY <1>1 DEF FilesInv, TypeOK, Request, Object, StoredIsYoung, Working
<1>3. TypeOK'
  BY <1>1, <1>2 DEF FilesInv, TypeOK
<1>4. CapacityKept' /\ RoomIsKept'
  <2>1. /\ \A g \in WorkspaceFiles : request'[g] \in Working => request[g] \in Working
        /\ Rows' \subseteq Rows
    BY <1>1, <1>2 DEF Rows, Files, Working
  <2> QED
    BY <1>1, <2>1, LimitFrame
<1>5. KeptFilesExist'
  BY <1>1, <1>2 DEF FilesInv, KeptFilesExist, Kept
<1>6. NoRowOutlivesItsOwner'
  BY <1>1, <1>2, OfFacts DEF FilesInv, NoRowOutlivesItsOwner
<1>7. StoredIsYoung'
  BY <1>1, <1>2 DEF FilesInv, StoredIsYoung
<1>8. RemovalsAreSafe'
  BY <1>1, <1>2 DEF FilesInv, RemovalsAreSafe, TypeOK, Kept
<1> QED
  BY <1>3, <1>4, <1>5, <1>6, <1>7, <1>8 DEF FilesInv

-----------------------------------------------------------------------------
(* Deletions.                                                              *)

LEMMA DeleteFileKeeps == ASSUME FilesInv, NEW f \in Files, DeleteFile(f) PROVE FilesInv'
<1>1. /\ f \in WorkspaceFiles /\ row[f] # "none"
      /\ row' = [row EXCEPT ![f] = "none"]
      /\ deletion' = [phase |-> "unlinking", owner |-> "conversation", paths |-> {f}]
      /\ UNCHANGED <<object, owner, request, sweep, unanswered, crowded>>
  BY DEF DeleteFile
<1>2. /\ row' \in [Files -> Row] /\ row'[f] = "none"
      /\ \A g \in Files \ {f} : row'[g] = row[g]
      /\ request[f] = "over"
  BY <1>1 DEF FilesInv, TypeOK, Row, Request, StoredIsYoung
<1>3. TypeOK'
  BY <1>1, <1>2 DEF FilesInv, TypeOK, Owner
<1>4. CapacityKept' /\ RoomIsKept'
  <2>1. Rows' \subseteq Rows
    BY <1>2 DEF Rows, Files
  <2> QED
    BY <1>1, <2>1, LimitFrame
<1>5. KeptFilesExist'
  BY <1>1, <1>2 DEF FilesInv, KeptFilesExist, Kept
<1>6. NoRowOutlivesItsOwner'
  BY <1>1, <1>2, OfFacts DEF FilesInv, NoRowOutlivesItsOwner
<1>7. StoredIsYoung'
  BY <1>1, <1>2 DEF FilesInv, StoredIsYoung
<1>8. RemovalsAreSafe'
  BY <1>1, <1>2 DEF FilesInv, RemovalsAreSafe, TypeOK, Kept
<1> QED
  BY <1>3, <1>4, <1>5, <1>6, <1>7, <1>8 DEF FilesInv

LEMMA ListFilesKeeps == ASSUME FilesInv, NEW o \in Owner, ListFiles(o) PROVE FilesInv'
<1>1. /\ deletion' = [phase |-> "listed", owner |-> o, paths |-> {f \in Of[o] : row[f] # "none"}]
      /\ UNCHANGED <<row, object, owner, request, sweep, unanswered, crowded>>
  BY DEF ListFiles
<1>2. \A f \in deletion'.paths : f \in Of[o] /\ f \in Files /\ request[f] = "over"
  BY <1>1, OfFacts DEF FilesInv, StoredIsYoung, TypeOK, Request
<1>3. TypeOK'
  BY <1>1, <1>2 DEF FilesInv, TypeOK
<1>4. CapacityKept' /\ RoomIsKept'
  BY <1>1, LimitFrame DEF Rows
<1>5. KeptFilesExist' /\ NoRowOutlivesItsOwner' /\ StoredIsYoung'
  BY <1>1 DEF FilesInv, KeptFilesExist, NoRowOutlivesItsOwner, StoredIsYoung
<1>6. RemovalsAreSafe'
  BY <1>1, <1>2 DEF FilesInv, RemovalsAreSafe
<1> QED
  BY <1>3, <1>4, <1>5, <1>6 DEF FilesInv

LEMMA DeleteRowsKeeps == ASSUME FilesInv, DeleteRows PROVE FilesInv'
<1> DEFINE o == deletion.owner
<1>1. /\ deletion.phase = "listed"
      /\ \A f \in Of[o] : request[f] # "stored"
      /\ row' = [f \in Files |-> IF f \in Of[o] THEN "none" ELSE row[f]]
      /\ owner' = [owner EXCEPT ![o] = "deleted"]
      /\ deletion' = [deletion EXCEPT !.phase = "unlinking"]
      /\ UNCHANGED <<object, request, sweep, unanswered, crowded>>
  BY DEF DeleteRows
<1>2. o \in Owner /\ o \in {"conversation", "chat", "task"}
  BY OfFacts DEF FilesInv, TypeOK
<1>3. /\ deletion'.phase = "unlinking" /\ deletion'.paths = deletion.paths
      /\ deletion' \in [phase : {"idle", "listed", "unlinking"}, owner : Owner, paths : SUBSET Files]
  BY <1>1 DEF FilesInv, TypeOK
<1>4. \A f \in deletion.paths : f \in Of[o] /\ request[f] = "over"
  BY <1>1 DEF FilesInv, RemovalsAreSafe
<1> HIDE DEF o
<1>5. /\ owner' \in [conversation : {"open", "deleted"}, chat : {"open", "deleted"}, task : TaskStatus]
      /\ \A x \in Owner : owner'[x] = "deleted" => x = o \/ owner[x] = "deleted"
  <2>1. CASE o = "conversation"
    BY <1>1, <2>1 DEF FilesInv, TypeOK, TaskStatus, Owner
  <2>2. CASE o = "chat"
    BY <1>1, <2>2 DEF FilesInv, TypeOK, TaskStatus, Owner
  <2>3. CASE o = "task"
    BY <1>1, <2>3 DEF FilesInv, TypeOK, TaskStatus, Owner
  <2> QED
    BY <1>2, <2>1, <2>2, <2>3
<1>6. /\ row' \in [Files -> Row]
      /\ \A f \in Files : row'[f] = IF f \in Of[o] THEN "none" ELSE row[f]
  BY <1>1 DEF FilesInv, TypeOK, Row
<1>7. TypeOK'
  BY <1>1, <1>3, <1>5, <1>6 DEF FilesInv, TypeOK
<1>8. CapacityKept' /\ RoomIsKept'
  <2>1. Rows' \subseteq Rows
    BY <1>6 DEF Rows, Files
  <2> QED
    BY <1>1, <2>1, LimitFrame
<1>9. KeptFilesExist'
  BY <1>1, <1>6 DEF FilesInv, KeptFilesExist, Kept
<1>10. NoRowOutlivesItsOwner'
  BY <1>1, <1>5, <1>6, OfFacts DEF FilesInv, NoRowOutlivesItsOwner
<1>11. StoredIsYoung'
  BY <1>1, <1>6 DEF FilesInv, StoredIsYoung
<1>12. RemovalsAreSafe'
  BY <1>1, <1>3, <1>4, <1>6, OfFacts, <1>2 DEF FilesInv, RemovalsAreSafe, TypeOK, Kept
<1> QED
  BY <1>7, <1>8, <1>9, <1>10, <1>11, <1>12 DEF FilesInv

LEMMA UnlinkKeeps == ASSUME FilesInv, NEW kept \in SUBSET Files, Unlink(kept) PROVE FilesInv'
<1>1. /\ deletion.phase = "unlinking"
      /\ object' = [f \in Files |-> IF f \in deletion.paths \ kept THEN "none" ELSE object[f]]
      /\ deletion' = NoDeletion
      /\ UNCHANGED <<row, owner, request, sweep, unanswered, crowded>>
  BY DEF Unlink
<1>2. /\ object' \in [Files -> Object]
      /\ \A f \in Files : object'[f] # object[f] => row[f] = "none" /\ request[f] = "over"
  BY <1>1 DEF FilesInv, TypeOK, Object, RemovalsAreSafe
<1>3. TypeOK'
  BY <1>1, <1>2 DEF FilesInv, TypeOK, NoDeletion, Owner
<1>4. CapacityKept' /\ RoomIsKept'
  BY <1>1, LimitFrame DEF Rows
<1>5. KeptFilesExist'
  BY <1>1, <1>2 DEF FilesInv, KeptFilesExist, Kept
<1>6. NoRowOutlivesItsOwner'
  BY <1>1 DEF FilesInv, NoRowOutlivesItsOwner
<1>7. StoredIsYoung'
  BY <1>1, <1>2 DEF FilesInv, StoredIsYoung
<1>8. RemovalsAreSafe'
  BY <1>1, <1>2 DEF FilesInv, RemovalsAreSafe, TypeOK, Kept, NoDeletion
<1> QED
  BY <1>3, <1>4, <1>5, <1>6, <1>7, <1>8 DEF FilesInv

LEMMA EndDeletionKeeps == ASSUME FilesInv, EndDeletion PROVE FilesInv'
<1>1. /\ deletion' = NoDeletion
      /\ UNCHANGED <<row, object, owner, request, sweep, unanswered, crowded>>
  BY DEF EndDeletion
<1>2. TypeOK'
  BY <1>1 DEF FilesInv, TypeOK, NoDeletion, Owner
<1>3. CapacityKept' /\ RoomIsKept'
  BY <1>1, LimitFrame DEF Rows
<1>4. KeptFilesExist' /\ NoRowOutlivesItsOwner' /\ StoredIsYoung'
  BY <1>1 DEF FilesInv, KeptFilesExist, NoRowOutlivesItsOwner, StoredIsYoung
<1>5. RemovalsAreSafe'
  BY <1>1 DEF FilesInv, RemovalsAreSafe, NoDeletion
<1> QED
  BY <1>2, <1>3, <1>4, <1>5 DEF FilesInv

-----------------------------------------------------------------------------
(* The sweep.                                                              *)

LEMMA PurgeKeeps == ASSUME FilesInv, Purge PROVE FilesInv'
<1> DEFINE expired == {f \in Files : Expired(f)}
<1>1. /\ row' = [f \in Files |-> IF f \in expired THEN "purged" ELSE row[f]]
      /\ sweep' = [phase |-> "purging", paths |-> expired, referenced |-> {}]
      /\ UNCHANGED <<object, owner, request, deletion, unanswered, crowded>>
  BY DEF Purge
<1>2. expired \subseteq Files /\ \A f \in expired : row[f] \in Kept /\ request[f] = "over"
  BY DEF Expired, Kept, FilesInv, StoredIsYoung, TypeOK, Request
<1> HIDE DEF expired
<1>3. /\ row' \in [Files -> Row]
      /\ \A f \in Files : row'[f] = IF f \in expired THEN "purged" ELSE row[f]
  BY <1>1 DEF FilesInv, TypeOK, Row
<1>4. TypeOK'
  BY <1>1, <1>2, <1>3 DEF FilesInv, TypeOK
<1>5. CapacityKept' /\ RoomIsKept'
  <2>1. Rows' \subseteq Rows
    BY <1>2, <1>3 DEF Rows, Files, Kept
  <2> QED
    BY <1>1, <2>1, LimitFrame
<1>6. KeptFilesExist'
  BY <1>1, <1>3 DEF FilesInv, KeptFilesExist, Kept
<1>7. NoRowOutlivesItsOwner'
  BY <1>1, <1>2, <1>3, OfFacts DEF FilesInv, NoRowOutlivesItsOwner, Kept
<1>8. StoredIsYoung'
  BY <1>1, <1>2, <1>3 DEF FilesInv, StoredIsYoung
<1>9. RemovalsAreSafe'
  BY <1>1, <1>2, <1>3 DEF FilesInv, RemovalsAreSafe, TypeOK, Kept
<1> QED
  BY <1>4, <1>5, <1>6, <1>7, <1>8, <1>9 DEF FilesInv

LEMMA RemoveKeeps == ASSUME FilesInv, NEW kept \in SUBSET Files, Remove(kept) PROVE FilesInv'
<1>1. /\ sweep.phase \in {"purging", "sweeping"}
      /\ object' = [f \in Files |-> IF f \in sweep.paths \ kept THEN "none" ELSE object[f]]
      /\ sweep' = IF sweep.phase = "purging" THEN [sweep EXCEPT !.phase = "purged", !.paths = {}]
                  ELSE NoSweep
      /\ UNCHANGED <<row, owner, request, deletion, unanswered, crowded>>
  BY DEF Remove
<1>2. /\ object' \in [Files -> Object]
      /\ \A f \in Files : object'[f] # object[f] => row[f] \notin Kept /\ request[f] = "over"
  BY <1>1 DEF FilesInv, TypeOK, Object, RemovalsAreSafe
<1>3. /\ sweep'.phase \in {"purged", "idle"}
      /\ sweep' \in [phase : {"idle", "purging", "purged", "referenced", "sweeping"},
                     paths : SUBSET Files, referenced : SUBSET Files]
  BY <1>1 DEF FilesInv, TypeOK, NoSweep
<1>4. TypeOK'
  BY <1>1, <1>2, <1>3 DEF FilesInv, TypeOK
<1>5. CapacityKept' /\ RoomIsKept'
  BY <1>1, LimitFrame DEF Rows
<1>6. KeptFilesExist'
  BY <1>1, <1>2 DEF FilesInv, KeptFilesExist
<1>7. NoRowOutlivesItsOwner'
  BY <1>1 DEF FilesInv, NoRowOutlivesItsOwner
<1>8. StoredIsYoung'
  BY <1>1, <1>2 DEF FilesInv, StoredIsYoung
<1>9. RemovalsAreSafe'
  BY <1>1, <1>2, <1>3 DEF FilesInv, RemovalsAreSafe
<1> QED
  BY <1>4, <1>5, <1>6, <1>7, <1>8, <1>9 DEF FilesInv

LEMMA SweepReads == ASSUME FilesInv, ReadReferences \/ ListObjects PROVE FilesInv'
<1>1. UNCHANGED <<row, object, owner, request, deletion, unanswered, crowded>>
  BY DEF ReadReferences, ListObjects
<1>2. /\ sweep' \in [phase : {"idle", "purging", "purged", "referenced", "sweeping"},
                     paths : SUBSET Files, referenced : SUBSET Files]
      /\ sweep'.phase \in {"referenced", "sweeping"}
      /\ sweep'.phase = "sweeping" =>
            \A f \in sweep'.paths : f \in Files /\ row[f] \notin Kept /\ request[f] = "over"
      /\ sweep'.phase = "referenced" => \A f \in Files : row[f] \in Kept => f \in sweep'.referenced
  <2>1. CASE ReadReferences
    BY <2>1 DEF ReadReferences, Referenced, FilesInv, TypeOK
  <2>2. CASE ListObjects
    <3>1. /\ sweep' = [phase |-> "sweeping", paths |-> {f \in Files : Swept(f)}, referenced |-> {}]
          /\ sweep.phase = "referenced"
      BY <2>2 DEF ListObjects
    <3>2. \A f \in Files : Swept(f) => row[f] \notin Kept /\ request[f] = "over"
      BY <3>1 DEF Swept, FilesInv, RemovalsAreSafe, KeptFilesExist, StoredIsYoung, TypeOK, Request
    <3> QED
      BY <3>1, <3>2
  <2> QED
    BY <2>1, <2>2
<1>3. TypeOK'
  BY <1>1, <1>2 DEF FilesInv, TypeOK
<1>4. CapacityKept' /\ RoomIsKept'
  BY <1>1, LimitFrame DEF Rows
<1>5. KeptFilesExist' /\ NoRowOutlivesItsOwner' /\ StoredIsYoung'
  BY <1>1 DEF FilesInv, KeptFilesExist, NoRowOutlivesItsOwner, StoredIsYoung
<1>6. RemovalsAreSafe'
  BY <1>1, <1>2 DEF FilesInv, RemovalsAreSafe
<1> QED
  BY <1>3, <1>4, <1>5, <1>6 DEF FilesInv

-----------------------------------------------------------------------------
(* Time, tasks and processes.                                              *)

LEMMA TimePassesKeeps ==
    ASSUME FilesInv, NEW aged \in SUBSET Files, NEW taskAged \in BOOLEAN, TimePasses(aged, taskAged)
    PROVE  FilesInv'
<1>1. /\ sweep.phase = "idle"
      /\ \A f \in aged : request[f] = "over"
      /\ row' = [f \in Files |-> IF f \in aged \ TaskFiles /\ row[f] = "kept" THEN "expired" ELSE row[f]]
      /\ object' = [f \in Files |-> IF f \in aged /\ object[f] = "young" THEN "old" ELSE object[f]]
      /\ owner' = IF taskAged /\ owner.task = "ended" THEN [owner EXCEPT !.task = "old"] ELSE owner
      /\ UNCHANGED <<request, deletion, sweep, unanswered, crowded>>
  BY DEF TimePasses
<1>2. /\ row' \in [Files -> Row] /\ object' \in [Files -> Object]
      /\ \A f \in Files : /\ row'[f] = "none" <=> row[f] = "none"
                          /\ row'[f] \in Kept <=> row[f] \in Kept
                          /\ object'[f] = "none" <=> object[f] = "none"
                          /\ object[f] = "young" /\ request[f] # "over" => object'[f] = "young"
  BY <1>1 DEF FilesInv, TypeOK, Row, Object, Kept
<1>3. /\ owner' \in [conversation : {"open", "deleted"}, chat : {"open", "deleted"}, task : TaskStatus]
      /\ \A o \in Owner : owner'[o] = "deleted" => owner[o] = "deleted"
  <2>1. CASE owner' = owner
    BY <2>1 DEF FilesInv, TypeOK
  <2>2. CASE owner' = [owner EXCEPT !.task = "old"]
    BY <2>2 DEF FilesInv, TypeOK, TaskStatus, Owner
  <2> QED
    BY <1>1, <2>1, <2>2
<1>4. TypeOK'
  BY <1>1, <1>2, <1>3 DEF FilesInv, TypeOK
<1>5. CapacityKept' /\ RoomIsKept'
  <2>1. Rows' \subseteq Rows
    BY <1>2 DEF Rows, Files
  <2> QED
    BY <1>1, <2>1, LimitFrame
<1>6. KeptFilesExist'
  BY <1>1, <1>2 DEF FilesInv, KeptFilesExist
<1>7. NoRowOutlivesItsOwner'
  BY <1>1, <1>2, <1>3, OfFacts DEF FilesInv, NoRowOutlivesItsOwner
<1>8. StoredIsYoung'
  BY <1>1, <1>2 DEF FilesInv, StoredIsYoung
<1>9. RemovalsAreSafe'
  BY <1>1, <1>2 DEF FilesInv, RemovalsAreSafe, TypeOK
<1> QED
  BY <1>4, <1>5, <1>6, <1>7, <1>8, <1>9 DEF FilesInv

LEMMA TaskEndsKeeps == ASSUME FilesInv, TaskEnds PROVE FilesInv'
<1>1. /\ owner' = [owner EXCEPT !.task = "ended"] /\ owner.task = "working"
      /\ UNCHANGED <<row, object, request, deletion, sweep, unanswered, crowded>>
  BY DEF TaskEnds
<1>2. /\ owner' \in [conversation : {"open", "deleted"}, chat : {"open", "deleted"}, task : TaskStatus]
      /\ \A o \in Owner : owner'[o] = "deleted" => owner[o] = "deleted"
  BY <1>1 DEF FilesInv, TypeOK, TaskStatus, Owner
<1>3. TypeOK'
  BY <1>1, <1>2 DEF FilesInv, TypeOK
<1>4. CapacityKept' /\ RoomIsKept'
  BY <1>1, LimitFrame DEF Rows
<1>5. KeptFilesExist' /\ StoredIsYoung' /\ RemovalsAreSafe'
  BY <1>1 DEF FilesInv, KeptFilesExist, StoredIsYoung, RemovalsAreSafe
<1>6. NoRowOutlivesItsOwner'
  BY <1>1, <1>2 DEF FilesInv, NoRowOutlivesItsOwner
<1> QED
  BY <1>3, <1>4, <1>5, <1>6 DEF FilesInv

LEMMA RestartKeeps == ASSUME FilesInv, Restart PROVE FilesInv'
<1>1. /\ request' = [f \in Files |-> IF request[f] = "idle" THEN "idle" ELSE "over"]
      /\ deletion' = NoDeletion /\ sweep' = NoSweep
      /\ UNCHANGED <<row, object, owner, unanswered, crowded>>
  BY DEF Restart
<1>2. /\ request' \in [Files -> Request]
      /\ \A f \in Files : /\ request'[f] \notin {"checked", "stored"}
                          /\ request'[f] = "idle" <=> request[f] = "idle"
                          /\ request[f] = "over" => request'[f] = "over"
  BY <1>1 DEF FilesInv, TypeOK, Request
<1>3. TypeOK'
  BY <1>1, <1>2 DEF FilesInv, TypeOK, NoDeletion, NoSweep, Owner
<1>4. CapacityKept' /\ RoomIsKept'
  <2>1. \A f \in WorkspaceFiles : request'[f] \in Working => request[f] \in Working
    BY <1>2 DEF Working, Files
  <2> QED
    BY <1>1, <2>1, LimitFrame DEF Rows
<1>5. KeptFilesExist'
  BY <1>1 DEF FilesInv, KeptFilesExist
<1>6. NoRowOutlivesItsOwner'
  BY <1>1, <1>2, OfFacts DEF FilesInv, NoRowOutlivesItsOwner
<1>7. StoredIsYoung'
  BY <1>1, <1>2 DEF FilesInv, StoredIsYoung
<1>8. RemovalsAreSafe'
  BY <1>1 DEF RemovalsAreSafe, NoDeletion, NoSweep
<1> QED
  BY <1>3, <1>4, <1>5, <1>6, <1>7, <1>8 DEF FilesInv

-----------------------------------------------------------------------------
(* The theorems.                                                           *)

LEMMA InvInit == Init => FilesInv
<1> SUFFICES ASSUME Init PROVE FilesInv
  OBVIOUS
<1>1. TypeOK
  BY DEF Init, TypeOK, Row, Object, Request, Owner, TaskStatus, NoDeletion, NoSweep
<1>2. Rows = {}
  BY DEF Init, Rows, Files
<1>3. CapacityKept /\ RoomIsKept
  BY <1>2, FS_EmptySet, FilesAssumption DEF Init, CapacityKept, RoomIsKept, Files
<1>4. KeptFilesExist /\ StoredIsYoung /\ RemovalsAreSafe
  BY DEF Init, KeptFilesExist, StoredIsYoung, RemovalsAreSafe, Kept, NoDeletion, NoSweep
<1>5. NoRowOutlivesItsOwner
  BY OfFacts DEF Init, NoRowOutlivesItsOwner
<1> QED
  BY <1>1, <1>3, <1>4, <1>5 DEF FilesInv

LEMMA InvStep == FilesInv /\ [Next]_vars => FilesInv'
<1> SUFFICES ASSUME FilesInv, [Next]_vars PROVE FilesInv'
  OBVIOUS
<1>1. ASSUME NEW f \in Files,
             \/ Check(f) \/ Put(f) \/ Commit(f) \/ CommitUnanswered(f) \/ Fail(f)
             \/ DeleteFile(f)
      PROVE  FilesInv'
  BY <1>1, CheckKeeps, PutKeeps, CommitKeeps, CommitUnansweredKeeps, FailKeeps, DeleteFileKeeps
<1>2. ASSUME NEW o \in Owner, ListFiles(o) PROVE FilesInv'
  BY <1>2, ListFilesKeeps
<1>3. ASSUME NEW kept \in SUBSET Files, Unlink(kept) \/ Remove(kept) PROVE FilesInv'
  BY <1>3, UnlinkKeeps, RemoveKeeps
<1>4. CASE DeleteRows \/ EndDeletion \/ Purge \/ ReadReferences \/ ListObjects
  BY <1>4, DeleteRowsKeeps, EndDeletionKeeps, PurgeKeeps, SweepReads
<1>5. ASSUME NEW aged \in SUBSET Files, NEW taskAged \in BOOLEAN, TimePasses(aged, taskAged)
      PROVE  FilesInv'
  BY <1>5, TimePassesKeeps
<1>6. CASE TaskEnds \/ Restart
  BY <1>6, TaskEndsKeeps, RestartKeeps
<1>7. CASE UNCHANGED vars
  <2>1. UNCHANGED <<row, object, owner, request, deletion, sweep, unanswered, crowded>>
    BY <1>7 DEF vars
  <2>2. CapacityKept' /\ RoomIsKept'
    BY <2>1, LimitFrame DEF Rows
  <2> QED
    BY <2>1, <2>2 DEF FilesInv, TypeOK, KeptFilesExist, NoRowOutlivesItsOwner, StoredIsYoung,
                      RemovalsAreSafe
<1> QED
  BY <1>1, <1>2, <1>3, <1>4, <1>5, <1>6, <1>7 DEF Next

\* Whatever is stored, deleted, purged and swept at a time: a file that is kept
\* has its object, the limit holds unless uploads overlapped, and a deleted owner
\* leaves no row (routers/workspace.py, storage_lifecycle.py).
THEOREM FilesInvariant == Spec => []FilesInv
BY InvInit, InvStep, PTL DEF Spec
=============================================================================
