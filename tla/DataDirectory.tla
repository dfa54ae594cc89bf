---------------------------- MODULE DataDirectory ----------------------------
(***************************************************************************)
(* The data directory on disk: canonical.redb, the content-addressed blob  *)
(* files beside it, and the offline commands that back it up and restore   *)
(* it (operations.rs).  A file is abstracted to its condition, and         *)
(* canonical.redb to the rows of its BLOBS table; two files have one       *)
(* SHA-256 when they are equal here.                                       *)
(*                                                                         *)
(* The server writes a blob under the mutex of the store in two steps, the *)
(* file and then its row; the commands are processes of their own, which   *)
(* only the lock of redb keeps from running beside the server.             *)
(***************************************************************************)
EXTENDS Naturals, FiniteSetsExt

CONSTANTS
  Workspaces,
  Joined,         \* Joined[w]: the two ids of w as keys join them, unescaped
  Digests,        \* contents that are uploaded, named by their SHA-256
  Canonical,      \* the file canonical.redb
  SizeOf,         \* bytes of a content
  MaxBlobsBytes,  \* max_blobs_bytes of a workspace
  MaxCutShort,    \* bound on the files that faults leave short
  MaxDamaged      \* bound on the files a backup loses

ASSUME PathsAssumption == IsFiniteSet(Digests) /\ Canonical \notin Digests
ASSUME SizesAssumption == SizeOf \in [Digests -> Nat] /\ MaxBlobsBytes \in Nat
ASSUME BoundsAssumption == MaxCutShort \in Nat /\ MaxDamaged \in Nat

VARIABLES
  up,           \* whether a server runs on the data directory
  data,         \* its files
  put,          \* the uploads in progress: at most one, the mutex is held
  unsynced,     \* digests whose file the disk may not have yet
  interrupted,  \* history: digests whose file was cut short
  copying,      \* whether the backup command runs
  temporary,    \* the directory it fills
  backup,       \* the directory it publishes
  origin,       \* history: the data directory when the command checked it
  quiet,        \* history: whether no server has started since
  restoring,    \* whether the restore command runs
  staging,      \* the directory it fills
  restored,     \* the directory it publishes
  sound         \* history: whether the backup was left alone meanwhile

serverVars == <<up, data, put, unsynced, interrupted>>
backupVars == <<copying, temporary, origin, quiet>>
restoreVars == <<restoring, staging, restored>>
vars == <<up, data, put, unsynced, interrupted, copying, temporary, backup,
          origin, quiet, restoring, staging, restored, sound>>

Paths == Digests \cup {Canonical}
Rows == Workspaces \X Digests
File == [state : {"missing", "partial", "whole", "torn", "damaged"}, rows : SUBSET Rows]
Files == [Paths -> File]

Condition(s) == [state |-> s, rows |-> {}]
Missing == Condition("missing")
Database(rows) == [state |-> "whole", rows |-> rows]
Nothing == [p \in Paths |-> Missing]
Present(files) == {p \in Paths : files[p] # Missing}

Directory == [exists : BOOLEAN, files : Files, manifest : Files]
Absent == [exists |-> FALSE, files |-> Nothing, manifest |-> Nothing]
Created == [Absent EXCEPT !.exists = TRUE]

Upload == [workspace : Workspaces, digest : Digests, writing : BOOLEAN]

Init ==
  /\ up = FALSE
  /\ data = Nothing
  /\ put = {}
  /\ unsynced = {}
  /\ interrupted = {}
  /\ copying = FALSE
  /\ temporary = Absent
  /\ backup = Absent
  /\ origin = Nothing
  /\ quiet = FALSE
  /\ restoring = FALSE
  /\ staging = Absent
  /\ restored = Absent
  /\ sound = FALSE

-----------------------------------------------------------------------------
\* HangarStore::open creates the database if there is none.
Boot ==
  /\ ~up
  /\ up' = TRUE
  /\ data' = IF data[Canonical] = Missing THEN [data EXCEPT ![Canonical] = Database({})] ELSE data
  /\ quiet' = (quiet /\ ~copying)
  /\ UNCHANGED <<put, unsynced, interrupted, copying, temporary, origin, backup, restoreVars, sound>>

BytesOf(digests) == SumFunction([d \in digests |-> SizeOf[d]])
BlobsOf(w) == {d \in Digests : <<w, d>> \in data[Canonical].rows}

\* The row of a content is found by its digest and the joined ids, which are
\* those of two workspaces where a colon belongs to an id: it names the last
\* workspace that wrote it.
RowOf(w, d) == {row \in data[Canonical].rows : Joined[row[1]] = Joined[w] /\ row[2] = d}
Unambiguous == {w \in Workspaces : \A v \in Workspaces : Joined[v] = Joined[w] => v = w}

Bug_UncheckedQuota(w, d) == TRUE

\* enforce_blob_limits: a content the workspace has already is counted once.
AdmitsBlob(w, d) ==
  RowOf(w, d) # {} \/ BytesOf(BlobsOf(w)) + SizeOf[d] <= MaxBlobsBytes

Bug_StoredByRow(w, d) == d \in BlobsOf(w)

\* put_blob takes any file of that name for the content.
Stored(w, d) == data[d] # Missing

BeginPut(w, d) ==
  /\ up
  /\ put = {}
  /\ AdmitsBlob(w, d)
  /\ put' = {[workspace |-> w, digest |-> d, writing |-> ~Stored(w, d)]}
  /\ data' = IF Stored(w, d) THEN data ELSE [data EXCEPT ![d] = Condition("partial")]
  /\ UNCHANGED <<up, unsynced, interrupted, backupVars, backup, restoreVars, sound>>

\* fs::write returns: the content is in the cache of the system.
EndWrite ==
  \E u \in put :
    /\ u.writing
    /\ put' = {[u EXCEPT !.writing = FALSE]}
    /\ data' = [data EXCEPT ![u.digest] = Condition("whole")]
    /\ unsynced' = unsynced \cup {u.digest}
    /\ UNCHANGED <<up, interrupted, backupVars, backup, restoreVars, sound>>

\* The row is committed, and the commit is synced.
CommitRow ==
  \E u \in put :
    /\ ~u.writing
    /\ put' = {}
    /\ data' = [data EXCEPT ![Canonical].rows =
                  (@ \ RowOf(u.workspace, u.digest)) \cup {<<u.workspace, u.digest>>}]
    /\ UNCHANGED <<up, unsynced, interrupted, backupVars, backup, restoreVars, sound>>

CutShort == {u.digest : u \in {x \in put : x.writing}}

Interrupts(digests) ==
  /\ Cardinality(interrupted \cup digests) <= MaxCutShort
  /\ interrupted' = interrupted \cup digests

\* An error of the write or of the commit ends the upload; a file stays.
PutFails ==
  /\ put # {}
  /\ put' = {}
  /\ Interrupts(CutShort)
  /\ UNCHANGED <<up, data, unsynced, backupVars, backup, restoreVars, sound>>

Stop ==
  /\ up
  /\ up' = FALSE
  /\ put' = {}
  /\ Interrupts(CutShort)
  /\ UNCHANGED <<data, unsynced, backupVars, backup, restoreVars, sound>>

Writeback ==
  /\ unsynced # {}
  /\ unsynced' = {}
  /\ UNCHANGED <<up, data, put, interrupted, backupVars, backup, restoreVars, sound>>

\* What a command that failed leaves behind is never read again: only whether
\* its directory is there matters.
Remains(there) == IF there THEN Created ELSE Absent

EndBackup(there) ==
  /\ copying' = FALSE
  /\ temporary' = Remains(there)
  /\ origin' = IF copying THEN Nothing ELSE origin
  /\ quiet' = (quiet /\ ~copying)

EndRestore(there) ==
  /\ restoring' = FALSE
  /\ staging' = Remains(there)
  /\ sound' = (sound /\ ~restoring)

\* The machine stops: every process ends, and blobs that were never synced
\* may be short or gone.
PowerLoss ==
  \E lost \in SUBSET unsynced, s \in {"missing", "partial"} :
    /\ up' = FALSE
    /\ put' = {}
    /\ data' = [p \in Paths |-> IF p \in lost THEN Condition(s) ELSE data[p]]
    /\ unsynced' = {}
    /\ Interrupts(lost \cup CutShort)
    /\ EndBackup(temporary.exists)
    /\ EndRestore(staging.exists)
    /\ UNCHANGED <<backup, restored>>

-----------------------------------------------------------------------------
\* validate_live_data_directory: the database opens, which a server prevents,
\* and is closed again.
Openable(files) == files[Canonical].state = "whole"

Bug_NotLocked == TRUE

\* No server holds the lock of the database.
Stopped == ~up

BeginBackup ==
  /\ ~copying
  /\ Openable(data) /\ Stopped
  /\ ~backup.exists /\ ~temporary.exists
  /\ copying' = TRUE
  /\ temporary' = Created
  /\ origin' = data
  /\ quiet' = TRUE
  /\ UNCHANGED <<serverVars, backup, restoreVars, sound>>

\* The database of a running server may change while it is read.
Readings(p) == {data[p]} \cup (IF up /\ p = Canonical THEN {Condition("torn")} ELSE {})

\* copy_tree_inner copies a file.
CopyFile(p) ==
  /\ copying
  /\ Present(temporary.files) = Present(temporary.manifest)
  /\ p \in Present(data) \ Present(temporary.files)
  /\ \E copy \in Readings(p) : temporary' = [temporary EXCEPT !.files[p] = copy]
  /\ UNCHANGED <<serverVars, copying, origin, quiet, backup, restoreVars, sound>>

\* Then it hashes the source, not the copy.
ListFile(p) ==
  /\ copying
  /\ p \in Present(temporary.files) \ Present(temporary.manifest)
  /\ \E sha256 \in Readings(p) : temporary' = [temporary EXCEPT !.manifest[p] = sha256]
  /\ UNCHANGED <<serverVars, copying, origin, quiet, backup, restoreVars, sound>>

\* Files that are created while the directories are read may be left out.
Copied ==
  /\ Present(temporary.files) = Present(temporary.manifest)
  /\ Present(origin) \subseteq Present(temporary.files)

\* The manifest is written and the directory renamed.
Publish ==
  /\ copying
  /\ Copied
  /\ copying' = FALSE
  /\ backup' = temporary
  /\ temporary' = Absent
  /\ UNCHANGED <<serverVars, origin, quiet, restoreVars, sound>>

\* An error of the copy removes the temporary directory; an error of the
\* manifest or of the rename, and a kill, leave it to the operator.
BackupFails ==
  /\ copying
  /\ \E there \in BOOLEAN : EndBackup(there)
  /\ UNCHANGED <<serverVars, backup, restoreVars, sound>>

RemoveTemporary ==
  /\ ~copying /\ temporary.exists
  /\ temporary' = Absent
  /\ UNCHANGED <<serverVars, copying, origin, quiet, backup, restoreVars, sound>>

-----------------------------------------------------------------------------
\* The medium of a published backup loses a file.
Damage(p) ==
  /\ backup.exists
  /\ backup.files[p] # Missing
  /\ Cardinality({q \in Paths : backup.files[q].state = "damaged"}) < MaxDamaged
  /\ backup' = [backup EXCEPT !.files[p] = Condition("damaged")]
  /\ sound' = (sound /\ ~restoring)
  /\ UNCHANGED <<serverVars, backupVars, restoreVars>>

Bug_SizesUnchecked ==
  /\ backup.exists
  /\ \A p \in Present(backup.manifest) : backup.files[p] # Missing
  /\ Openable(backup.files)

\* verify_backup: the listed files have their sizes and digests, and the
\* database opens.
Verifies ==
  /\ backup.exists
  /\ \A p \in Present(backup.manifest) : backup.files[p] = backup.manifest[p]
  /\ Openable(backup.files)

BeginRestore ==
  /\ ~restoring
  /\ Verifies
  /\ ~restored.exists /\ ~staging.exists
  /\ restoring' = TRUE
  /\ staging' = Created
  /\ sound' = TRUE
  /\ UNCHANGED <<serverVars, backupVars, backup, restored>>

CopyBack(p) ==
  /\ restoring
  /\ p \in Present(backup.files) \ Present(staging.files)
  /\ staging' = [staging EXCEPT !.files[p] = backup.files[p]]
  /\ UNCHANGED <<serverVars, backupVars, backup, restoring, restored, sound>>

PublishRestore ==
  /\ restoring
  /\ Present(backup.files) = Present(staging.files)
  /\ Openable(staging.files)
  /\ restoring' = FALSE
  /\ restored' = staging
  /\ staging' = Absent
  /\ UNCHANGED <<serverVars, backupVars, backup, sound>>

RestoreFails ==
  /\ restoring
  /\ \E there \in BOOLEAN : EndRestore(there)
  /\ UNCHANGED <<serverVars, backupVars, backup, restored>>

RemoveStaging ==
  /\ ~restoring /\ staging.exists
  /\ staging' = Absent
  /\ UNCHANGED <<serverVars, backupVars, backup, restoring, restored, sound>>

Next ==
  \/ Boot
  \/ \E w \in Workspaces, d \in Digests : BeginPut(w, d)
  \/ EndWrite
  \/ CommitRow
  \/ PutFails
  \/ Stop
  \/ Writeback
  \/ PowerLoss
  \/ BeginBackup
  \/ \E p \in Paths : CopyFile(p) \/ ListFile(p) \/ Damage(p) \/ CopyBack(p)
  \/ Publish
  \/ BackupFails
  \/ RemoveTemporary
  \/ BeginRestore
  \/ PublishRestore
  \/ RestoreFails
  \/ RemoveStaging

Spec == Init /\ [][Next]_vars

-----------------------------------------------------------------------------
TypeOK ==
  /\ up \in BOOLEAN
  /\ data \in Files
  /\ put \subseteq Upload
  /\ unsynced \subseteq Digests
  /\ interrupted \subseteq Digests
  /\ copying \in BOOLEAN
  /\ temporary \in Directory
  /\ backup \in Directory
  /\ origin \in Files
  /\ quiet \in BOOLEAN
  /\ restoring \in BOOLEAN
  /\ staging \in Directory
  /\ restored \in Directory
  /\ sound \in BOOLEAN

\* max_blobs_bytes: the committed blobs of a workspace and the upload that was
\* admitted stay within it, if the rows of the workspace are its own.
WorkspaceWithinBlobQuota ==
  \A w \in Unambiguous :
    LET pending == {u.digest : u \in {x \in put : x.workspace = w}}
    IN BytesOf(BlobsOf(w) \cup pending) <= MaxBlobsBytes

\* "`blobs/` is immutable after a successful write" (embedded-storage.md): a
\* row of BLOBS names a file with the whole content, whoever uploads the same
\* content again, unless some write of that file was cut short by an error, a
\* death of the server or a loss of power.  (After that, put_blob takes the
\* short file for the content: see the README.)
RowsNameWholeBlobs ==
  \A row \in data[Canonical].rows :
    data[row[2]] = Condition("whole") \/ row[2] \in interrupted

\* "an immutable backup of a stopped data directory": unless a server is
\* started while the command copies, what it publishes is the directory as it
\* was when the command checked it, file by file, and the manifest says so.
QuietBackupIsSnapshot ==
  backup.exists /\ quiet =>
    /\ backup.manifest = origin
    /\ \A p \in Paths : backup.files[p] \in {origin[p], Condition("damaged")}

\* A restore takes a damaged backup for good only if the damage came after the
\* verification: otherwise the restored directory is the one of the manifest.
RestoredIsBackup ==
  restored.exists /\ sound => restored.files = backup.manifest

\* "backup validation fails rather than publishing an unsafe snapshot" (ADR
\* 0009): in a backup that verifies, every row names a blob that is there.
BackupsAreConsistent ==
  Verifies /\ interrupted = {} =>
    \A row \in backup.files[Canonical].rows : backup.files[row[2]] = Condition("whole")

\* What the proofs add.  A short file is being written, or was cut short; the
\* store is locked by the one upload there is; ...
ShortFilesAreKnown ==
  /\ \A u, v \in put : u = v
  /\ put # {} => up
  /\ \A d \in Digests :
       \/ data[d] \in {Missing, Condition("whole")}
       \/ d \in interrupted
       \/ \E u \in put : u.digest = d /\ u.writing
  /\ \A u \in put : ~u.writing => data[u.digest] = Condition("whole") \/ u.digest \in interrupted

\* ... a backup that is quiet so far has copied only what was there; ...
QuietCopying ==
  copying =>
    /\ ~backup.exists
    /\ quiet => /\ ~up
                /\ data = origin
                /\ \A p \in Paths : /\ temporary.files[p] \in {Missing, origin[p]}
                                    /\ temporary.manifest[p] \in {Missing, origin[p]}

\* ... and a restore works on a backup that is not replaced.
RestoreOfBackup ==
  /\ backup.exists => Present(backup.files) = Present(backup.manifest)
  /\ restoring \/ restored.exists => backup.exists
  /\ restoring => ~restored.exists
  /\ restoring /\ sound =>
       /\ backup.files = backup.manifest
       /\ \A p \in Paths : staging.files[p] \in {Missing, backup.files[p]}

\* The inductive invariant of module DataDirectoryProofs.
FilesInv ==
  /\ TypeOK
  /\ RowsNameWholeBlobs
  /\ ShortFilesAreKnown
  /\ QuietCopying
  /\ QuietBackupIsSnapshot
  /\ RestoreOfBackup
  /\ RestoredIsBackup

DirectoryInv == FilesInv /\ WorkspaceWithinBlobQuota
=============================================================================
