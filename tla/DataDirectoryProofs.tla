------------------------ MODULE DataDirectoryProofs ------------------------
(***************************************************************************)
(* The files of the data directory, for any number of workspaces, contents *)
(* and faults: rows name whole blobs, a quiet backup is a snapshot and a   *)
(* restore gives it back.                                                  *)
(***************************************************************************)
EXTENDS DataDirectory, SumTheorems

ServerStep ==
  \/ \E w \in Workspaces, d \in Digests : BeginPut(w, d)
  \/ EndWrite
  \/ CommitRow
  \/ PutFails
  \/ Stop
  \/ Writeback

BackupStep ==
  \/ BeginBackup
  \/ \E p \in Paths : CopyFile(p) \/ ListFile(p)
  \/ Publish
  \/ BackupFails
  \/ RemoveTemporary

RestoreStep ==
  \/ \E p \in Paths : Damage(p) \/ CopyBack(p)
  \/ BeginRestore
  \/ PublishRestore
  \/ RestoreFails
  \/ RemoveStaging

LEMMA NextSteps ==
  ASSUME [Next]_vars
  PROVE  ServerStep \/ Boot \/ PowerLoss \/ BackupStep \/ RestoreStep \/ UNCHANGED vars
BY DEF Next, ServerStep, BackupStep, RestoreStep

-----------------------------------------------------------------------------
(* Types *)

LEMMA FileTypes ==
  /\ Missing \in File
  /\ \A s \in {"missing", "partial", "whole", "torn", "damaged"} : Condition(s) \in File
  /\ \A rows \in SUBSET Rows : Database(rows) \in File
  /\ Nothing \in Files
  /\ Absent \in Directory /\ Created \in Directory
  /\ Canonical \in Paths /\ Digests \subseteq Paths
BY DEF Missing, Condition, Database, File, Nothing, Files, Absent, Created, Directory, Paths

LEMMA StatesDiffer ==
  /\ Missing # Condition("partial") /\ Missing # Condition("whole")
  /\ Missing # Condition("damaged") /\ Condition("whole") # Condition("partial")
  /\ \A rows : Database(rows) # Missing
  /\ Missing.rows = {}
BY DEF Missing, Condition, Database

LEMMA InitFilesInv == Init => FilesInv
<1> SUFFICES ASSUME Init PROVE FilesInv
  OBVIOUS
<1>1. TypeOK
  BY FileTypes DEF Init, TypeOK
<1>2. /\ \A p \in Paths : data[p] = Missing
      /\ ~copying /\ ~restoring /\ put = {} /\ ~backup.exists /\ ~restored.exists
  BY DEF Init, Nothing, Absent
<1>3. RowsNameWholeBlobs
  BY <1>2, FileTypes, StatesDiffer DEF RowsNameWholeBlobs
<1>4. ShortFilesAreKnown
  BY <1>2, FileTypes DEF ShortFilesAreKnown
<1> QED BY <1>1, <1>2, <1>3, <1>4 DEF FilesInv, QuietCopying, QuietBackupIsSnapshot, RestoreOfBackup,
       RestoredIsBackup

LEMMA TypeServer ==
  ASSUME TypeOK, ServerStep
  PROVE  TypeOK'
<1> USE DEF TypeOK
<1>1. CASE \E w \in Workspaces, d \in Digests : BeginPut(w, d)
  <2>1. PICK w \in Workspaces, d \in Digests : BeginPut(w, d)
    BY <1>1
  <2>2. put' \subseteq Upload
    BY <2>1 DEF BeginPut, Upload, Stored
  <2>3. data' \in Files
    BY <2>1, FileTypes DEF BeginPut, Files
  <2> QED BY <2>1, <2>2, <2>3 DEF BeginPut, backupVars, restoreVars
<1>2. CASE EndWrite
  <2>1. PICK u \in put :
          /\ put' = {[u EXCEPT !.writing = FALSE]}
          /\ data' = [data EXCEPT ![u.digest] = Condition("whole")]
          /\ unsynced' = unsynced \cup {u.digest}
          /\ UNCHANGED <<up, interrupted, backupVars, backup, restoreVars, sound>>
    BY <1>2 DEF EndWrite
  <2>2. u \in Upload
    BY <2>1
  <2>3. put' \subseteq Upload /\ unsynced' \subseteq Digests
    BY <2>1, <2>2 DEF Upload
  <2>4. data' \in Files
    BY <2>1, <2>2, FileTypes DEF Files
  <2> QED BY <2>1, <2>3, <2>4 DEF backupVars, restoreVars
<1>3. CASE CommitRow
  <2>1. PICK u \in put :
          /\ put' = {}
          /\ data' = [data EXCEPT ![Canonical].rows =
                        (@ \ RowOf(u.workspace, u.digest)) \cup {<<u.workspace, u.digest>>}]
          /\ UNCHANGED <<up, unsynced, interrupted, backupVars, backup, restoreVars, sound>>
    BY <1>3 DEF CommitRow
  <2>2. <<u.workspace, u.digest>> \in Rows
    BY <2>1 DEF Upload, Rows
  <2>3. data' \in Files
    <3>1. PICK rows : rows = (data[Canonical].rows \ RowOf(u.workspace, u.digest))
                                \cup {<<u.workspace, u.digest>>}
      OBVIOUS
    <3>2. rows \in SUBSET Rows
      BY <2>2, <3>1, FileTypes DEF Files, File
    <3>3. data' = [data EXCEPT ![Canonical] = [data[Canonical] EXCEPT !.rows = rows]]
      BY <2>1, <3>1
    <3> QED BY <3>2, <3>3, FileTypes, ZenonT(60) DEF Files, File
  <2> QED BY <2>1, <2>3 DEF backupVars, restoreVars
<1>4. CASE PutFails \/ Stop
  <2>1. CutShort \subseteq Digests
    BY DEF CutShort, Upload
  <2>2. interrupted' = interrupted \cup CutShort
    BY <1>4 DEF PutFails, Stop, Interrupts
  <2>3. /\ put' = {} /\ up' \in {up, FALSE}
        /\ UNCHANGED <<data, unsynced, backupVars, backup, restoreVars, sound>>
    BY <1>4 DEF PutFails, Stop
  <2> QED BY <2>1, <2>2, <2>3 DEF backupVars, restoreVars
<1>5. CASE Writeback
  BY <1>5 DEF Writeback, backupVars, restoreVars
<1> QED BY <1>1, <1>2, <1>3, <1>4, <1>5 DEF ServerStep

LEMMA TypeBackup ==
  ASSUME TypeOK, BackupStep
  PROVE  TypeOK'
<1> USE DEF TypeOK
<1>1. CASE BeginBackup
  BY <1>1, FileTypes DEF BeginBackup, serverVars, restoreVars
<1>2. ASSUME NEW p \in Paths, CopyFile(p) \/ ListFile(p)
      PROVE  TypeOK'
  <2>1. \A r \in Readings(p) : r \in File
    BY FileTypes DEF Readings, Files
  <2>2. PICK r \in Readings(p) : \/ temporary' = [temporary EXCEPT !.files[p] = r]
                                 \/ temporary' = [temporary EXCEPT !.manifest[p] = r]
    BY <1>2 DEF CopyFile, ListFile
  <2>3. temporary' \in Directory
    BY <1>2, <2>1, <2>2 DEF Directory, Files
  <2> QED BY <1>2, <2>3 DEF CopyFile, ListFile, serverVars, restoreVars
<1>3. CASE Publish
  BY <1>3, FileTypes DEF Publish, serverVars, restoreVars
<1>4. CASE BackupFails
  BY <1>4, FileTypes DEF BackupFails, EndBackup, Remains, serverVars, restoreVars
<1>5. CASE RemoveTemporary
  BY <1>5, FileTypes DEF RemoveTemporary, serverVars, restoreVars
<1> QED BY <1>1, <1>2, <1>3, <1>4, <1>5 DEF BackupStep

LEMMA TypeRestore ==
  ASSUME TypeOK, RestoreStep
  PROVE  TypeOK'
<1> USE DEF TypeOK
<1>1. ASSUME NEW p \in Paths, Damage(p)
      PROVE  TypeOK'
  <2>1. backup' \in Directory
    BY <1>1, FileTypes DEF Damage, Directory, Files
  <2>2. sound' \in BOOLEAN
    BY <1>1 DEF Damage
  <2> QED BY <1>1, <2>1, <2>2 DEF Damage, serverVars, backupVars, restoreVars
<1>2. ASSUME NEW p \in Paths, CopyBack(p)
      PROVE  TypeOK'
  <2>1. staging' \in Directory
    BY <1>2 DEF CopyBack, Directory, Files
  <2> QED BY <1>2, <2>1 DEF CopyBack, serverVars, backupVars
<1>3. CASE BeginRestore
  BY <1>3, FileTypes DEF BeginRestore, serverVars, backupVars
<1>4. CASE PublishRestore
  BY <1>4, FileTypes DEF PublishRestore, serverVars, backupVars
<1>5. CASE RestoreFails
  BY <1>5, FileTypes DEF RestoreFails, EndRestore, Remains, serverVars, backupVars
<1>6. CASE RemoveStaging
  BY <1>6, FileTypes DEF RemoveStaging, serverVars, backupVars
<1> QED BY <1>1, <1>2, <1>3, <1>4, <1>5, <1>6 DEF RestoreStep

LEMMA TypeNext == TypeOK /\ [Next]_vars => TypeOK'
<1> SUFFICES ASSUME TypeOK, [Next]_vars
             PROVE  TypeOK'
  OBVIOUS
<1>1. CASE Boot
  <2>1. data' \in Files
    BY <1>1, FileTypes DEF Boot, TypeOK, Files
  <2>2. quiet' \in BOOLEAN
    BY <1>1 DEF Boot, TypeOK
  <2> QED BY <1>1, <2>1, <2>2 DEF Boot, TypeOK, restoreVars
<1>2. CASE PowerLoss
  <2>1. PICK lost \in SUBSET unsynced, s \in {"missing", "partial"} :
          /\ up' = FALSE /\ put' = {} /\ unsynced' = {}
          /\ data' = [p \in Paths |-> IF p \in lost THEN Condition(s) ELSE data[p]]
          /\ interrupted' = interrupted \cup (lost \cup CutShort)
          /\ EndBackup(temporary.exists) /\ EndRestore(staging.exists)
          /\ UNCHANGED <<backup, restored>>
    BY <1>2 DEF PowerLoss, Interrupts
  <2>2. data' \in Files
    BY <2>1, FileTypes DEF TypeOK, Files
  <2>3. interrupted' \subseteq Digests
    BY <2>1 DEF TypeOK, CutShort, Upload
  <2>4. /\ copying' \in BOOLEAN /\ temporary' \in Directory /\ origin' \in Files /\ quiet' \in BOOLEAN
        /\ restoring' \in BOOLEAN /\ staging' \in Directory /\ sound' \in BOOLEAN
    BY <2>1, FileTypes DEF TypeOK, EndBackup, EndRestore, Remains
  <2> QED BY <2>1, <2>2, <2>3, <2>4 DEF TypeOK
<1>3. CASE UNCHANGED vars
  BY <1>3 DEF vars, TypeOK
<1> QED BY <1>1, <1>2, <1>3, NextSteps, TypeServer, TypeBackup, TypeRestore

-----------------------------------------------------------------------------
(* Rows and blob files *)

\* The files of an upload: no step of the upload or of a fault makes a file of
\* a row short without noting it.
LEMMA BeginPutFiles ==
  ASSUME FilesInv, NEW w \in Workspaces, NEW d \in Digests, BeginPut(w, d)
  PROVE  RowsNameWholeBlobs' /\ ShortFilesAreKnown'
<1> DEFINE u == [workspace |-> w, digest |-> d, writing |-> data[d] = Missing]
<1>1. /\ up /\ put = {} /\ put' = {u}
      /\ data' = IF data[d] # Missing THEN data ELSE [data EXCEPT ![d] = Condition("partial")]
      /\ UNCHANGED <<up, interrupted>>
  BY DEF BeginPut, Stored
<1>2. /\ TypeOK /\ d \in Paths /\ d # Canonical
      /\ \A x \in Digests : data[x] \in {Missing, Condition("whole")} \/ x \in interrupted
  BY <1>1, PathsAssumption DEF FilesInv, ShortFilesAreKnown, Paths
<1>3. \A p \in Paths : p # d => data'[p] = data[p]
  BY <1>1, <1>2 DEF TypeOK, Files
<1>4. data[d] # Missing => data'[d] = data[d]
  BY <1>1
<1>5. RowsNameWholeBlobs'
  <2> SUFFICES ASSUME NEW row \in data'[Canonical].rows
               PROVE  data'[row[2]] = Condition("whole") \/ row[2] \in interrupted
    BY <1>1 DEF RowsNameWholeBlobs
  <2>1. row \in data[Canonical].rows /\ row[2] \in Paths
    BY <1>2, <1>3, FileTypes DEF TypeOK, Files, File, Rows
  <2>2. data[row[2]] = Condition("whole") \/ row[2] \in interrupted
    BY <2>1 DEF FilesInv, RowsNameWholeBlobs
  <2> QED BY <1>3, <1>4, <2>1, <2>2, StatesDiffer
<1>6. ShortFilesAreKnown'
  <2>1. u.digest = d /\ u.writing = (data[d] = Missing)
    OBVIOUS
  <2>2. ASSUME NEW x \in Digests
        PROVE  \/ data'[x] \in {Missing, Condition("whole")}
               \/ x \in interrupted
               \/ x = d /\ data[d] = Missing
    BY <1>2, <1>3, <1>4 DEF Paths
  <2>3. data[d] # Missing => data'[d] = Condition("whole") \/ d \in interrupted
    BY <1>2, <1>4
  <2> HIDE DEF u
  <2> QED BY <1>1, <2>1, <2>2, <2>3 DEF ShortFilesAreKnown
<1> QED BY <1>5, <1>6

LEMMA EndWriteFiles ==
  ASSUME FilesInv, EndWrite
  PROVE  RowsNameWholeBlobs' /\ ShortFilesAreKnown'
<1>1. PICK u \in put :
        /\ u.writing
        /\ put' = {[u EXCEPT !.writing = FALSE]}
        /\ data' = [data EXCEPT ![u.digest] = Condition("whole")]
        /\ UNCHANGED <<up, interrupted>>
  BY DEF EndWrite
<1>2. /\ TypeOK /\ u \in Upload /\ u.digest \in Digests
      /\ u.digest \in Paths /\ u.digest # Canonical /\ put = {u} /\ up
  BY <1>1, PathsAssumption DEF FilesInv, TypeOK, Upload, Paths, ShortFilesAreKnown
<1>3. \A p \in Paths : data'[p] = IF p = u.digest THEN Condition("whole") ELSE data[p]
  BY <1>1, <1>2 DEF TypeOK, Files
<1>4. RowsNameWholeBlobs'
  <2> SUFFICES ASSUME NEW row \in data'[Canonical].rows
               PROVE  data'[row[2]] = Condition("whole") \/ row[2] \in interrupted
    BY <1>1 DEF RowsNameWholeBlobs
  <2>1. row \in data[Canonical].rows /\ row[2] \in Paths
    BY <1>2, <1>3, FileTypes DEF TypeOK, Files, File, Rows
  <2> QED BY <1>3, <2>1 DEF FilesInv, RowsNameWholeBlobs
<1>5. ShortFilesAreKnown'
  <2>1. PICK v : v = [u EXCEPT !.writing = FALSE]
    OBVIOUS
  <2>2. put' = {v} /\ v.digest = u.digest /\ ~v.writing
    BY <1>1, <1>2, <2>1 DEF Upload
  <2>3. \A x \in Digests : data'[x] \in {Missing, Condition("whole")} \/ x \in interrupted
    BY <1>2, <1>3, FileTypes DEF FilesInv, ShortFilesAreKnown
  <2> QED BY <1>1, <1>2, <1>3, <2>2, <2>3 DEF ShortFilesAreKnown
<1> QED BY <1>4, <1>5

LEMMA CommitRowFiles ==
  ASSUME FilesInv, CommitRow
  PROVE  RowsNameWholeBlobs' /\ ShortFilesAreKnown'
<1>1. PICK u \in put :
        /\ ~u.writing
        /\ put' = {}
        /\ data' = [data EXCEPT ![Canonical].rows =
                      (@ \ RowOf(u.workspace, u.digest)) \cup {<<u.workspace, u.digest>>}]
        /\ UNCHANGED <<up, interrupted>>
  BY DEF CommitRow
<1>2. TypeOK /\ u.digest \in Digests /\ put = {u}
  BY <1>1 DEF FilesInv, TypeOK, Upload, ShortFilesAreKnown
<1>3. data'[Canonical].rows \subseteq data[Canonical].rows \cup {<<u.workspace, u.digest>>}
  BY <1>1, <1>2, FileTypes DEF TypeOK, Files, File
<1>4. \A d \in Digests : data'[d] = data[d]
  BY <1>1, <1>2, PathsAssumption, FileTypes DEF TypeOK, Files
<1>5. \A row \in data[Canonical].rows : row[2] \in Digests
  BY <1>2, FileTypes DEF TypeOK, Files, File, Rows
<1>6. data[u.digest] = Condition("whole") \/ u.digest \in interrupted
  BY <1>1 DEF FilesInv, ShortFilesAreKnown
<1>7. RowsNameWholeBlobs'
  <2> SUFFICES ASSUME NEW row \in data'[Canonical].rows
               PROVE  data'[row[2]] = Condition("whole") \/ row[2] \in interrupted
    BY <1>1 DEF RowsNameWholeBlobs
  <2>1. CASE row \in data[Canonical].rows
    BY <2>1, <1>4, <1>5 DEF FilesInv, RowsNameWholeBlobs
  <2>2. CASE row = <<u.workspace, u.digest>>
    BY <2>2, <1>2, <1>4, <1>6
  <2> QED BY <1>3, <2>1, <2>2
<1>8. ShortFilesAreKnown'
  BY <1>1, <1>2, <1>4 DEF FilesInv, ShortFilesAreKnown
<1> QED BY <1>7, <1>8

\* An upload that ends early notes the file it was writing; a loss of power
\* those that were not synced.
LEMMA FaultFiles ==
  ASSUME FilesInv, NEW lost \in SUBSET Digests, NEW s \in {"missing", "partial"},
         put' = {},
         interrupted' = interrupted \cup lost \cup CutShort,
         data' = [p \in Paths |-> IF p \in lost THEN Condition(s) ELSE data[p]]
  PROVE  RowsNameWholeBlobs' /\ ShortFilesAreKnown'
<1>1. TypeOK /\ Canonical \notin lost
  BY PathsAssumption DEF FilesInv
<1>2. data'[Canonical] = data[Canonical]
  BY <1>1, FileTypes
<1>3. \A d \in Digests : d \notin lost => data'[d] = data[d]
  BY FileTypes
<1>4. \A row \in data[Canonical].rows : row[2] \in Digests
  BY <1>1, FileTypes DEF TypeOK, Files, File, Rows
<1>5. RowsNameWholeBlobs'
  BY <1>2, <1>3, <1>4 DEF FilesInv, RowsNameWholeBlobs
<1>6. \A u \in put : u.writing => u.digest \in CutShort
  BY DEF CutShort
<1>7. ShortFilesAreKnown'
  BY <1>3, <1>6 DEF FilesInv, ShortFilesAreKnown
<1> QED BY <1>5, <1>7

LEMMA NextFiles ==
  ASSUME FilesInv, [Next]_vars
  PROVE  RowsNameWholeBlobs' /\ ShortFilesAreKnown'
<1>0. data = [p \in Paths |-> IF p \in {} THEN Condition("missing") ELSE data[p]]
  BY DEF FilesInv, TypeOK, Files
<1>1. CASE \E w \in Workspaces, d \in Digests : BeginPut(w, d)
  BY <1>1, BeginPutFiles
<1>2. CASE EndWrite
  BY <1>2, EndWriteFiles
<1>3. CASE CommitRow
  BY <1>3, CommitRowFiles
<1>4. CASE PutFails \/ Stop
  <2>1. /\ put' = {}
        /\ interrupted' = interrupted \cup {} \cup CutShort
        /\ data' = [p \in Paths |-> IF p \in {} THEN Condition("missing") ELSE data[p]]
    BY <1>0, <1>4 DEF PutFails, Stop, Interrupts
  <2> QED BY <2>1, FaultFiles
<1>5. CASE PowerLoss
  <2>1. PICK lost \in SUBSET unsynced, s \in {"missing", "partial"} :
          /\ put' = {}
          /\ interrupted' = interrupted \cup lost \cup CutShort
          /\ data' = [p \in Paths |-> IF p \in lost THEN Condition(s) ELSE data[p]]
    BY <1>5 DEF PowerLoss, Interrupts
  <2>2. lost \in SUBSET Digests
    BY DEF FilesInv, TypeOK
  <2> QED BY <2>1, <2>2, FaultFiles
<1>6. CASE Boot
  <2>1. /\ data' = IF data[Canonical] = Missing
                     THEN [data EXCEPT ![Canonical] = Database({})] ELSE data
        /\ up' = TRUE
        /\ UNCHANGED <<put, interrupted>>
    BY <1>6 DEF Boot
  <2>2. \A d \in Digests : data'[d] = data[d]
    BY <2>1, PathsAssumption, FileTypes DEF FilesInv, TypeOK, Files
  <2>3. data'[Canonical].rows \subseteq data[Canonical].rows
    BY <2>1, FileTypes DEF FilesInv, TypeOK, Files, Database
  <2>4. \A row \in data[Canonical].rows : row[2] \in Digests
    BY FileTypes DEF FilesInv, TypeOK, Files, File, Rows
  <2>5. RowsNameWholeBlobs'
    BY <2>1, <2>2, <2>3, <2>4 DEF FilesInv, RowsNameWholeBlobs
  <2>6. ShortFilesAreKnown'
    <3>1. \A u \in put : u.digest \in Digests
      BY DEF FilesInv, TypeOK, Upload
    <3> QED BY <2>1, <2>2, <3>1 DEF FilesInv, ShortFilesAreKnown
  <2> QED BY <2>5, <2>6
<1>7. CASE Writeback \/ BackupStep \/ RestoreStep \/ UNCHANGED vars
  <2>1. UNCHANGED <<up, data, put, interrupted>>
    BY <1>7 DEF Writeback, BackupStep, RestoreStep, vars, serverVars, BeginBackup, CopyFile, ListFile,
       Publish, BackupFails, RemoveTemporary, Damage, CopyBack, BeginRestore, PublishRestore,
       RestoreFails, RemoveStaging
  <2> QED BY <2>1 DEF FilesInv, RowsNameWholeBlobs, ShortFilesAreKnown
<1> QED BY <1>1, <1>2, <1>3, <1>4, <1>5, <1>6, <1>7, NextSteps DEF ServerStep

-----------------------------------------------------------------------------
(* Backup *)

\* Without a server, a fault or a command, nothing changes the data directory.
LEMMA Undisturbed ==
  ASSUME FilesInv, ServerStep, ~up
  PROVE  data' = data
<1>1. put = {}
  BY DEF FilesInv, ShortFilesAreKnown
<1> QED BY <1>1 DEF ServerStep, BeginPut, EndWrite, CommitRow, PutFails, Stop, Writeback

LEMMA NextBackup ==
  ASSUME FilesInv, [Next]_vars
  PROVE  QuietCopying' /\ QuietBackupIsSnapshot'
<1> USE DEF QuietCopying, QuietBackupIsSnapshot
<1>1. CASE ServerStep
  <2>1. UNCHANGED <<copying, temporary, backup, origin, quiet>>
    BY <1>1 DEF ServerStep, BeginPut, EndWrite, CommitRow, PutFails, Stop, Writeback, backupVars
  <2>2. ~up => ~up'
    BY <1>1 DEF ServerStep, BeginPut, EndWrite, CommitRow, PutFails, Stop, Writeback
  <2>3. ~up => data' = data
    BY <1>1, Undisturbed
  <2> QED BY <2>1, <2>2, <2>3 DEF FilesInv
<1>2. CASE Boot
  <2>1. UNCHANGED <<copying, temporary, origin, backup>> /\ quiet' = (quiet /\ ~copying)
    BY <1>2 DEF Boot
  <2> QED BY <2>1 DEF FilesInv
<1>3. CASE PowerLoss
  <2>1. ~copying' /\ (quiet' => quiet /\ ~copying) /\ backup' = backup
        /\ origin' = IF copying THEN Nothing ELSE origin
    BY <1>3 DEF PowerLoss, EndBackup
  <2> QED BY <2>1 DEF FilesInv
<1>4. CASE BeginBackup
  <2>1. /\ ~up /\ ~backup.exists /\ temporary' = Created /\ origin' = data
        /\ UNCHANGED <<up, data, backup>>
    BY <1>4 DEF BeginBackup, Stopped, serverVars
  <2>2. \A p \in Paths : temporary'.files[p] = Missing /\ temporary'.manifest[p] = Missing
    BY <2>1 DEF Created, Absent, Nothing
  <2> QED BY <2>1, <2>2
<1>5. ASSUME NEW p \in Paths, CopyFile(p) \/ ListFile(p)
      PROVE  QuietCopying' /\ QuietBackupIsSnapshot'
  <2>1. UNCHANGED <<up, data, copying, origin, quiet, backup>> /\ copying
    BY <1>5 DEF CopyFile, ListFile, serverVars
  <2>2. PICK r \in Readings(p) : \/ temporary' = [temporary EXCEPT !.files[p] = r]
                                 \/ temporary' = [temporary EXCEPT !.manifest[p] = r]
    BY <1>5 DEF CopyFile, ListFile
  <2>3. quiet => r = origin[p]
    BY <2>1, <2>2 DEF Readings, FilesInv
  <2>4. temporary \in Directory
    BY DEF FilesInv, TypeOK
  <2>5. ASSUME NEW q \in Paths
        PROVE  /\ temporary'.files[q] \in {temporary.files[q], IF q = p THEN r ELSE temporary.files[q]}
               /\ temporary'.manifest[q] \in {temporary.manifest[q],
                                              IF q = p THEN r ELSE temporary.manifest[q]}
    BY <2>2, <2>4 DEF Directory, Files
  <2> QED BY <2>1, <2>3, <2>5 DEF FilesInv
<1>6. CASE Publish
  <2>1. /\ copying /\ ~copying' /\ backup' = temporary /\ UNCHANGED <<origin, quiet>>
        /\ Present(temporary.files) = Present(temporary.manifest)
        /\ Present(origin) \subseteq Present(temporary.files)
    BY <1>6 DEF Publish, Copied
  <2>2. temporary \in Directory /\ origin \in Files
    BY DEF FilesInv, TypeOK
  <2>3. ASSUME quiet, NEW p \in Paths
        PROVE  temporary.files[p] = origin[p] /\ temporary.manifest[p] = origin[p]
    <3>1. /\ temporary.files[p] \in {Missing, origin[p]}
          /\ temporary.manifest[p] \in {Missing, origin[p]}
      BY <2>1, <2>3 DEF FilesInv
    <3>2. origin[p] # Missing => temporary.files[p] # Missing /\ temporary.manifest[p] # Missing
      BY <2>1 DEF Present
    <3> QED BY <3>1, <3>2
  <2>4. quiet => temporary.manifest = origin
    BY <2>2, <2>3 DEF Directory, Files
  <2> QED BY <2>1, <2>3, <2>4
<1>7. CASE BackupFails
  <2>1. copying /\ ~copying' /\ backup' = backup
    BY <1>7 DEF BackupFails, EndBackup
  <2> QED BY <2>1 DEF FilesInv
<1>8. CASE RemoveTemporary
  <2>1. ~copying /\ ~copying' /\ UNCHANGED <<origin, quiet, backup>>
    BY <1>8 DEF RemoveTemporary
  <2> QED BY <2>1 DEF FilesInv
<1>9. ASSUME NEW p \in Paths, Damage(p)
      PROVE  QuietCopying' /\ QuietBackupIsSnapshot'
  <2>1. /\ backup.exists /\ backup' = [backup EXCEPT !.files[p] = Condition("damaged")]
        /\ UNCHANGED <<up, data, copying, temporary, origin, quiet>>
    BY <1>9 DEF Damage, serverVars, backupVars
  <2>2. backup \in Directory
    BY DEF FilesInv, TypeOK
  <2>3. /\ backup'.exists /\ backup'.manifest = backup.manifest
        /\ \A q \in Paths : backup'.files[q] \in {backup.files[q], Condition("damaged")}
    BY <2>1, <2>2 DEF Directory, Files
  <2> QED BY <2>1, <2>3 DEF FilesInv
<1>10. CASE \/ \E p \in Paths : CopyBack(p)
            \/ BeginRestore
            \/ PublishRestore
            \/ RestoreFails
            \/ RemoveStaging
            \/ UNCHANGED vars
  <2>1. UNCHANGED <<up, data, copying, temporary, origin, quiet, backup>>
    BY <1>10 DEF CopyBack, BeginRestore, PublishRestore, RestoreFails, RemoveStaging, vars,
       serverVars, backupVars
  <2> QED BY <2>1 DEF FilesInv
<1> QED BY <1>1, <1>2, <1>3, <1>4, <1>5, <1>6, <1>7, <1>8, <1>9, <1>10, NextSteps
     DEF BackupStep, RestoreStep

-----------------------------------------------------------------------------
(* Restore *)

LEMMA NextRestore ==
  ASSUME FilesInv, [Next]_vars
  PROVE  RestoreOfBackup' /\ RestoredIsBackup'
<1> USE DEF RestoreOfBackup, RestoredIsBackup
<1>0. backup \in Directory /\ staging \in Directory /\ temporary \in Directory
  BY DEF FilesInv, TypeOK
<1>1. CASE \/ ServerStep \/ Boot \/ BeginBackup \/ BackupFails \/ RemoveTemporary
           \/ (\E p \in Paths : CopyFile(p) \/ ListFile(p))
           \/ UNCHANGED vars
  <2>1. UNCHANGED <<backup, restoring, staging, restored, sound>>
    BY <1>1 DEF ServerStep, BeginPut, EndWrite, CommitRow, PutFails, Stop, Writeback, Boot,
       BeginBackup, BackupFails, RemoveTemporary, CopyFile, ListFile, vars, restoreVars
  <2> QED BY <2>1 DEF FilesInv, Present
<1>2. CASE PowerLoss \/ RestoreFails
  <2>1. ~restoring' /\ (sound' => sound /\ ~restoring) /\ UNCHANGED <<backup, restored>>
    BY <1>2 DEF PowerLoss, RestoreFails, EndRestore
  <2> QED BY <2>1 DEF FilesInv, Present
<1>3. CASE Publish
  <2>1. /\ copying /\ backup' = temporary
        /\ Present(temporary.files) = Present(temporary.manifest)
        /\ UNCHANGED <<restoring, staging, restored, sound>>
    BY <1>3 DEF Publish, Copied, restoreVars
  <2>2. ~backup.exists
    BY <2>1 DEF FilesInv, QuietCopying
  <2>3. ~restoring /\ ~restored.exists
    BY <2>2 DEF FilesInv
  <2> QED BY <2>1, <2>3 DEF Present
<1>4. ASSUME NEW p \in Paths, Damage(p)
      PROVE  RestoreOfBackup' /\ RestoredIsBackup'
  <2>1. /\ backup.exists /\ backup.files[p] # Missing
        /\ backup' = [backup EXCEPT !.files[p] = Condition("damaged")]
        /\ sound' = (sound /\ ~restoring)
        /\ UNCHANGED <<restoring, staging, restored>>
    BY <1>4 DEF Damage, restoreVars
  <2>2. /\ backup'.exists /\ backup'.manifest = backup.manifest
        /\ \A q \in Paths : backup'.files[q] = IF q = p THEN Condition("damaged") ELSE backup.files[q]
    BY <1>0, <2>1 DEF Directory, Files
  <2>3. Present(backup'.files) = Present(backup.files)
    BY <2>1, <2>2, StatesDiffer DEF Present
  <2>4. ~(restoring' /\ sound')
    BY <2>1
  <2>5. sound' => sound
    BY <2>1
  <2>6. /\ Present(backup.files) = Present(backup.manifest)
        /\ restoring => ~restored.exists
        /\ restored.exists /\ sound => restored.files = backup.manifest
    BY <2>1 DEF FilesInv
  <2> QED BY <2>1, <2>2, <2>3, <2>4, <2>5, <2>6 DEF Present
<1>5. ASSUME NEW p \in Paths, CopyBack(p)
      PROVE  RestoreOfBackup' /\ RestoredIsBackup'
  <2>1. /\ restoring /\ staging' = [staging EXCEPT !.files[p] = backup.files[p]]
        /\ UNCHANGED <<backup, restoring, restored, sound>>
    BY <1>5 DEF CopyBack
  <2>2. \A q \in Paths : staging'.files[q] = IF q = p THEN backup.files[q] ELSE staging.files[q]
    BY <1>0, <2>1 DEF Directory, Files
  <2> QED BY <2>1, <2>2 DEF FilesInv, Present
<1>6. CASE BeginRestore
  <2>1. /\ backup.exists /\ ~restored.exists
        /\ \A p \in Present(backup.manifest) : backup.files[p] = backup.manifest[p]
        /\ restoring' /\ staging' = Created /\ sound'
        /\ UNCHANGED <<backup, restored>>
    BY <1>6 DEF BeginRestore, Verifies
  <2>2. \A p \in Paths : backup.files[p] = backup.manifest[p]
    BY <2>1 DEF FilesInv, Present
  <2>3. backup.files = backup.manifest
    BY <1>0, <2>2 DEF Directory, Files
  <2>4. \A p \in Paths : staging'.files[p] = Missing
    BY <2>1 DEF Created, Absent, Nothing
  <2> QED BY <2>1, <2>3, <2>4 DEF FilesInv, Present
<1>7. CASE PublishRestore
  <2>1. /\ restoring /\ ~restoring' /\ restored' = staging
        /\ Present(backup.files) = Present(staging.files)
        /\ UNCHANGED <<backup, sound>>
    BY <1>7 DEF PublishRestore
  <2>2. ASSUME sound, NEW p \in Paths
        PROVE  staging.files[p] = backup.files[p]
    <3>1. staging.files[p] \in {Missing, backup.files[p]}
      BY <2>1, <2>2 DEF FilesInv
    <3> QED BY <2>1, <3>1 DEF Present
  <2>3. sound => staging.files = backup.files
    BY <1>0, <2>2 DEF Directory, Files
  <2> QED BY <2>1, <2>3 DEF FilesInv, Present
<1>8. CASE RemoveStaging
  <2>1. ~restoring /\ ~restoring' /\ UNCHANGED <<backup, restored, sound>>
    BY <1>8 DEF RemoveStaging
  <2> QED BY <2>1 DEF FilesInv, Present
<1> QED BY <1>1, <1>2, <1>3, <1>4, <1>5, <1>6, <1>7, <1>8, NextSteps DEF BackupStep, RestoreStep

-----------------------------------------------------------------------------
LEMMA NextFilesInv == FilesInv /\ [Next]_vars => FilesInv'
BY TypeNext, NextFiles, NextBackup, NextRestore DEF FilesInv

\* The conditions of the files of the data directory, of a backup and of a
\* restored directory are related as the inductive invariant says.
THEOREM FilesInvariance == Spec => []FilesInv
BY InitFilesInv, NextFilesInv, PTL DEF Spec

\* put_blob: a row of BLOBS names a whole file unless a write of it was cut short.
THEOREM BlobSafety == Spec => []RowsNameWholeBlobs
<1>1. FilesInv => RowsNameWholeBlobs
  BY DEF FilesInv
<1> QED BY <1>1, FilesInvariance, PTL

\* create_backup: what is published is the directory as it was checked, unless
\* a server started meanwhile.
THEOREM SnapshotSafety == Spec => []QuietBackupIsSnapshot
<1>1. FilesInv => QuietBackupIsSnapshot
  BY DEF FilesInv
<1> QED BY <1>1, FilesInvariance, PTL

\* restore_backup: what is restored is what the manifest lists, unless the
\* backup is damaged between its verification and the end of the copy.
THEOREM RestoreSafety == Spec => []RestoredIsBackup
<1>1. FilesInv => RestoredIsBackup
  BY DEF FilesInv
<1> QED BY <1>1, FilesInvariance, PTL

-----------------------------------------------------------------------------
(* The quota of blobs *)

PendingOf(w) == {u.digest : u \in {x \in put : x.workspace = w}}
Counted(w) == BlobsOf(w) \cup PendingOf(w)

LEMMA QuotaCounts ==
  /\ WorkspaceWithinBlobQuota <=> \A w \in Unambiguous : BytesOf(Counted(w)) <= MaxBlobsBytes
  /\ WorkspaceWithinBlobQuota' <=> \A w \in Unambiguous : BytesOf(Counted(w)') <= MaxBlobsBytes
BY DEF WorkspaceWithinBlobQuota, Counted, PendingOf

\* Bytes of a set of contents: a part has no more, one content adds its size.
LEMMA BytesOfContents ==
  ASSUME NEW S \in SUBSET Digests
  PROVE  /\ BytesOf(S) \in Nat
         /\ \A T \in SUBSET S : BytesOf(T) \in Nat /\ BytesOf(T) <= BytesOf(S)
         /\ \A d \in Digests \ S : BytesOf(S \cup {d}) = BytesOf(S) + SizeOf[d]
<1> DEFINE F(X) == [d \in X |-> SizeOf[d]]
<1>1. \A X \in SUBSET Digests : F(X) \in [X -> Nat] /\ IsFiniteSet(X) /\ BytesOf(X) = SumFunction(F(X))
  BY SizesAssumption, PathsAssumption, FS_Subset DEF BytesOf
<1>2. \A X \in SUBSET Digests : \A d \in X : F(X)[d] = SizeOf[d] /\ SizeOf[d] \in Nat
  BY SizesAssumption
<1> HIDE DEF F
<1>3. \A X \in SUBSET Digests : BytesOf(X) \in Nat
  BY <1>1, TotalIsNat
<1>4. ASSUME NEW T \in SUBSET S PROVE BytesOf(T) <= BytesOf(S)
  <2>1. \A d \in T : F(T)[d] <= F(S)[d]
    BY <1>2
  <2>2. F(S) \in [S -> Nat] /\ IsFiniteSet(S) /\ F(T) \in [T -> Nat]
    BY <1>1
  <2>3. SumFunction(F(T)) <= SumFunction(F(S))
    BY <2>1, <2>2, TotalOfPart
  <2> QED BY <1>1, <2>3
<1>5. ASSUME NEW d \in Digests \ S PROVE BytesOf(S \cup {d}) = BytesOf(S) + SizeOf[d]
  <2>1. \A x \in S : F(S \cup {d})[x] = F(S)[x]
    BY <1>2
  <2>2. F(S) \in [S -> Nat] /\ IsFiniteSet(S) /\ F(S \cup {d}) \in [S \cup {d} -> Nat]
    BY <1>1
  <2>3. SumFunction(F(S \cup {d})) = SumFunction(F(S)) + F(S \cup {d})[d]
    BY <2>1, <2>2, TotalOfOneMore
  <2> QED BY <1>1, <1>2, <2>3
<1> QED BY <1>3, <1>4, <1>5

\* What is counted for a workspace consists of contents.
LEMMA CountedAreContents ==
  ASSUME TypeOK, NEW w \in Workspaces
  PROVE  Counted(w) \subseteq Digests
BY DEF Counted, PendingOf, BlobsOf, TypeOK, Upload

\* Only an upload that is admitted counts for more than what was there.
LEMMA CountedSteps ==
  ASSUME FilesInv, [Next]_vars, NEW x \in Workspaces,
         ~\E d \in Digests : BeginPut(x, d)
  PROVE  Counted(x)' \subseteq Counted(x)
<1>0. TypeOK /\ Canonical \in Paths /\ Canonical \notin Digests
  BY PathsAssumption, FileTypes DEF FilesInv
<1>1. ASSUME NEW w \in Workspaces, NEW d \in Digests, BeginPut(w, d)
      PROVE  Counted(x)' \subseteq Counted(x)
  <2>1. w # x /\ put' = {[workspace |-> w, digest |-> d, writing |-> ~Stored(w, d)]}
    BY <1>1 DEF BeginPut
  <2>2. PendingOf(x)' = {}
    BY <2>1 DEF PendingOf
  <2>3. data'[Canonical] = data[Canonical]
    BY <1>0, <1>1 DEF BeginPut, TypeOK, Files
  <2> QED BY <2>2, <2>3 DEF Counted, BlobsOf
<1>2. CASE EndWrite
  <2>1. PICK u \in put :
          /\ put' = {[u EXCEPT !.writing = FALSE]}
          /\ data' = [data EXCEPT ![u.digest] = Condition("whole")]
    BY <1>2 DEF EndWrite
  <2>2. u \in Upload
    BY <1>0, <2>1 DEF TypeOK
  <2>3. data'[Canonical] = data[Canonical]
    BY <1>0, <2>1, <2>2 DEF Upload, TypeOK, Files
  <2>4. PendingOf(x)' \subseteq PendingOf(x)
    BY <2>1, <2>2 DEF PendingOf, Upload
  <2> QED BY <2>3, <2>4 DEF Counted, BlobsOf
<1>3. CASE CommitRow
  <2>1. PICK u \in put :
          /\ put' = {}
          /\ data' = [data EXCEPT ![Canonical].rows =
                        (@ \ RowOf(u.workspace, u.digest)) \cup {<<u.workspace, u.digest>>}]
    BY <1>3 DEF CommitRow
  <2>2. data'[Canonical].rows \subseteq data[Canonical].rows \cup {<<u.workspace, u.digest>>}
    BY <1>0, <2>1 DEF TypeOK, Files, File
  <2>3. PendingOf(x)' = {}
    BY <2>1 DEF PendingOf
  <2>4. BlobsOf(x)' \subseteq BlobsOf(x) \cup PendingOf(x)
    BY <2>1, <2>2 DEF BlobsOf, PendingOf
  <2> QED BY <2>3, <2>4 DEF Counted
<1>4. CASE PutFails \/ Stop \/ PowerLoss
  <2>1. put' = {} /\ data'[Canonical] = data[Canonical]
    BY <1>0, <1>4 DEF PutFails, Stop, PowerLoss, TypeOK
  <2>2. PendingOf(x)' = {}
    BY <2>1 DEF PendingOf
  <2> QED BY <2>1, <2>2 DEF Counted, BlobsOf
<1>5. CASE Boot
  <2>1. put' = put /\ data'[Canonical].rows \subseteq data[Canonical].rows
    BY <1>0, <1>5, FileTypes DEF Boot, TypeOK, Files, Database
  <2> QED BY <2>1 DEF Counted, BlobsOf, PendingOf
<1>6. CASE Writeback \/ BackupStep \/ RestoreStep \/ UNCHANGED vars
  <2>1. UNCHANGED <<data, put>>
    BY <1>6 DEF Writeback, BackupStep, RestoreStep, vars, serverVars, BeginBackup, CopyFile, ListFile,
       Publish, BackupFails, RemoveTemporary, Damage, CopyBack, BeginRestore, PublishRestore,
       RestoreFails, RemoveStaging
  <2> QED BY <2>1 DEF Counted, BlobsOf, PendingOf
<1> QED BY <1>1, <1>2, <1>3, <1>4, <1>5, <1>6, NextSteps DEF ServerStep

LEMMA NextQuota ==
  FilesInv /\ WorkspaceWithinBlobQuota /\ [Next]_vars => WorkspaceWithinBlobQuota'
<1> SUFFICES ASSUME FilesInv, WorkspaceWithinBlobQuota, [Next]_vars, NEW x \in Unambiguous
             PROVE  BytesOf(Counted(x)') <= MaxBlobsBytes
  BY QuotaCounts
<1>0. x \in Workspaces
  BY DEF Unambiguous
<1>1. Counted(x) \in SUBSET Digests /\ BytesOf(Counted(x)) <= MaxBlobsBytes
  BY <1>0, CountedAreContents, QuotaCounts DEF FilesInv
<1>2. CASE ~\E d \in Digests : BeginPut(x, d)
  <2>1. Counted(x)' \in SUBSET Counted(x)
    BY <1>0, <1>2, CountedSteps
  <2>2. BytesOf(Counted(x)') \in Nat /\ BytesOf(Counted(x)') <= BytesOf(Counted(x))
        /\ BytesOf(Counted(x)) \in Nat
    BY <1>1, <2>1, BytesOfContents
  <2> QED BY <1>1, <2>2, SizesAssumption
<1>3. ASSUME NEW d \in Digests, BeginPut(x, d)
      PROVE  BytesOf(Counted(x)') <= MaxBlobsBytes
  <2>1. put = {} /\ put' = {[workspace |-> x, digest |-> d, writing |-> ~Stored(x, d)]}
    BY <1>3 DEF BeginPut
  <2>2. data'[Canonical] = data[Canonical]
    BY <1>3, PathsAssumption, FileTypes DEF BeginPut, FilesInv, TypeOK, Files
  <2>3. Counted(x) = BlobsOf(x) /\ Counted(x)' = BlobsOf(x) \cup {d}
    <3>1. PICK u : u = [workspace |-> x, digest |-> d, writing |-> ~Stored(x, d)]
      OBVIOUS
    <3>2. put = {} /\ put' = {u} /\ u.workspace = x /\ u.digest = d
      BY <2>1, <3>1
    <3>3. PendingOf(x) = {} /\ PendingOf(x)' = {d}
      BY <3>2 DEF PendingOf
    <3>4. BlobsOf(x)' = BlobsOf(x)
      BY <2>2 DEF BlobsOf
    <3> QED BY <3>3, <3>4 DEF Counted
  <2>4. CASE d \in BlobsOf(x)
    <3>1. BlobsOf(x) \cup {d} = BlobsOf(x)
      BY <2>4
    <3> QED BY <1>1, <2>3, <3>1
  <2>5. CASE d \notin BlobsOf(x)
    <3>1. BytesOf(BlobsOf(x)) + SizeOf[d] <= MaxBlobsBytes
      <4>1. RowOf(x, d) = {}
        <5>1. data[Canonical].rows \subseteq Rows
          BY FileTypes DEF FilesInv, TypeOK, Files, File
        <5> QED BY <2>5, <5>1 DEF RowOf, Rows, Unambiguous, BlobsOf
      <4> QED BY <1>3, <4>1 DEF BeginPut, AdmitsBlob
    <3>2. BytesOf(BlobsOf(x) \cup {d}) = BytesOf(BlobsOf(x)) + SizeOf[d]
      BY <1>1, <2>3, <2>5, BytesOfContents
    <3> QED BY <2>3, <3>1, <3>2
  <2> QED BY <2>4, <2>5
<1> QED BY <1>2, <1>3

\* enforce_blob_limits: the committed blobs of a workspace and the upload in
\* progress stay within max_blobs_bytes, whatever fails or is cut short.
THEOREM DirectorySafety == Spec => []DirectoryInv
<1>1. Init => WorkspaceWithinBlobQuota
  <2> SUFFICES ASSUME Init, NEW w \in Unambiguous PROVE BytesOf(Counted(w)) <= MaxBlobsBytes
    BY QuotaCounts
  <2>1. Counted(w) = {}
    BY FileTypes, StatesDiffer DEF Init, Counted, BlobsOf, PendingOf, Nothing
  <2>2. BytesOf(Counted(w)) = 0
    BY <2>1, TotalOfNone DEF BytesOf
  <2> QED BY <2>2, SizesAssumption
<1>2. Spec => []WorkspaceWithinBlobQuota
  BY <1>1, NextQuota, FilesInvariance, PTL DEF Spec
<1> QED BY <1>2, FilesInvariance, PTL DEF DirectoryInv
=============================================================================
