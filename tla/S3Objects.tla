------------------------------ MODULE S3Objects ------------------------------
(***************************************************************************)
(* One key of an S3 bucket: its current row (s3_objects), the rows of its  *)
(* versions (s3_object_versions) and the files that hold the bytes.        *)
(*                                                                         *)
(* A put commits its rows and renames its temporary file over the object's *)
(* afterwards; a read takes a row and then the file the row names; a       *)
(* delete removes a row and then the file.  Writers of versions hold the   *)
(* key's lock from before the rows to after the file.  Reads take no lock, *)
(* and neither does the delete of a bucket that was never versioned, nor   *)
(* the bucket's versioning status, which every request reads first.        *)
(*                                                                         *)
(* The content of a write, its ETag included, is the number of the write,  *)
(* which is also the version id it gets under versioning.  A request may   *)
(* stop after any of its steps: a statement or the rename fails, or the    *)
(* process ends.                                                           *)
(***************************************************************************)
EXTENDS Naturals, FiniteSets

CONSTANTS
    Clients,      \* goroutines serving requests
    None,         \* no row, no file, no version id, no versioning status
    Plain,        \* the file of the key itself, outside versioning
    NullVersion,  \* the version id "null", and the file of that version
    MaxWrites,    \* bound: puts and delete markers
    MaxTime       \* bound: seconds

ASSUME NamesAssumption ==
    /\ MaxWrites \in Nat /\ MaxTime \in Nat
    /\ None \notin Nat /\ Plain \notin Nat /\ NullVersion \notin Nat
    /\ None # Plain /\ None # NullVersion /\ Plain # NullVersion

VARIABLES
    status,    \* the bucket's versioning status
    current,   \* the row of s3_objects, or None
    versions,  \* the rows of s3_object_versions
    files,     \* files[p]: whose content file p has, or None
    now,       \* the clock, in seconds: last_modified knows no finer time
    written,   \* writes begun so far
    op,        \* op[c]: where client c's request stands
    harmed,    \* history: writes cut short after their rows were committed,
               \* or met by a delete that takes no lock
    bypassed   \* history: the last change of the current row was made outside
               \* versioning

vars == <<status, current, versions, files, now, written, op, harmed, bypassed>>

Writes == 1..MaxWrites
Ids == {NullVersion} \cup Writes
Paths == {Plain} \cup Ids
Statuses == {"Enabled", "Suspended"}

Row == [write : Writes, path : Paths]
Version == [id : Ids, write : Writes, path : Ids \cup {None}, marker : BOOLEAN,
            modified : 0..MaxTime, latest : BOOLEAN]

\* A request, by what it does next.
Request ==
    [kind : {"put"}, status : Statuses \cup {None}]
      \cup [kind : {"rename"}, write : Writes, path : Paths]
      \cup [kind : {"delete"}, status : Statuses \cup {None}, id : Ids \cup {None}]
      \cup [kind : {"deleteRow", "deleteFile"}, row : Row]
      \cup [kind : {"deleteVersionFile"}, path : Ids]
      \cup [kind : {"read"}, id : Ids \cup {None}, row : Row]
      \cup [kind : {"answer"}, id : Ids \cup {None}, row : Row, data : Writes]

Idle == [kind |-> "idle"]

TypeOK ==
    /\ status \in Statuses \cup {None}
    /\ current \in Row \cup {None}
    /\ versions \in SUBSET Version
    /\ files \in [Paths -> Writes \cup {None}]
    /\ now \in 0..MaxTime
    /\ written \in 0..MaxWrites
    /\ op \in [Clients -> Request \cup {Idle}]
    /\ harmed \in SUBSET Writes
    /\ bypassed \in BOOLEAN

Init ==
    /\ status = None /\ current = None /\ versions = {}
    /\ files = [p \in Paths |-> None]
    /\ now = 0 /\ written = 0 /\ harmed = {} /\ bypassed = FALSE
    /\ op = [c \in Clients |-> Idle]

Goto(c, request) == op' = [op EXCEPT ![c] = request]

\* lockS3Object: held from the rows of a write to its file.
UnlockedAlways == TRUE
Unlocked == \A c \in Clients : op[c].kind \notin {"rename", "deleteVersionFile"}

\* A delete of an unversioned object is between its HeadObject and its Remove.
PlainDeleteRuns == \E c \in Clients : op[c].kind \in {"deleteRow", "deleteFile"}

-----------------------------------------------------------------------------
\* SetBucketVersioning; a bucket never becomes unversioned again.
SetBucketVersioning ==
    /\ \E s \in Statuses : s # status /\ status' = s
    /\ UNCHANGED <<current, versions, files, now, written, op, harmed, bypassed>>

\* PutObjectVersioned reads the versioning status before it takes the lock.
\* Other services call PutObject themselves, whatever the status.
BeginPut(c) ==
    /\ op[c] = Idle /\ written < MaxWrites
    /\ \E s \in {status, None} : Goto(c, [kind |-> "put", status |-> s])
    /\ UNCHANGED <<status, current, versions, files, now, written, harmed, bypassed>>

\* The id of a new version or delete marker.
NewId(s, n) == IF s = "Enabled" THEN n ELSE NullVersion

\* A version's bytes are in the file key.versionID.
PathOfKey(id) == NullVersion
PathOf(id) == id

\* UPDATE ... SET is_latest = 0, then INSERT ... ON CONFLICT (version_id).
Superseded(id) == {[v EXCEPT !.latest = FALSE] : v \in {w \in versions : w.id # id}}

\* The conflict clause of a put leaves is_delete_marker as it was.
MarkerKept(id) == \E v \in versions : v.id = id /\ v.marker

\* Under the key's lock: the last_modified stamp and the rows.
CommitRows(c, n) ==
    /\ op[c].kind = "put" /\ Unlocked
    /\ LET id == NewId(op[c].status, n)
           path == IF op[c].status = None THEN Plain ELSE PathOf(id)
       IN /\ current' = [write |-> n, path |-> path]
          /\ IF op[c].status = None
             THEN UNCHANGED versions
             ELSE versions' = Superseded(id) \cup
                    {[id |-> id, write |-> n, path |-> path, marker |-> MarkerKept(id),
                      modified |-> now, latest |-> TRUE]}
          /\ Goto(c, [kind |-> "rename", write |-> n, path |-> path])
    /\ harmed' = IF PlainDeleteRuns THEN harmed \cup {n} ELSE harmed
    /\ bypassed' = (op[c].status = None)
    /\ written' = n
    /\ UNCHANGED <<status, files, now>>

PutRows(c) == written < MaxWrites /\ CommitRows(c, written + 1)

\* os.Rename, and the lock is released.
RenameFile(c) ==
    /\ op[c].kind = "rename"
    /\ files' = [files EXCEPT ![op[c].path] = op[c].write]
    /\ Goto(c, Idle)
    /\ UNCHANGED <<status, current, versions, now, written, harmed, bypassed>>

-----------------------------------------------------------------------------
\* DeleteObjectVersioned reads the status; internal callers of DeleteObject
\* do not.
BeginDelete(c) ==
    /\ op[c] = Idle
    /\ \E s \in {status, None}, id \in {v.id : v \in versions} \cup {None} :
         Goto(c, [kind |-> "delete", status |-> s, id |-> id])
    /\ UNCHANGED <<status, current, versions, files, now, written, harmed, bypassed>>

\* DeleteObjectWithOptions, without the lock: HeadObject, the row, the file.
HeadForDelete(c) ==
    /\ op[c].kind = "delete" /\ op[c].status = None
    /\ Goto(c, IF current = None THEN Idle ELSE [kind |-> "deleteRow", row |-> current])
    /\ UNCHANGED <<status, current, versions, files, now, written, harmed, bypassed>>

DeleteRow(c) ==
    /\ op[c].kind = "deleteRow"
    /\ current' = None
    /\ harmed' = harmed \cup {op[c].row.write}
    /\ bypassed' = (bypassed \/ current # None)
    /\ Goto(c, [kind |-> "deleteFile", row |-> op[c].row])
    /\ UNCHANGED <<status, versions, files, now, written>>

DeleteFile(c) ==
    /\ op[c].kind = "deleteFile"
    /\ files' = [files EXCEPT ![op[c].row.path] = None]
    /\ Goto(c, Idle)
    /\ UNCHANGED <<status, current, versions, now, written, harmed, bypassed>>

\* promoteNextObjectVersionTx: the version modified last.  Versions of one
\* second are ordered by their ids, which are random: any of them.
Oldest(rows) == {v \in rows : \A w \in rows : w.modified >= v.modified}
Newest(rows) == {v \in rows : \A w \in rows : w.modified <= v.modified}
Promoted(rows, next) == {[v EXCEPT !.latest = (v = next)] : v \in rows}

\* syncS3ObjectFromLatestVersionTx.
SyncedAlways(next) == [write |-> next.write, path |-> next.path]
SyncedUnlessMarker(next) == IF next.marker THEN current ELSE SyncedAlways(next)
Synced(next) == IF next.marker THEN None ELSE SyncedAlways(next)

\* The transaction of deleteObjectVersionByID, on the row v.
RemoveVersion(v) ==
    LET rest == versions \ {v} IN
    \/ ~v.latest /\ versions' = rest /\ UNCHANGED <<current, bypassed>>
    \/ v.latest /\ rest = {} /\ versions' = rest /\ current' = None /\ bypassed' = FALSE
    \/ /\ v.latest /\ bypassed' = FALSE
       /\ \E next \in Newest(rest) :
            versions' = Promoted(rest, next) /\ current' = Synced(next)

\* The file of a delete marker, or of a version that was one, stays.
DeleteVersion(c) ==
    /\ op[c].kind = "delete" /\ op[c].status # None /\ op[c].id # None /\ Unlocked
    /\ \E v \in versions :
         /\ v.id = op[c].id
         /\ RemoveVersion(v)
         /\ Goto(c, IF v.marker \/ v.path = None THEN Idle
                    ELSE [kind |-> "deleteVersionFile", path |-> v.path])
    /\ UNCHANGED <<status, files, now, written, harmed>>

VersionGone(c) ==
    /\ op[c].kind = "delete" /\ op[c].status # None /\ op[c].id # None /\ Unlocked
    /\ \A v \in versions : v.id # op[c].id
    /\ Goto(c, Idle)
    /\ UNCHANGED <<status, current, versions, files, now, written, harmed, bypassed>>

DeleteVersionFile(c) ==
    /\ op[c].kind = "deleteVersionFile"
    /\ files' = [files EXCEPT ![op[c].path] = None]
    /\ Goto(c, Idle)
    /\ UNCHANGED <<status, current, versions, now, written, harmed, bypassed>>

\* createDeleteMarker; a null version it replaces loses its path.
PutMarker(c, n) ==
    /\ op[c].kind = "delete" /\ op[c].status # None /\ op[c].id = None /\ Unlocked
    /\ LET id == NewId(op[c].status, n) IN
         versions' = Superseded(id) \cup
           {[id |-> id, write |-> n, path |-> None, marker |-> TRUE,
             modified |-> now, latest |-> TRUE]}
    /\ current' = None /\ bypassed' = FALSE
    /\ written' = n
    /\ Goto(c, Idle)
    /\ UNCHANGED <<status, files, now, harmed>>

CreateDeleteMarker(c) == written < MaxWrites /\ PutMarker(c, written + 1)

-----------------------------------------------------------------------------
\* What a get may find: the current row outside versioning, else the version
\* asked for or the latest, unless it is a delete marker.
Wanted(s, id) ==
    IF id = None /\ s = None
    THEN {[kind |-> "read", id |-> None, row |-> row] : row \in {current} \ {None}}
    ELSE {[kind |-> "read", id |-> v.id, row |-> [write |-> v.write, path |-> v.path]] :
            v \in {w \in versions : ~w.marker /\ IF id = None THEN w.latest ELSE w.id = id}}

\* GetObjectVersion reads the status and then a row; internal callers of
\* GetObject read the current row whatever the status, as does a request whose
\* status is out of date.
GetRow(c) ==
    /\ op[c] = Idle
    /\ \E s \in {status, None}, id \in {v.id : v \in versions} \cup {None} :
         \E read \in Wanted(s, id) : Goto(c, read)
    /\ UNCHANGED <<status, current, versions, files, now, written, harmed, bypassed>>

\* A row whose file is missing is an internal error.
ReadFile(c) ==
    /\ op[c].kind = "read"
    /\ LET data == files[op[c].row.path] IN
         Goto(c, IF data = None THEN Idle
                 ELSE [kind |-> "answer", id |-> op[c].id, row |-> op[c].row, data |-> data])
    /\ UNCHANGED <<status, current, versions, files, now, written, harmed, bypassed>>

Answered(c) ==
    /\ op[c].kind = "answer"
    /\ Goto(c, Idle)
    /\ UNCHANGED <<status, current, versions, files, now, written, harmed, bypassed>>

-----------------------------------------------------------------------------
\* The request ends where it stands, and a lock it holds is free; a read that
\* does leaves nothing behind.
Fail(c) ==
    /\ op[c] # Idle /\ op[c].kind \notin {"read", "answer"}
    /\ harmed' = IF op[c].kind = "rename" THEN harmed \cup {op[c].write} ELSE harmed
    /\ Goto(c, Idle)
    /\ UNCHANGED <<status, current, versions, files, now, written, bypassed>>

Tick ==
    /\ now < MaxTime /\ now' = now + 1
    /\ UNCHANGED <<status, current, versions, files, written, op, harmed, bypassed>>

ClientStep(c) ==
    \/ BeginPut(c) \/ PutRows(c) \/ RenameFile(c)
    \/ BeginDelete(c) \/ HeadForDelete(c) \/ DeleteRow(c) \/ DeleteFile(c)
    \/ DeleteVersion(c) \/ VersionGone(c) \/ DeleteVersionFile(c) \/ CreateDeleteMarker(c)
    \/ GetRow(c) \/ ReadFile(c) \/ Answered(c)
    \/ Fail(c)

Next == SetBucketVersioning \/ Tick \/ \E c \in Clients : ClientStep(c)

Spec == Init /\ [][Next]_vars

-----------------------------------------------------------------------------
\* Rows that have bytes, and are not those of a put about to rename its file.
StoredRows ==
    ({current} \ {None}) \cup {[write |-> v.write, path |-> v.path] :
                                 v \in {w \in versions : w.path # None}}
Renaming(row) == \E c \in Clients : op[c].kind = "rename" /\ op[c].write = row.write

\* The metadata and the bytes agree: the file a row names holds what the row's
\* write brought, whatever writes and deletes of versions overlap, except for a
\* write that was cut short between the two or met by an unlocked delete
\* (PutObject, PutObjectVersioned, deleteObjectVersionByID, lockS3Object).
BytesKept ==
    \A row \in StoredRows :
        row.write \in harmed \/ Renaming(row) \/ files[row.path] = row.write

\* A key with versions has one latest version, and none is younger
\* (promoteNextObjectVersionTx and the is_latest updates).
LatestIsNewest ==
    versions # {} =>
        \E v \in versions : /\ v.latest
                            /\ \A w \in versions : w.modified <= v.modified /\ (w.latest => w = v)

\* What GetObjectVersion serves by name in a bucket with versioning.
Served(rows) ==
    LET heads == {v \in rows : v.latest /\ ~v.marker} IN
    IF heads = {} THEN None
    ELSE LET v == CHOOSE v \in heads : TRUE IN [write |-> v.write, path |-> v.path]

\* The latest version is a delete marker that a put wrote over.
PutOverMarker == \E v \in versions : v.latest /\ v.marker /\ v.path # None

\* In a bucket with versioning HeadObject and ListObjectsV2, which read the
\* current row, see the object GetObjectVersion serves, and none where it serves
\* none, through puts, delete markers, deletes of versions and promotions
\* (syncS3ObjectFromLatestVersionTx, createDeleteMarker).  Two cases are not
\* claimed: a put or delete with an old status or by another service, which
\* changes the current row beside the versions, until the next change of both;
\* and a put over the delete marker "null", which only GetObjectVersion misses.
HeadMatchesGet == bypassed \/ PutOverMarker \/ current = Served(versions)

\* A read of a version other than "null" never answers with the bytes of another
\* write than its ETag, though it reads row and file separately and without the
\* lock (GetObjectVersion).
ReadsWhole ==
    \A c \in Clients :
        op[c].kind = "answer" /\ op[c].id \in Writes => op[c].data = op[c].row.write

\* The latest version is served or is a delete marker: a version that a put
\* wrote to is not taken for one (PutObjectVersioned, GetObjectVersion).
PutsAreServed == \A v \in versions : v.latest /\ v.marker => v.path = None
=============================================================================
