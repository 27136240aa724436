--------------------------- MODULE S3ObjectsProofs ---------------------------
(***************************************************************************)
(* Proofs about S3Objects for every number of clients, writes and seconds. *)
(***************************************************************************)
EXTENDS S3Objects, TLAPS

\* What the transactions keep of the version rows: an id is a key, names the
\* row's file, and but for "null" is the number of its write.
VersionsOK ==
  /\ \A v \in versions : /\ v.write <= written
                         /\ v.modified <= now
                         /\ v.path = v.id \/ v.path = None
                         /\ v.path = None => v.marker
                         /\ v.id # NullVersion => v.id = v.write
  /\ \A v, w \in versions : v.id = w.id => v = w

CurrentOK == current # None => current.write <= written

Holds(c) == op[c].kind \in {"rename", "deleteVersionFile"}

\* A current row with a version's file is of the latest version.
CurrentMirrorsLatest ==
  current # None /\ current.path # Plain =>
     \E v \in versions : v.latest /\ v.write = current.write /\ v.path = current.path

LockOK == \A c, d \in Clients : Holds(c) /\ Holds(d) => c = d

\* A put about to rename its file has the rows of that file to itself.
RenameOK ==
  \A c \in Clients : op[c].kind = "rename" =>
     /\ op[c].write <= written
     /\ op[c].path \in Writes => op[c].path = op[c].write
     /\ \A row \in StoredRows : row.path = op[c].path <=> row.write = op[c].write

\* No row is left of a version whose file is about to be removed.
PurgeOK ==
  \A c \in Clients : op[c].kind = "deleteVersionFile" =>
     \A row \in StoredRows : row.path # op[c].path

\* What names the file that an unlocked delete is about to remove is what it
\* found, or was put beside it.
PlainOK ==
  \A c \in Clients :
     /\ op[c].kind = "deleteRow" =>
          \A row \in StoredRows : row.path = op[c].row.path =>
             row.write \in harmed \/ row.write = op[c].row.write
     /\ op[c].kind = "deleteFile" =>
          \A row \in StoredRows : row.path = op[c].row.path => row.write \in harmed

\* The file of a version id holds that write or nothing.
FilesOK == \A p \in Writes : files[p] = None \/ files[p] = p

ReadsOK ==
  \A c \in Clients : op[c].kind \in {"read", "answer"} /\ op[c].id \in Writes =>
     op[c].row.path = op[c].id /\ op[c].row.write = op[c].id

IInv ==
  /\ TypeOK /\ VersionsOK /\ CurrentOK /\ LockOK /\ LatestIsNewest /\ CurrentMirrorsLatest
  /\ HeadMatchesGet /\ RenameOK /\ PurgeOK /\ PlainOK /\ BytesKept /\ FilesOK /\ ReadsOK /\ ReadsWhole

-----------------------------------------------------------------------------
\* What the kind of a request says of its fields.
LEMMA KindOf ==
  ASSUME TypeOK, NEW c \in Clients
  PROVE  /\ op[c] = Idle \/ op[c] \in Request
         /\ op[c].kind = "put" => op[c].status \in Statuses \cup {None}
         /\ op[c].kind = "delete" => op[c].status \in Statuses \cup {None} /\ op[c].id \in Ids \cup {None}
         /\ op[c].kind = "rename" => op[c].write \in Writes /\ op[c].path \in Paths
         /\ op[c].kind \in {"deleteRow", "deleteFile"} => op[c].row \in Row
         /\ op[c].kind = "deleteVersionFile" => op[c].path \in Ids
         /\ op[c].kind \in {"read", "answer"} => op[c].row \in Row /\ op[c].id \in Ids \cup {None}
         /\ op[c].kind = "answer" => op[c].data \in Writes
<1>1. op[c] = Idle \/ op[c] \in Request
  BY DEF TypeOK
<1>2. CASE op[c] = Idle
  BY <1>2 DEF Idle
<1>3. CASE op[c] \in Request
  BY <1>3 DEF Request
<1> QED BY <1>1, <1>2, <1>3

LEMMA GotoTyped ==
  ASSUME TypeOK, NEW c \in Clients, NEW r, r = Idle \/ r \in Request, Goto(c, r)
  PROVE  op' \in [Clients -> Request \cup {Idle}]
BY DEF TypeOK, Goto

\* Where a step of c leaves the requests: c's is the new one, the others stay.
LEMMA GotoMoves ==
  ASSUME TypeOK, NEW c \in Clients, NEW r, Goto(c, r)
  PROVE  /\ op'[c] = r
         /\ \A d \in Clients : d # c => op'[d] = op[d]
BY DEF TypeOK, Goto

LEMMA SupersededTyped ==
  ASSUME TypeOK, NEW id \in Ids
  PROVE  Superseded(id) \in SUBSET Version
<1> SUFFICES ASSUME NEW v \in versions
             PROVE  [v EXCEPT !.latest = FALSE] \in Version
  BY DEF Superseded
<1> QED BY DEF TypeOK, Version

LEMMA SupersededRows ==
  ASSUME TypeOK, NEW id \in Ids, NEW w \in Superseded(id)
  PROVE  /\ ~w.latest
         /\ \E v \in versions :
              /\ v.id # id
              /\ w.id = v.id /\ w.write = v.write /\ w.path = v.path
              /\ w.marker = v.marker /\ w.modified = v.modified
<1>1. PICK v \in versions : v.id # id /\ w = [v EXCEPT !.latest = FALSE]
  BY DEF Superseded
<1>2. v \in Version
  BY DEF TypeOK
<1> QED BY <1>1, <1>2 DEF Version

LEMMA SupersededUnique ==
  ASSUME TypeOK, VersionsOK, NEW id \in Ids,
         NEW x \in Superseded(id), NEW y \in Superseded(id), x.id = y.id
  PROVE  x = y
<1>1. PICK v \in versions : v.id # id /\ x = [v EXCEPT !.latest = FALSE]
  BY DEF Superseded
<1>2. PICK w \in versions : w.id # id /\ y = [w EXCEPT !.latest = FALSE]
  BY DEF Superseded
<1>3. v \in Version /\ w \in Version
  BY DEF TypeOK
<1>4. v.id = w.id
  BY <1>1, <1>2, <1>3 DEF Version
<1>5. v = w
  BY <1>4 DEF VersionsOK
<1> QED BY <1>1, <1>2, <1>5

LEMMA PromotedRows ==
  ASSUME TypeOK, NEW rest, rest \subseteq versions, NEW next \in rest,
         NEW w \in Promoted(rest, next)
  PROVE  /\ w \in Version
         /\ \E v \in rest :
              /\ w.id = v.id /\ w.write = v.write /\ w.path = v.path
              /\ w.marker = v.marker /\ w.modified = v.modified
              /\ w.latest <=> v = next
<1>1. PICK v \in rest : w = [v EXCEPT !.latest = (v = next)]
  BY DEF Promoted
<1>2. v \in Version
  BY DEF TypeOK
<1> QED BY <1>1, <1>2 DEF Version

LEMMA NewestTyped ==
  ASSUME NEW rest, NEW next \in Newest(rest)
  PROVE  next \in rest /\ \A w \in rest : w.modified <= next.modified
BY DEF Newest

-----------------------------------------------------------------------------
\* Every step keeps the types.
LEMMA TypePut == ASSUME TypeOK, VersionsOK, NEW c \in Clients, PutRows(c) PROVE TypeOK'
<1> USE NamesAssumption DEF PutRows
<1> DEFINE n == written + 1
           id == NewId(op[c].status, n)
           path == IF op[c].status = None THEN Plain ELSE PathOf(id)
           new == [id |-> id, write |-> n, path |-> path, marker |-> MarkerKept(id),
                   modified |-> now, latest |-> TRUE]
<1>1. n \in Writes /\ id \in Ids /\ path \in Paths
  BY DEF TypeOK, Writes, NewId, Ids, Paths, PathOf
<1>2. current' \in Row \cup {None}
  BY <1>1 DEF CommitRows, Row
<1>3. versions' \in SUBSET Version
  <2>1. CASE op[c].status = None
    BY <2>1 DEF CommitRows, TypeOK
  <2>2. CASE op[c].status # None
    <3>1. path \in Ids
      BY <1>1, <2>2 DEF PathOf
    <3>2. new \in Version
      BY <1>1, <3>1 DEF Version, TypeOK, MarkerKept
    <3> QED BY <1>1, <2>2, <3>2, SupersededTyped DEF CommitRows
  <2> QED BY <2>1, <2>2
<1>4. [kind |-> "rename", write |-> n, path |-> path] \in Request
  BY <1>1 DEF Request
<1>5. op' \in [Clients -> Request \cup {Idle}]
  <2> HIDE DEF n, path
  <2> QED BY <1>4, GotoTyped DEF CommitRows, n, id, path
<1>6. harmed' \in SUBSET Writes /\ written' \in 0..MaxWrites
  BY <1>1 DEF CommitRows, TypeOK, Writes
<1> QED BY <1>2, <1>3, <1>5, <1>6 DEF CommitRows, TypeOK

LEMMA TypeMarker == ASSUME TypeOK, NEW c \in Clients, CreateDeleteMarker(c) PROVE TypeOK'
<1> USE NamesAssumption DEF CreateDeleteMarker
<1> DEFINE n == written + 1
           id == NewId(op[c].status, n)
           new == [id |-> id, write |-> n, path |-> None, marker |-> TRUE,
                   modified |-> now, latest |-> TRUE]
<1>1. n \in Writes /\ id \in Ids
  BY DEF TypeOK, Writes, NewId, Ids
<1>2. new \in Version
  BY <1>1 DEF Version, TypeOK
<1>3. versions' \in SUBSET Version
  BY <1>1, <1>2, SupersededTyped DEF PutMarker
<1>4. op' \in [Clients -> Request \cup {Idle}]
  BY GotoTyped DEF PutMarker
<1>5. written' \in 0..MaxWrites /\ current' = None
  BY <1>1 DEF PutMarker, Writes
<1> QED BY <1>3, <1>4, <1>5 DEF PutMarker, TypeOK

LEMMA RemoveVersionTyped ==
  ASSUME TypeOK, VersionsOK, NEW v \in versions, RemoveVersion(v)
  PROVE  versions' \in SUBSET Version /\ current' \in Row \cup {None} /\ bypassed' \in BOOLEAN
<1> DEFINE rest == versions \ {v}
<1>0. bypassed' \in BOOLEAN
  BY DEF RemoveVersion, TypeOK
<1>1. CASE ~v.latest /\ versions' = rest /\ UNCHANGED current
  BY <1>0, <1>1 DEF TypeOK
<1>2. CASE v.latest /\ rest = {} /\ versions' = rest /\ current' = None
  BY <1>0, <1>2 DEF TypeOK
<1>3. CASE \E next \in Newest(rest) : versions' = Promoted(rest, next) /\ current' = Synced(next)
  <2>1. PICK next \in Newest(rest) : versions' = Promoted(rest, next) /\ current' = Synced(next)
    BY <1>3
  <2>2. next \in rest /\ next \in Version
    BY NewestTyped DEF TypeOK
  <2>3. versions' \in SUBSET Version
    BY <2>1, <2>2, PromotedRows
  <2>4. ~next.marker => next.path \in Ids
    BY <2>2 DEF VersionsOK, Version
  <2>5. current' \in Row \cup {None}
    BY <2>1, <2>2, <2>4 DEF Synced, SyncedAlways, Row, Version, Paths, Ids
  <2> QED BY <1>0, <2>3, <2>5
<1> QED BY <1>0, <1>1, <1>2, <1>3 DEF RemoveVersion

LEMMA TypeDeleteVersion ==
  ASSUME TypeOK, VersionsOK, NEW c \in Clients, DeleteVersion(c) PROVE TypeOK'
<1> USE NamesAssumption
<1>1. PICK v \in versions :
        /\ v.id = op[c].id
        /\ RemoveVersion(v)
        /\ Goto(c, IF v.marker \/ v.path = None THEN Idle
                   ELSE [kind |-> "deleteVersionFile", path |-> v.path])
  BY DEF DeleteVersion
<1>2. v.path # None => v.path \in Ids
  BY DEF TypeOK, Version
<1>3. v.path # None => [kind |-> "deleteVersionFile", path |-> v.path] \in Request
  BY <1>2 DEF Request
<1>4. op' \in [Clients -> Request \cup {Idle}]
  BY <1>1, <1>3, GotoTyped
<1> QED BY <1>1, <1>4, RemoveVersionTyped DEF DeleteVersion, TypeOK

LEMMA TypeOther ==
  ASSUME TypeOK, VersionsOK, NEW c \in Clients, ClientStep(c),
         ~PutRows(c), ~CreateDeleteMarker(c), ~DeleteVersion(c)
  PROVE  TypeOK'
<1> USE NamesAssumption, KindOf
<1>1. CASE BeginPut(c)
  <2>1. PICK s \in {status, None} : Goto(c, [kind |-> "put", status |-> s])
    BY <1>1 DEF BeginPut
  <2>2. [kind |-> "put", status |-> s] \in Request
    BY DEF TypeOK, Request
  <2> QED BY <1>1, <2>1, <2>2, GotoTyped DEF BeginPut, TypeOK
<1>2. CASE RenameFile(c)
  <2>1. op' \in [Clients -> Request \cup {Idle}]
    BY <1>2, GotoTyped DEF RenameFile
  <2> QED BY <1>2, <2>1 DEF RenameFile, TypeOK
<1>3. CASE BeginDelete(c)
  <2>1. PICK s \in {status, None}, i \in {v.id : v \in versions} \cup {None} :
           Goto(c, [kind |-> "delete", status |-> s, id |-> i])
    BY <1>3 DEF BeginDelete
  <2>2. i \in Ids \cup {None}
    BY <2>1 DEF TypeOK, Version
  <2>3. [kind |-> "delete", status |-> s, id |-> i] \in Request
    BY <2>2 DEF TypeOK, Request
  <2> QED BY <1>3, <2>1, <2>3, GotoTyped DEF BeginDelete, TypeOK
<1>4. CASE HeadForDelete(c)
  <2>1. current # None => [kind |-> "deleteRow", row |-> current] \in Request
    BY DEF TypeOK, Request
  <2>2. op' \in [Clients -> Request \cup {Idle}]
    BY <1>4, <2>1, GotoTyped DEF HeadForDelete
  <2> QED BY <1>4, <2>2 DEF HeadForDelete, TypeOK
<1>5. CASE DeleteRow(c)
  <2>1. op[c].row \in Row
    BY <1>5 DEF DeleteRow
  <2>2. [kind |-> "deleteFile", row |-> op[c].row] \in Request
    BY <2>1 DEF Request
  <2>3. op' \in [Clients -> Request \cup {Idle}]
    BY <1>5, <2>2, GotoTyped DEF DeleteRow
  <2>4. harmed' \in SUBSET Writes
    BY <1>5, <2>1 DEF DeleteRow, TypeOK, Row
  <2> QED BY <1>5, <2>3, <2>4 DEF DeleteRow, TypeOK
<1>6. CASE DeleteFile(c) \/ DeleteVersionFile(c)
  <2>1. op' \in [Clients -> Request \cup {Idle}]
    BY <1>6, GotoTyped DEF DeleteFile, DeleteVersionFile
  <2> QED BY <1>6, <2>1 DEF DeleteFile, DeleteVersionFile, TypeOK
<1>7. CASE VersionGone(c) \/ Answered(c)
  <2>1. op' \in [Clients -> Request \cup {Idle}]
    BY <1>7, GotoTyped DEF VersionGone, Answered
  <2> QED BY <1>7, <2>1 DEF VersionGone, Answered, TypeOK
<1>8. CASE GetRow(c)
  <2>1. PICK s \in {status, None}, i \in {v.id : v \in versions} \cup {None} :
          \E r \in Wanted(s, i) : Goto(c, r)
    BY <1>8 DEF GetRow
  <2>2. PICK r \in Wanted(s, i) : Goto(c, r)
    BY <2>1
  <2>3. r \in Request
    <3>1. CASE r \in {[kind |-> "read", id |-> None, row |-> row] : row \in {current} \ {None}}
      BY <3>1 DEF TypeOK, Request
    <3>2. CASE r \in {[kind |-> "read", id |-> v.id, row |-> [write |-> v.write, path |-> v.path]] :
                        v \in {w \in versions : ~w.marker /\ IF i = None THEN w.latest ELSE w.id = i}}
      <4>1. PICK v \in versions : ~v.marker /\ r = [kind |-> "read", id |-> v.id, row |-> [write |-> v.write, path |-> v.path]]
        BY <3>2
      <4>2. v \in Version /\ v.path \in Ids
        BY <4>1 DEF TypeOK, VersionsOK, Version
      <4>3. [write |-> v.write, path |-> v.path] \in Row
        BY <4>2 DEF Version, Row, Paths
      <4> QED BY <4>1, <4>2, <4>3 DEF Request, Version
    <3> QED BY <3>1, <3>2 DEF Wanted
  <2> QED BY <1>8, <2>2, <2>3, GotoTyped DEF GetRow, TypeOK
<1>9. CASE ReadFile(c)
  <2> DEFINE data == files[op[c].row.path]
  <2>1. op[c].row \in Row /\ op[c].id \in Ids \cup {None}
    BY <1>9 DEF ReadFile
  <2>2. data \in Writes \cup {None}
    BY <2>1 DEF TypeOK, Row
  <2>3. data # None => [kind |-> "answer", id |-> op[c].id, row |-> op[c].row, data |-> data] \in Request
    BY <2>1, <2>2 DEF Request
  <2>4. op' \in [Clients -> Request \cup {Idle}]
    BY <1>9, <2>3, GotoTyped DEF ReadFile
  <2> QED BY <1>9, <2>4 DEF ReadFile, TypeOK
<1>10. CASE Fail(c)
  <2>1. op' \in [Clients -> Request \cup {Idle}]
    BY <1>10, GotoTyped DEF Fail
  <2>2. harmed' \in SUBSET Writes
    BY <1>10 DEF Fail, TypeOK
  <2> QED BY <1>10, <2>1, <2>2 DEF Fail, TypeOK
<1> QED BY <1>1, <1>2, <1>3, <1>4, <1>5, <1>6, <1>7, <1>8, <1>9, <1>10 DEF ClientStep

LEMMA TypeStep == ASSUME TypeOK, VersionsOK, [Next]_vars PROVE TypeOK'
<1> USE NamesAssumption
<1>1. CASE SetBucketVersioning
  BY <1>1 DEF SetBucketVersioning, TypeOK
<1>2. CASE Tick
  BY <1>2 DEF Tick, TypeOK
<1>3. ASSUME NEW c \in Clients, ClientStep(c) PROVE TypeOK'
  BY <1>3, TypePut, TypeMarker, TypeDeleteVersion, TypeOther
<1>4. CASE UNCHANGED vars
  BY <1>4 DEF vars, TypeOK
<1> QED BY <1>1, <1>2, <1>3, <1>4 DEF Next

-----------------------------------------------------------------------------
\* The steps that leave the tables alone, as far as the table invariants see.
LEMMA TableSteps ==
  ASSUME TypeOK, NEW c \in Clients, ClientStep(c)
  PROVE  \/ PutRows(c) \/ CreateDeleteMarker(c) \/ DeleteVersion(c) \/ DeleteRow(c)
         \/ UNCHANGED <<current, versions, written, now, bypassed>>
BY DEF ClientStep, BeginPut, RenameFile, BeginDelete, HeadForDelete, DeleteFile, VersionGone,
       DeleteVersionFile, GetRow, ReadFile, Answered, Fail

\* What a removed version leaves: the other rows, with is_latest set anew.
LEMMA RemoveVersionKeeps ==
  ASSUME TypeOK, VersionsOK, NEW v \in versions, RemoveVersion(v), NEW w \in versions'
  PROVE  \E x \in versions : /\ x # v
                             /\ w.id = x.id /\ w.write = x.write /\ w.path = x.path
                             /\ w.marker = x.marker /\ w.modified = x.modified
<1> DEFINE rest == versions \ {v}
<1>1. CASE versions' = rest
  BY <1>1
<1>2. CASE \E next \in Newest(rest) : versions' = Promoted(rest, next)
  <2>1. PICK next \in Newest(rest) : versions' = Promoted(rest, next)
    BY <1>2
  <2>2. next \in rest /\ rest \subseteq versions
    BY NewestTyped
  <2>3. PICK x \in rest : /\ w.id = x.id /\ w.write = x.write /\ w.path = x.path
                          /\ w.marker = x.marker /\ w.modified = x.modified
    BY <2>1, <2>2, PromotedRows
  <2> QED BY <2>3
<1> QED BY <1>1, <1>2 DEF RemoveVersion

LEMMA RemoveVersionUnique ==
  ASSUME TypeOK, VersionsOK, NEW v \in versions, RemoveVersion(v),
         NEW w \in versions', NEW y \in versions', w.id = y.id
  PROVE  w = y
<1> DEFINE rest == versions \ {v}
<1>1. CASE versions' = rest
  BY <1>1 DEF VersionsOK
<1>2. CASE \E next \in Newest(rest) : versions' = Promoted(rest, next)
  <2>1. PICK next \in Newest(rest) : versions' = Promoted(rest, next)
    BY <1>2
  <2>2. PICK a \in rest : w = [a EXCEPT !.latest = (a = next)]
    BY <2>1 DEF Promoted
  <2>3. PICK b \in rest : y = [b EXCEPT !.latest = (b = next)]
    BY <2>1 DEF Promoted
  <2>4. a \in Version /\ b \in Version
    BY DEF TypeOK
  <2>5. a.id = b.id
    BY <2>2, <2>3, <2>4 DEF Version
  <2>6. a = b
    BY <2>5 DEF VersionsOK
  <2> QED BY <2>2, <2>3, <2>6
<1> QED BY <1>1, <1>2 DEF RemoveVersion

\* What a put and a delete marker leave: the new row, and the other ids' rows.
LEMMA AddedVersion ==
  ASSUME TypeOK, VersionsOK, NEW id \in Ids, NEW new \in Version,
         new.id = id, new.write = written + 1, new.modified = now,
         new.path = id \/ new.path = None, new.path = None => new.marker,
         id # NullVersion => id = written + 1, written + 1 \in Writes,
         versions' = Superseded(id) \cup {new}, written' = written + 1, now' = now
  PROVE  VersionsOK'
<1>1. \A w \in Superseded(id) : /\ w.id # id
                                /\ w.write <= written /\ w.modified <= now
                                /\ w.path = w.id \/ w.path = None
                                /\ w.path = None => w.marker
                                /\ w.id # NullVersion => w.id = w.write
  BY SupersededRows DEF VersionsOK
<1>2. \A w \in Superseded(id) : w.write \in Nat
  BY SupersededTyped DEF Version, Writes
<1>3. written \in Nat /\ now \in Nat
  BY NamesAssumption DEF TypeOK
<1>4. ASSUME NEW w \in versions'
      PROVE  /\ w.write <= written' /\ w.modified <= now'
             /\ w.path = w.id \/ w.path = None
             /\ w.path = None => w.marker
             /\ w.id # NullVersion => w.id = w.write
  BY <1>1, <1>2, <1>3
<1>5. ASSUME NEW w \in versions', NEW y \in versions', w.id = y.id
      PROVE  w = y
  BY <1>1, <1>5, SupersededUnique
<1> QED BY <1>4, <1>5 DEF VersionsOK

LEMMA NewIdOf ==
  ASSUME NEW st, NEW n \in Writes
  PROVE  NewId(st, n) \in Ids /\ (NewId(st, n) # NullVersion => NewId(st, n) = n)
<1>1. CASE st = "Enabled"
  BY <1>1 DEF NewId, Ids
<1>2. CASE st # "Enabled"
  BY <1>2 DEF NewId, Ids
<1> QED BY <1>1, <1>2

LEMMA NextWrite ==
  ASSUME TypeOK, written < MaxWrites PROVE written + 1 \in Writes
BY NamesAssumption DEF TypeOK, Writes

\* The row a put adds.
LEMMA PutAdds ==
  ASSUME TypeOK, NEW c \in Clients, PutRows(c)
  PROVE  /\ written + 1 \in Writes /\ written' = written + 1 /\ now' = now
         /\ current' = [write |-> written + 1, path |-> current'.path]
         /\ op[c].status = None => versions' = versions /\ current'.path = Plain
         /\ op[c].status # None =>
              \E id \in Ids, new \in Version :
                /\ versions' = Superseded(id) \cup {new}
                /\ new.id = id /\ new.write = written + 1 /\ new.modified = now /\ new.path = id
                /\ new.latest
                /\ id # NullVersion => id = written + 1
                /\ current'.path = id
<1> USE NamesAssumption DEF PutRows
<1> DEFINE n == written + 1
           id == NewId(op[c].status, n)
           path == IF op[c].status = None THEN Plain ELSE PathOf(id)
           new == [id |-> id, write |-> n, path |-> path, marker |-> MarkerKept(id),
                   modified |-> now, latest |-> TRUE]
<1>1. n \in Writes /\ id \in Ids /\ (id # NullVersion => id = n)
  BY NextWrite, NewIdOf
<1>2. written' = n /\ now' = now /\ current' = [write |-> n, path |-> path]
  BY DEF CommitRows
<1>3. CASE op[c].status = None
  BY <1>1, <1>2, <1>3 DEF CommitRows
<1>4. CASE op[c].status # None
  <2>1. path = id
    BY <1>4 DEF PathOf
  <2>2. new \in Version
    BY <1>1, <2>1 DEF Version, TypeOK, MarkerKept
  <2>3. versions' = Superseded(id) \cup {new}
    BY <1>4 DEF CommitRows
  <2>4. new.id = id /\ new.write = n /\ new.modified = now /\ new.path = id /\ new.latest
    BY <2>1
  <2> QED BY <1>1, <1>2, <1>4, <2>1, <2>2, <2>3, <2>4
<1> QED BY <1>3, <1>4

LEMMA MarkerAdds ==
  ASSUME TypeOK, NEW c \in Clients, CreateDeleteMarker(c)
  PROVE  /\ written + 1 \in Writes /\ written' = written + 1 /\ now' = now /\ current' = None
         /\ \E id \in Ids, new \in Version :
              /\ versions' = Superseded(id) \cup {new}
              /\ new.id = id /\ new.write = written + 1 /\ new.modified = now
              /\ new.path = None /\ new.marker /\ new.latest
              /\ id # NullVersion => id = written + 1
<1> USE NamesAssumption DEF CreateDeleteMarker
<1> DEFINE n == written + 1
           id == NewId(op[c].status, n)
           new == [id |-> id, write |-> n, path |-> None, marker |-> TRUE,
                   modified |-> now, latest |-> TRUE]
<1>1. n \in Writes /\ id \in Ids /\ (id # NullVersion => id = n)
  BY NextWrite, NewIdOf
<1>2. new \in Version
  BY <1>1 DEF Version, TypeOK
<1>3. versions' = Superseded(id) \cup {new}
  BY DEF PutMarker
<1> QED BY <1>1, <1>2, <1>3 DEF PutMarker

-----------------------------------------------------------------------------
\* The version rows stay well formed.
LEMMA VersionsStep == ASSUME TypeOK, VersionsOK, [Next]_vars PROVE VersionsOK'
<1> USE NamesAssumption
<1>1. CASE SetBucketVersioning
  BY <1>1 DEF SetBucketVersioning, VersionsOK
<1>2. CASE Tick
  <2>1. \A v \in versions : v.modified \in Nat /\ v.modified <= now'
    BY <1>2 DEF Tick, VersionsOK, TypeOK, Version
  <2> QED BY <1>2, <2>1 DEF Tick, VersionsOK
<1>3. ASSUME NEW c \in Clients, ClientStep(c) PROVE VersionsOK'
  <2>1. CASE PutRows(c)
    <3>1. CASE op[c].status = None
      <4>1. \A v \in versions : v.write \in Nat
        BY DEF TypeOK, Version, Writes
      <4>2. versions' = versions /\ written' = written + 1 /\ now' = now /\ written \in Nat
        BY <2>1, <3>1, PutAdds DEF TypeOK
      <4> QED BY <4>1, <4>2 DEF VersionsOK
    <3>2. CASE op[c].status # None
      <4>1. /\ written + 1 \in Writes /\ written' = written + 1 /\ now' = now
            /\ \E id \in Ids, new \in Version :
                 /\ versions' = Superseded(id) \cup {new}
                 /\ new.id = id /\ new.write = written + 1 /\ new.modified = now /\ new.path = id
                 /\ id # NullVersion => id = written + 1
        BY <2>1, <3>2, PutAdds
      <4>2. PICK id \in Ids, new \in Version :
              /\ versions' = Superseded(id) \cup {new}
              /\ new.id = id /\ new.write = written + 1 /\ new.modified = now /\ new.path = id
              /\ id # NullVersion => id = written + 1
        BY <4>1
      <4>3. id # None
        BY DEF Ids, Writes
      <4> QED BY <4>1, <4>2, <4>3, AddedVersion
    <3> QED BY <3>1, <3>2
  <2>2. CASE CreateDeleteMarker(c)
    BY <2>2, MarkerAdds, AddedVersion
  <2>3. CASE DeleteVersion(c)
    <3>1. PICK v \in versions : RemoveVersion(v)
      BY <2>3 DEF DeleteVersion
    <3>2. written' = written /\ now' = now
      BY <2>3 DEF DeleteVersion
    <3>3. ASSUME NEW w \in versions'
          PROVE  /\ w.write <= written' /\ w.modified <= now'
                 /\ w.path = w.id \/ w.path = None
                 /\ w.path = None => w.marker
                 /\ w.id # NullVersion => w.id = w.write
      BY <3>1, <3>2, RemoveVersionKeeps DEF VersionsOK
    <3> QED BY <3>1, <3>3, RemoveVersionUnique DEF VersionsOK
  <2>4. CASE DeleteRow(c)
    BY <2>4 DEF DeleteRow, VersionsOK
  <2>5. CASE UNCHANGED <<current, versions, written, now>>
    BY <2>5 DEF VersionsOK
  <2> QED BY <1>3, <2>1, <2>2, <2>3, <2>4, <2>5, TableSteps
<1>4. CASE UNCHANGED vars
  BY <1>4 DEF vars, VersionsOK
<1> QED BY <1>1, <1>2, <1>3, <1>4 DEF Next

LEMMA AddedLatest ==
  ASSUME TypeOK, VersionsOK, NEW id \in Ids, NEW new \in Version,
         new.modified = now, new.latest, versions' = Superseded(id) \cup {new}
  PROVE  LatestIsNewest'
<1>1. \A w \in Superseded(id) : ~w.latest /\ w.modified <= now
  BY SupersededRows DEF VersionsOK
<1>2. now <= now
  BY NamesAssumption DEF TypeOK
<1> QED BY <1>1, <1>2 DEF LatestIsNewest

\* One latest version, and none younger.
LEMMA LatestStep ==
  ASSUME TypeOK, VersionsOK, LatestIsNewest, [Next]_vars PROVE LatestIsNewest'
<1>1. CASE UNCHANGED versions
  BY <1>1 DEF LatestIsNewest
<1>2. ASSUME NEW c \in Clients, PutRows(c), op[c].status # None PROVE LatestIsNewest'
  BY <1>2, PutAdds, AddedLatest
<1>3. ASSUME NEW c \in Clients, CreateDeleteMarker(c) PROVE LatestIsNewest'
  BY <1>3, MarkerAdds, AddedLatest
<1>4. ASSUME NEW c \in Clients, DeleteVersion(c) PROVE LatestIsNewest'
  <2>1. PICK v \in versions : RemoveVersion(v)
    BY <1>4 DEF DeleteVersion
  <2> DEFINE rest == versions \ {v}
  <2>2. CASE ~v.latest /\ versions' = rest
    <3>1. PICK x \in versions : /\ x.latest
                                /\ \A w \in versions : w.modified <= x.modified /\ (w.latest => w = x)
      BY DEF LatestIsNewest
    <3> QED BY <2>2, <3>1 DEF LatestIsNewest
  <2>3. CASE rest = {} /\ versions' = rest
    BY <2>3 DEF LatestIsNewest
  <2>4. CASE \E next \in Newest(rest) : versions' = Promoted(rest, next)
    <3>1. PICK next \in Newest(rest) : versions' = Promoted(rest, next)
      BY <2>4
    <3>2. next \in rest /\ next \in Version /\ \A w \in rest : w.modified <= next.modified
      BY NewestTyped DEF TypeOK
    <3> DEFINE chosen == [next EXCEPT !.latest = TRUE]
    <3>3. chosen \in versions' /\ chosen.latest /\ chosen.modified = next.modified
      BY <3>1, <3>2 DEF Promoted, Version
    <3>4. ASSUME NEW w \in versions' PROVE w.modified <= chosen.modified /\ (w.latest => w = chosen)
      <4>1. PICK x \in rest : w = [x EXCEPT !.latest = (x = next)]
        BY <3>1 DEF Promoted
      <4>2. x \in Version
        BY DEF TypeOK
      <4>3. w.modified = x.modified /\ (w.latest => x = next)
        BY <4>1, <4>2 DEF Version
      <4> QED BY <3>2, <3>3, <4>1, <4>3
    <3> QED BY <3>3, <3>4 DEF LatestIsNewest
  <2> QED BY <2>1, <2>2, <2>3, <2>4 DEF RemoveVersion
<1>5. ASSUME NEW c \in Clients, ClientStep(c) PROVE LatestIsNewest'
  BY <1>1, <1>2, <1>3, <1>4, <1>5, TableSteps, PutAdds DEF DeleteRow
<1> QED BY <1>1, <1>5 DEF Next, SetBucketVersioning, Tick, vars

-----------------------------------------------------------------------------
\* The step that brings a request to where it stands.
LEMMA KindFrom ==
  ASSUME TypeOK, NEW c \in Clients, ClientStep(c), NEW d \in Clients
  PROVE  \/ op'[d] = op[d]
         \/ /\ d = c
            /\ \/ op'[c] = Idle
               \/ op'[c].kind = "put" /\ BeginPut(c)
               \/ op'[c].kind = "rename" /\ PutRows(c)
               \/ op'[c].kind = "delete" /\ BeginDelete(c)
               \/ op'[c].kind = "deleteRow" /\ HeadForDelete(c)
               \/ op'[c].kind = "deleteFile" /\ DeleteRow(c)
               \/ op'[c].kind = "deleteVersionFile" /\ DeleteVersion(c)
               \/ op'[c].kind = "read" /\ GetRow(c)
               \/ op'[c].kind = "answer" /\ ReadFile(c)
<1> USE GotoMoves
<1>1. ASSUME NEW r, Goto(c, r) PROVE op'[c] = r /\ (d # c => op'[d] = op[d])
  BY <1>1
<1>2. CASE BeginPut(c)
  <2>1. PICK s \in {status, None} : Goto(c, [kind |-> "put", status |-> s])
    BY <1>2 DEF BeginPut
  <2> QED BY <1>1, <1>2, <2>1
<1>3. CASE PutRows(c)
  <2>1. \E w, p : Goto(c, [kind |-> "rename", write |-> w, path |-> p])
    BY <1>3 DEF PutRows, CommitRows
  <2> QED BY <1>1, <1>3, <2>1
<1>4. CASE BeginDelete(c)
  <2>1. \E s, i : Goto(c, [kind |-> "delete", status |-> s, id |-> i])
    BY <1>4 DEF BeginDelete
  <2> QED BY <1>1, <1>4, <2>1
<1>5. CASE HeadForDelete(c)
  <2> DEFINE r == [kind |-> "deleteRow", row |-> current]
  <2>1. Goto(c, Idle) \/ Goto(c, r)
    BY <1>5 DEF HeadForDelete
  <2>2. r.kind = "deleteRow"
    OBVIOUS
  <2> QED BY <1>1, <1>5, <2>1, <2>2
<1>6. CASE DeleteRow(c)
  <2> DEFINE r == [kind |-> "deleteFile", row |-> op[c].row]
  <2>1. Goto(c, r) /\ r.kind = "deleteFile"
    BY <1>6 DEF DeleteRow
  <2> QED BY <1>1, <1>6, <2>1
<1>7. CASE DeleteVersion(c)
  <2>1. PICK v \in versions : Goto(c, IF v.marker \/ v.path = None THEN Idle
                                      ELSE [kind |-> "deleteVersionFile", path |-> v.path])
    BY <1>7 DEF DeleteVersion
  <2> DEFINE r == [kind |-> "deleteVersionFile", path |-> v.path]
  <2>2. Goto(c, Idle) \/ Goto(c, r)
    BY <2>1
  <2>3. r.kind = "deleteVersionFile"
    OBVIOUS
  <2> QED BY <1>1, <1>7, <2>2, <2>3
<1>8. CASE GetRow(c)
  <2>1. \E s, i : \E r \in Wanted(s, i) : Goto(c, r)
    BY <1>8 DEF GetRow
  <2>2. PICK s, i : \E r \in Wanted(s, i) : Goto(c, r)
    BY <2>1
  <2>3. PICK r \in Wanted(s, i) : Goto(c, r)
    BY <2>2
  <2>4. r.kind = "read"
    BY <2>3 DEF Wanted
  <2> QED BY <1>1, <1>8, <2>3, <2>4
<1>9. CASE ReadFile(c)
  <2> DEFINE data == files[op[c].row.path]
             r == [kind |-> "answer", id |-> op[c].id, row |-> op[c].row, data |-> data]
  <2>1. Goto(c, Idle) \/ Goto(c, r)
    BY <1>9 DEF ReadFile
  <2>2. r.kind = "answer"
    OBVIOUS
  <2> QED BY <1>1, <1>9, <2>1, <2>2
<1>10. CASE \/ RenameFile(c) \/ DeleteFile(c) \/ VersionGone(c) \/ DeleteVersionFile(c)
            \/ CreateDeleteMarker(c) \/ Answered(c) \/ Fail(c)
  <2>1. Goto(c, Idle)
    BY <1>10 DEF RenameFile, DeleteFile, VersionGone, DeleteVersionFile, CreateDeleteMarker,
                 PutMarker, Answered, Fail
  <2> QED BY <1>1, <2>1
<1> QED BY <1>2, <1>3, <1>4, <1>5, <1>6, <1>7, <1>8, <1>9, <1>10 DEF ClientStep

\* The lock has one holder.
LEMMA LockStep == ASSUME TypeOK, LockOK, [Next]_vars PROVE LockOK'
<1>1. CASE UNCHANGED op
  BY <1>1 DEF LockOK, Holds
<1>2. ASSUME NEW c \in Clients, ClientStep(c) PROVE LockOK'
  <2>1. \A d \in Clients : Holds(d)' => Holds(d) \/ (d = c /\ Unlocked)
    <3> SUFFICES ASSUME NEW d \in Clients, Holds(d)'
                 PROVE  Holds(d) \/ (d = c /\ Unlocked)
      OBVIOUS
    <3>1. op'[d].kind \in {"rename", "deleteVersionFile"}
      BY DEF Holds
    <3>2. Idle.kind = "idle"
      BY DEF Idle
    <3>3. op'[d] = op[d] \/ (d = c /\ (PutRows(c) \/ DeleteVersion(c)))
      BY <1>2, <3>1, <3>2, KindFrom
    <3> QED BY <3>3, <3>1 DEF Holds, PutRows, CommitRows, DeleteVersion
  <2>2. Unlocked => \A d \in Clients : ~Holds(d)
    BY DEF Unlocked, Holds
  <2> QED BY <2>1, <2>2 DEF LockOK
<1> QED BY <1>1, <1>2 DEF Next, SetBucketVersioning, Tick, vars

-----------------------------------------------------------------------------
\* Where a stored row comes from.
LEMMA Stored ==
  ASSUME NEW row
  PROVE  row \in StoredRows <=>
           \/ current # None /\ row = current
           \/ \E v \in versions : v.path # None /\ row = [write |-> v.write, path |-> v.path]
BY DEF StoredRows

LEMMA StoredNext ==
  ASSUME NEW row
  PROVE  row \in StoredRows' <=>
           \/ current' # None /\ row = current'
           \/ \E v \in versions' : v.path # None /\ row = [write |-> v.write, path |-> v.path]
BY DEF StoredRows

\* A delete, and a delete marker, store no new row.
LEMMA RemoveVersionStored ==
  ASSUME TypeOK, VersionsOK, NEW v \in versions, RemoveVersion(v)
  PROVE  StoredRows' \subseteq StoredRows
<1> SUFFICES ASSUME NEW row \in StoredRows' PROVE row \in StoredRows
  OBVIOUS
<1>1. CASE \E w \in versions' : w.path # None /\ row = [write |-> w.write, path |-> w.path]
  BY <1>1, RemoveVersionKeeps, Stored
<1>2. CASE current' # None /\ row = current'
  <2>1. CASE current' = current
    BY <1>2, <2>1, Stored
  <2>2. CASE \E next \in Newest(versions \ {v}) : current' = Synced(next)
    <3>1. PICK next \in versions : current' = Synced(next)
      BY <2>2, NewestTyped
    <3>2. ~next.marker /\ current' = [write |-> next.write, path |-> next.path]
      BY <1>2, <3>1 DEF Synced, SyncedAlways
    <3>3. next.path # None
      BY <3>2 DEF VersionsOK
    <3> QED BY <1>2, <3>2, <3>3, Stored
  <2> QED BY <1>2, <2>1, <2>2 DEF RemoveVersion
<1> QED BY <1>1, <1>2, StoredNext

LEMMA MarkerStored ==
  ASSUME TypeOK, NEW c \in Clients, CreateDeleteMarker(c)
  PROVE  StoredRows' \subseteq StoredRows
<1> SUFFICES ASSUME NEW row \in StoredRows' PROVE row \in StoredRows
  OBVIOUS
<1>1. current' = None
  BY MarkerAdds
<1>2. PICK id \in Ids, new \in Version : versions' = Superseded(id) \cup {new} /\ new.path = None
  BY MarkerAdds
<1>3. PICK w \in Superseded(id) : w.path # None /\ row = [write |-> w.write, path |-> w.path]
  BY <1>1, <1>2, StoredNext
<1> QED BY <1>3, SupersededRows, Stored

\* A put stores its own row; the others are of other files and earlier writes.
LEMMA PutStored ==
  ASSUME TypeOK, VersionsOK, CurrentOK, NEW c \in Clients, PutRows(c), NEW row \in StoredRows'
  PROVE  \/ row = current' /\ row.write = written + 1
         \/ row \in StoredRows /\ row.path # current'.path /\ row.write <= written
<1> USE NamesAssumption
<1>1. current'.write = written + 1
  BY PutAdds
<1>2. ASSUME NEW v \in versions, v.path # None, row = [write |-> v.write, path |-> v.path]
      PROVE  row \in StoredRows /\ row.write <= written /\ row.path = v.id /\ v.id \in Ids
  BY <1>2, Stored DEF VersionsOK, TypeOK, Version
<1>3. CASE \E w \in versions' : w.path # None /\ row = [write |-> w.write, path |-> w.path]
  <2>1. PICK w \in versions' : w.path # None /\ row = [write |-> w.write, path |-> w.path]
    BY <1>3
  <2>2. CASE op[c].status = None
    <3>1. w \in versions /\ current'.path = Plain
      BY <2>2, PutAdds
    <3>2. Plain \notin Ids
      BY DEF Ids, Writes
    <3> QED BY <1>2, <2>1, <3>1, <3>2
  <2>3. CASE op[c].status # None
    <3>1. PICK id \in Ids, new \in Version :
             /\ versions' = Superseded(id) \cup {new}
             /\ new.write = written + 1 /\ new.path = id /\ current'.path = id
      BY <2>3, PutAdds
    <3>2. current' = [write |-> written + 1, path |-> id]
      BY <3>1, PutAdds
    <3>3. CASE w = new
      BY <2>1, <3>1, <3>2, <3>3
    <3>4. CASE w \in Superseded(id)
      <4>1. PICK v \in versions : v.id # id /\ w.write = v.write /\ w.path = v.path
        BY <3>4, SupersededRows
      <4> QED BY <1>2, <2>1, <3>1, <4>1
    <3> QED BY <2>1, <3>1, <3>3, <3>4
  <2> QED BY <2>2, <2>3
<1>4. CASE current' # None /\ row = current'
  BY <1>1, <1>4
<1> QED BY <1>3, <1>4, StoredNext

LEMMA StoredTyped ==
  ASSUME TypeOK, VersionsOK, CurrentOK, NEW row \in StoredRows
  PROVE  row \in Row /\ row.write <= written
<1>1. CASE current # None /\ row = current
  BY <1>1 DEF TypeOK, CurrentOK
<1>2. ASSUME NEW v \in versions, v.path # None, row = [write |-> v.write, path |-> v.path]
      PROVE  row \in Row /\ row.write <= written
  <2>1. v \in Version /\ v.path \in Ids /\ v.write <= written
    BY <1>2 DEF TypeOK, VersionsOK, Version
  <2> QED BY <1>2, <2>1 DEF Row, Version, Paths
<1> QED BY <1>1, <1>2, Stored

\* While the lock is held rows only go, and no write is numbered.
LEMMA HeldTables ==
  ASSUME TypeOK, NEW c \in Clients, ClientStep(c), NEW d \in Clients, Holds(d)
  PROVE  written' = written /\ StoredRows' \subseteq StoredRows
<1>1. ~PutRows(c) /\ ~CreateDeleteMarker(c) /\ ~DeleteVersion(c)
  BY DEF Holds, Unlocked, PutRows, CommitRows, CreateDeleteMarker, PutMarker, DeleteVersion
<1>2. CASE DeleteRow(c)
  BY <1>2 DEF DeleteRow, StoredRows
<1>3. CASE UNCHANGED <<current, versions, written, now>>
  BY <1>3 DEF StoredRows
<1> QED BY <1>1, <1>2, <1>3, TableSteps

-----------------------------------------------------------------------------
\* The current row is of the latest version, or was put outside versioning.
LEMMA MirrorStep ==
  ASSUME TypeOK, VersionsOK, CurrentMirrorsLatest, [Next]_vars
  PROVE  CurrentMirrorsLatest'
<1>1. CASE UNCHANGED <<current, versions>>
  BY <1>1 DEF CurrentMirrorsLatest
<1>2. ASSUME NEW c \in Clients, PutRows(c) PROVE CurrentMirrorsLatest'
  <2>1. CASE op[c].status = None
    BY <1>2, <2>1, PutAdds DEF CurrentMirrorsLatest
  <2>2. CASE op[c].status # None
    <3>1. PICK id \in Ids, new \in Version :
             /\ versions' = Superseded(id) \cup {new}
             /\ new.write = written + 1 /\ new.path = id /\ new.latest /\ current'.path = id
      BY <1>2, <2>2, PutAdds
    <3>2. current' = [write |-> written + 1, path |-> id]
      BY <1>2, <3>1, PutAdds
    <3>3. new \in versions' /\ new.latest /\ new.write = current'.write /\ new.path = current'.path
      BY <3>1, <3>2
    <3> QED BY <3>3 DEF CurrentMirrorsLatest
  <2> QED BY <2>1, <2>2
<1>3. ASSUME NEW c \in Clients, CreateDeleteMarker(c) \/ DeleteRow(c) PROVE CurrentMirrorsLatest'
  BY <1>3, MarkerAdds DEF DeleteRow, CurrentMirrorsLatest
<1>4. ASSUME NEW c \in Clients, DeleteVersion(c) PROVE CurrentMirrorsLatest'
  <2>1. PICK v \in versions : RemoveVersion(v)
    BY <1>4 DEF DeleteVersion
  <2> DEFINE rest == versions \ {v}
  <2>2. CASE ~v.latest /\ versions' = rest /\ UNCHANGED current
    BY <2>2 DEF CurrentMirrorsLatest
  <2>3. CASE current' = None
    BY <2>3 DEF CurrentMirrorsLatest
  <2>4. CASE \E next \in Newest(rest) : versions' = Promoted(rest, next) /\ current' = Synced(next)
    <3>1. PICK next \in Newest(rest) : versions' = Promoted(rest, next) /\ current' = Synced(next)
      BY <2>4
    <3>2. next \in rest /\ next \in Version
      BY NewestTyped DEF TypeOK
    <3> DEFINE chosen == [next EXCEPT !.latest = TRUE]
    <3>3. chosen \in versions' /\ chosen.latest /\ chosen.write = next.write /\ chosen.path = next.path
      BY <3>1, <3>2 DEF Promoted, Version
    <3>4. current' # None => current'.write = next.write /\ current'.path = next.path
      BY <3>1 DEF Synced, SyncedAlways
    <3> QED BY <3>3, <3>4 DEF CurrentMirrorsLatest
  <2> QED BY <2>1, <2>2, <2>3, <2>4 DEF RemoveVersion
<1>5. ASSUME NEW c \in Clients, ClientStep(c) PROVE CurrentMirrorsLatest'
  BY <1>1, <1>2, <1>3, <1>4, <1>5, TableSteps
<1> QED BY <1>1, <1>5 DEF Next, SetBucketVersioning, Tick, vars

-----------------------------------------------------------------------------
LEMMA ServedOne ==
  ASSUME NEW rows, NEW v \in rows, v.latest, ~v.marker, \A w \in rows : w.latest => w = v
  PROVE  Served(rows) = [write |-> v.write, path |-> v.path]
<1> DEFINE heads == {w \in rows : w.latest /\ ~w.marker}
<1>1. heads = {v}
  OBVIOUS
<1>2. (CHOOSE w \in heads : TRUE) = v
  BY <1>1
<1> QED BY <1>1, <1>2 DEF Served

LEMMA ServedNone ==
  ASSUME NEW rows, \A w \in rows : w.latest => w.marker
  PROVE  Served(rows) = None
BY DEF Served

\* The rows of a put under versioning and of a delete marker.
LEMMA HeadAdded ==
  ASSUME TypeOK, VersionsOK, NEW id \in Ids, NEW new \in Version, new.latest,
         versions' = Superseded(id) \cup {new},
         IF new.marker THEN new.path # None \/ current' = None
         ELSE current' = [write |-> new.write, path |-> new.path]
  PROVE  HeadMatchesGet'
<1>1. \A w \in versions' : w.latest => w = new
  BY SupersededRows
<1>2. new \in versions'
  OBVIOUS
<1>3. CASE new.marker /\ new.path # None
  BY <1>2, <1>3 DEF HeadMatchesGet, PutOverMarker
<1>4. CASE new.marker /\ new.path = None
  <2>1. Served(versions') = None
    BY <1>1, <1>4, ServedNone
  <2> QED BY <1>4, <2>1 DEF HeadMatchesGet
<1>5. CASE ~new.marker
  <2>1. Served(versions') = [write |-> new.write, path |-> new.path]
    BY <1>1, <1>2, <1>5, ServedOne
  <2> QED BY <1>5, <2>1 DEF HeadMatchesGet
<1> QED BY <1>3, <1>4, <1>5

LEMMA HeadRemoved ==
  ASSUME TypeOK, HeadMatchesGet, NEW v \in versions, RemoveVersion(v)
  PROVE  HeadMatchesGet'
<1> DEFINE rest == versions \ {v}
<1>1. CASE ~v.latest /\ versions' = rest /\ UNCHANGED <<current, bypassed>>
  <2>1. {w \in rest : w.latest /\ ~w.marker} = {w \in versions : w.latest /\ ~w.marker}
    BY <1>1
  <2>2. Served(rest) = Served(versions)
    BY <2>1 DEF Served
  <2>3. PutOverMarker => PutOverMarker'
    BY <1>1 DEF PutOverMarker
  <2>4. Served(versions') = Served(versions)
    BY <1>1, <2>2
  <2> QED BY <1>1, <2>3, <2>4 DEF HeadMatchesGet
<1>2. CASE rest = {} /\ versions' = rest /\ current' = None
  <2>1. Served(versions') = None
    BY <1>2, ServedNone
  <2> QED BY <1>2, <2>1 DEF HeadMatchesGet
<1>3. CASE \E next \in Newest(rest) : versions' = Promoted(rest, next) /\ current' = Synced(next)
  <2>1. PICK next \in Newest(rest) : versions' = Promoted(rest, next) /\ current' = Synced(next)
    BY <1>3
  <2>2. next \in rest /\ next \in Version
    BY NewestTyped DEF TypeOK
  <2> DEFINE chosen == [next EXCEPT !.latest = TRUE]
  <2>3. /\ chosen \in versions' /\ chosen.latest /\ chosen.marker = next.marker
        /\ chosen.write = next.write /\ chosen.path = next.path
    BY <2>1, <2>2 DEF Promoted, Version
  <2>4. ASSUME NEW w \in versions', w.latest PROVE w = chosen
    <3>1. PICK x \in rest : w = [x EXCEPT !.latest = (x = next)]
      BY <2>1 DEF Promoted
    <3>2. x \in Version
      BY DEF TypeOK
    <3>3. x = next
      BY <2>4, <3>1, <3>2 DEF Version
    <3> QED BY <3>1, <3>3
  <2> HIDE DEF chosen
  <2>5. CASE next.marker
    <3>1. Served(versions') = None
      BY <2>3, <2>4, <2>5, ServedNone
    <3> QED BY <2>1, <2>5, <3>1 DEF HeadMatchesGet, Synced
  <2>6. CASE ~next.marker
    <3>1. Served(versions') = [write |-> chosen.write, path |-> chosen.path]
      BY <2>3, <2>4, <2>6, ServedOne
    <3> QED BY <2>1, <2>3, <2>6, <3>1 DEF HeadMatchesGet, Synced, SyncedAlways
  <2> QED BY <2>5, <2>6
<1> QED BY <1>1, <1>2, <1>3 DEF RemoveVersion

\* The current row is what a get serves, while versioning is not bypassed.
LEMMA HeadStep == ASSUME TypeOK, VersionsOK, HeadMatchesGet, [Next]_vars PROVE HeadMatchesGet'
<1>1. CASE UNCHANGED <<current, versions, bypassed>>
  BY <1>1 DEF HeadMatchesGet, PutOverMarker
<1>2. ASSUME NEW c \in Clients, PutRows(c) PROVE HeadMatchesGet'
  <2>1. CASE op[c].status = None
    BY <1>2, <2>1 DEF PutRows, CommitRows, HeadMatchesGet
  <2>2. CASE op[c].status # None
    <3>1. PICK id \in Ids, new \in Version :
             /\ versions' = Superseded(id) \cup {new}
             /\ new.write = written + 1 /\ new.path = id /\ new.latest /\ current'.path = id
      BY <1>2, <2>2, PutAdds
    <3>2. current' = [write |-> written + 1, path |-> id]
      BY <1>2, <3>1, PutAdds
    <3>3. id # None
      BY NamesAssumption DEF Ids, Writes
    <3> QED BY <3>1, <3>2, <3>3, HeadAdded
  <2> QED BY <2>1, <2>2
<1>3. ASSUME NEW c \in Clients, CreateDeleteMarker(c) PROVE HeadMatchesGet'
  <2>1. current' = None
    BY <1>3 DEF CreateDeleteMarker, PutMarker
  <2>2. PICK id \in Ids, new \in Version :
           versions' = Superseded(id) \cup {new} /\ new.latest /\ new.marker
    BY <1>3, MarkerAdds
  <2> QED BY <2>1, <2>2, HeadAdded
<1>4. ASSUME NEW c \in Clients, DeleteVersion(c) PROVE HeadMatchesGet'
  BY <1>4, HeadRemoved DEF DeleteVersion
<1>5. ASSUME NEW c \in Clients, DeleteRow(c) PROVE HeadMatchesGet'
  BY <1>5 DEF DeleteRow, HeadMatchesGet, PutOverMarker
<1>6. ASSUME NEW c \in Clients, ClientStep(c) PROVE HeadMatchesGet'
  BY <1>1, <1>2, <1>3, <1>4, <1>5, <1>6, TableSteps
<1> QED BY <1>1, <1>6 DEF Next, SetBucketVersioning, Tick, vars

LEMMA CurrentStep == ASSUME TypeOK, VersionsOK, CurrentOK, [Next]_vars PROVE CurrentOK'
<1> USE NamesAssumption
<1>1. CASE UNCHANGED <<current, written>>
  BY <1>1 DEF CurrentOK
<1>2. ASSUME NEW c \in Clients, PutRows(c) PROVE CurrentOK'
  <2>1. current'.write = written + 1 /\ written' = written + 1 /\ written \in Nat
    BY <1>2, PutAdds DEF TypeOK
  <2> QED BY <2>1 DEF CurrentOK
<1>3. ASSUME NEW c \in Clients, CreateDeleteMarker(c) \/ DeleteRow(c) PROVE CurrentOK'
  BY <1>3, MarkerAdds DEF DeleteRow, CurrentOK
<1>4. ASSUME NEW c \in Clients, DeleteVersion(c) PROVE CurrentOK'
  <2>1. PICK v \in versions : RemoveVersion(v)
    BY <1>4 DEF DeleteVersion
  <2>2. written' = written
    BY <1>4 DEF DeleteVersion
  <2>3. CASE current' # None
    <3>1. current' \in StoredRows'
      BY <2>3, StoredNext
    <3>2. current' \in StoredRows
      BY <2>1, <3>1, RemoveVersionStored
    <3> QED BY <2>2, <3>2, StoredTyped DEF CurrentOK
  <2> QED BY <2>3 DEF CurrentOK
<1>5. ASSUME NEW c \in Clients, ClientStep(c) PROVE CurrentOK'
  BY <1>1, <1>2, <1>3, <1>4, <1>5, TableSteps
<1> QED BY <1>1, <1>5 DEF Next, SetBucketVersioning, Tick, vars

-----------------------------------------------------------------------------
\* A put has the rows of its file to itself until the file is in place.
LEMMA RenameStep ==
  ASSUME TypeOK, VersionsOK, CurrentOK, RenameOK, [Next]_vars PROVE RenameOK'
<1> USE NamesAssumption
<1>1. CASE UNCHANGED <<op, written, current, versions>>
  BY <1>1 DEF RenameOK, StoredRows
<1>2. ASSUME NEW c \in Clients, ClientStep(c), NEW d \in Clients, op'[d].kind = "rename"
      PROVE  /\ op'[d].write <= written'
             /\ op'[d].path \in Writes => op'[d].path = op'[d].write
             /\ \A row \in StoredRows' : row.path = op'[d].path <=> row.write = op'[d].write
  <2>1. CASE op'[d] = op[d]
    <3>1. Holds(d)
      BY <1>2, <2>1 DEF Holds
    <3>2. written' = written /\ StoredRows' \subseteq StoredRows
      BY <1>2, <3>1, HeldTables
    <3> QED BY <1>2, <2>1, <3>2 DEF RenameOK
  <2>2. CASE d = c /\ PutRows(c)
    <3>1. /\ op'[c] = [kind |-> "rename", write |-> written + 1, path |-> current'.path]
          /\ current' = [write |-> written + 1, path |-> current'.path]
      <4> DEFINE path == IF op[c].status = None THEN Plain
                         ELSE PathOf(NewId(op[c].status, written + 1))
                 r == [kind |-> "rename", write |-> written + 1, path |-> path]
      <4>1. Goto(c, r) /\ current' = [write |-> written + 1, path |-> path]
        BY <2>2 DEF PutRows, CommitRows
      <4>2. op'[c] = r
        BY <4>1, GotoMoves
      <4> QED BY <4>1, <4>2
    <3>2. written' = written + 1 /\ written \in Nat
      BY <2>2, PutAdds DEF TypeOK
    <3>3. current'.path \in Writes => current'.path = written + 1
      BY <2>2, PutAdds DEF Writes
    <3>4. ASSUME NEW row \in StoredRows'
          PROVE  row.path = current'.path <=> row.write = written + 1
      <4>1. CASE row = current' /\ row.write = written + 1
        BY <4>1
      <4>2. CASE row \in StoredRows /\ row.path # current'.path /\ row.write <= written
        BY <3>2, <4>2, StoredTyped DEF Row, Writes
      <4> QED BY <2>2, <4>1, <4>2, PutStored
    <3> QED BY <2>2, <3>1, <3>2, <3>3, <3>4
  <2>3. Idle.kind = "idle"
    BY DEF Idle
  <2> QED BY <1>2, <2>1, <2>2, <2>3, KindFrom
<1>3. ASSUME NEW c \in Clients, ClientStep(c) PROVE RenameOK'
  BY <1>2, <1>3 DEF RenameOK
<1>4. CASE Tick \/ SetBucketVersioning \/ UNCHANGED vars
  BY <1>1, <1>4 DEF Tick, SetBucketVersioning, vars
<1> QED BY <1>3, <1>4 DEF Next

\* A version is gone from both tables before its file goes.
LEMMA PurgeStep ==
  ASSUME TypeOK, VersionsOK, CurrentMirrorsLatest, PurgeOK, [Next]_vars PROVE PurgeOK'
<1> USE NamesAssumption
<1>1. CASE UNCHANGED <<op, current, versions>>
  BY <1>1 DEF PurgeOK, StoredRows
<1>2. ASSUME NEW c \in Clients, ClientStep(c), NEW d \in Clients, op'[d].kind = "deleteVersionFile",
             NEW row \in StoredRows'
      PROVE  row.path # op'[d].path
  <2>1. CASE op'[d] = op[d]
    <3>1. Holds(d)
      BY <1>2, <2>1 DEF Holds
    <3>2. StoredRows' \subseteq StoredRows
      BY <1>2, <3>1, HeldTables
    <3> QED BY <1>2, <2>1, <3>2 DEF PurgeOK
  <2>2. CASE d = c /\ DeleteVersion(c)
    <3>1. PICK v \in versions :
            /\ RemoveVersion(v)
            /\ Goto(c, IF v.marker \/ v.path = None THEN Idle
                       ELSE [kind |-> "deleteVersionFile", path |-> v.path])
      BY <2>2 DEF DeleteVersion
    <3>2. op'[c].path = v.path /\ v.path # None
      <4>1. op'[c] = IF v.marker \/ v.path = None THEN Idle
                     ELSE [kind |-> "deleteVersionFile", path |-> v.path]
        BY <3>1, GotoMoves
      <4> QED BY <1>2, <2>2, <4>1 DEF Idle
    <3>3. v.path = v.id /\ v.id \in Ids
      BY <3>2 DEF VersionsOK, TypeOK, Version
    <3>4. \A w \in versions : w # v => w.path # v.path
      BY <3>3, <3>2 DEF VersionsOK
    <3>5. CASE \E w \in versions' : w.path # None /\ row = [write |-> w.write, path |-> w.path]
      BY <2>2, <3>1, <3>2, <3>4, <3>5, RemoveVersionKeeps
    <3>6. CASE current' # None /\ row = current'
      <4>1. CASE ~v.latest /\ UNCHANGED current
        <5>1. CASE current.path = Plain
          BY <2>2, <3>2, <3>3, <3>6, <4>1, <5>1 DEF Ids, Writes
        <5>2. CASE current.path # Plain
          <6>1. PICK w \in versions : w.latest /\ w.path = current.path
            BY <3>6, <4>1, <5>2 DEF CurrentMirrorsLatest
          <6> QED BY <2>2, <3>2, <3>4, <3>6, <4>1, <6>1
        <5> QED BY <5>1, <5>2
      <4>2. CASE \E next \in Newest(versions \ {v}) : current' = Synced(next)
        <5>1. PICK next \in versions \ {v} : current' = Synced(next)
          BY <4>2, NewestTyped
        <5>2. current'.path = next.path
          BY <3>6, <5>1 DEF Synced, SyncedAlways
        <5> QED BY <2>2, <3>2, <3>4, <3>6, <5>1, <5>2
      <4> QED BY <3>1, <3>6, <4>1, <4>2 DEF RemoveVersion
    <3> QED BY <3>5, <3>6, StoredNext
  <2>3. Idle.kind = "idle"
    BY DEF Idle
  <2> QED BY <1>2, <2>1, <2>2, <2>3, KindFrom
<1>3. ASSUME NEW c \in Clients, ClientStep(c) PROVE PurgeOK'
  BY <1>2, <1>3 DEF PurgeOK
<1>4. CASE Tick \/ SetBucketVersioning \/ UNCHANGED vars
  BY <1>1, <1>4 DEF Tick, SetBucketVersioning, vars
<1> QED BY <1>3, <1>4 DEF Next

-----------------------------------------------------------------------------
LEMMA HarmedGrows ==
  ASSUME NEW c \in Clients, ClientStep(c) PROVE harmed \subseteq harmed'
BY DEF ClientStep, BeginPut, PutRows, CommitRows, RenameFile, BeginDelete, HeadForDelete, DeleteRow,
       DeleteFile, DeleteVersion, VersionGone, DeleteVersionFile, CreateDeleteMarker, PutMarker,
       GetRow, ReadFile, Answered, Fail

LEMMA StoredStep ==
  ASSUME TypeOK, VersionsOK, NEW c \in Clients, ClientStep(c)
  PROVE  PutRows(c) \/ StoredRows' \subseteq StoredRows
<1>1. CASE DeleteVersion(c)
  BY <1>1, RemoveVersionStored DEF DeleteVersion
<1>2. CASE DeleteRow(c)
  BY <1>2 DEF DeleteRow, StoredRows
<1>3. CASE UNCHANGED <<current, versions, written, now>>
  BY <1>3 DEF StoredRows
<1> QED BY <1>1, <1>2, <1>3, TableSteps, MarkerStored

\* The rows of the current row's file are of the current row's write.
LEMMA SameFileSameWrite ==
  ASSUME TypeOK, VersionsOK, CurrentMirrorsLatest, current # None,
         NEW row \in StoredRows, row.path = current.path
  PROVE  row.write = current.write
<1> USE NamesAssumption
<1>1. CASE row = current
  BY <1>1
<1>2. ASSUME NEW w \in versions, w.path # None, row = [write |-> w.write, path |-> w.path]
      PROVE  row.write = current.write
  <2>1. w.path = w.id /\ w.id \in Ids
    BY <1>2 DEF VersionsOK, TypeOK, Version
  <2>2. current.path # Plain
    BY <1>2, <2>1 DEF Ids, Writes
  <2>3. PICK v \in versions : v.latest /\ v.write = current.write /\ v.path = current.path
    BY <2>2 DEF CurrentMirrorsLatest
  <2>4. v.path = v.id
    BY <1>2, <2>1, <2>3 DEF VersionsOK
  <2>5. v = w
    BY <1>2, <2>1, <2>3, <2>4 DEF VersionsOK
  <2> QED BY <1>2, <2>3, <2>5
<1> QED BY <1>1, <1>2, Stored

LEMMA PlainStep ==
  ASSUME TypeOK, VersionsOK, CurrentOK, CurrentMirrorsLatest, PlainOK, [Next]_vars PROVE PlainOK'
<1>1. CASE UNCHANGED <<op, harmed, current, versions>>
  BY <1>1 DEF PlainOK, StoredRows
<1>2. ASSUME NEW c \in Clients, ClientStep(c), NEW d \in Clients, NEW row \in StoredRows'
      PROVE  /\ op'[d].kind = "deleteRow" /\ row.path = op'[d].row.path =>
                  row.write \in harmed' \/ row.write = op'[d].row.write
             /\ op'[d].kind = "deleteFile" /\ row.path = op'[d].row.path => row.write \in harmed'
  <2>1. CASE op'[d] = op[d]
    <3>1. CASE row \in StoredRows
      BY <1>2, <2>1, <3>1, HarmedGrows DEF PlainOK
    <3>2. CASE PutRows(c) /\ row.write = written + 1 /\ op[d].kind \in {"deleteRow", "deleteFile"}
      <4>1. PlainDeleteRuns
        BY <3>2 DEF PlainDeleteRuns
      <4>2. harmed' = harmed \cup {written + 1}
        BY <3>2, <4>1 DEF PutRows, CommitRows
      <4> QED BY <3>2, <4>2
    <3> QED BY <1>2, <2>1, <3>1, <3>2, StoredStep, PutStored
  <2>2. CASE d = c /\ HeadForDelete(c) /\ op'[c].kind = "deleteRow"
    <3>1. op'[c] = IF current = None THEN Idle ELSE [kind |-> "deleteRow", row |-> current]
      BY <2>2, GotoMoves DEF HeadForDelete
    <3>2. current # None /\ op'[c].row = current
      BY <2>2, <3>1 DEF Idle
    <3>3. row \in StoredRows
      BY <2>2 DEF HeadForDelete, StoredRows
    <3> QED BY <2>2, <3>2, <3>3, SameFileSameWrite
  <2>3. CASE d = c /\ DeleteRow(c) /\ op'[c].kind = "deleteFile"
    <3>1. op'[c] = [kind |-> "deleteFile", row |-> op[c].row]
      BY <2>3, GotoMoves DEF DeleteRow
    <3>2. row \in StoredRows
      BY <2>3 DEF DeleteRow, StoredRows
    <3>3. op[c].kind = "deleteRow" /\ harmed' = harmed \cup {op[c].row.write}
      BY <2>3 DEF DeleteRow
    <3> QED BY <2>3, <3>1, <3>2, <3>3 DEF PlainOK
  <2>4. Idle.kind = "idle"
    BY DEF Idle
  <2> QED BY <1>2, <2>1, <2>2, <2>3, <2>4, KindFrom
<1>3. ASSUME NEW c \in Clients, ClientStep(c) PROVE PlainOK'
  BY <1>2, <1>3 DEF PlainOK
<1>4. CASE Tick \/ SetBucketVersioning \/ UNCHANGED vars
  BY <1>1, <1>4 DEF Tick, SetBucketVersioning, vars
<1> QED BY <1>3, <1>4 DEF Next

\* Who changes a file, and how.
LEMMA FileSteps ==
  ASSUME TypeOK, NEW c \in Clients, ClientStep(c), NEW p \in Paths
  PROVE  \/ files'[p] = files[p]
         \/ RenameFile(c) /\ p = op[c].path /\ files'[p] = op[c].write
         \/ DeleteFile(c) /\ p = op[c].row.path /\ files'[p] = None
         \/ DeleteVersionFile(c) /\ p = op[c].path /\ files'[p] = None
<1>1. CASE RenameFile(c)
  BY <1>1 DEF RenameFile, TypeOK
<1>2. CASE DeleteFile(c)
  BY <1>2 DEF DeleteFile, TypeOK
<1>3. CASE DeleteVersionFile(c)
  BY <1>3 DEF DeleteVersionFile, TypeOK
<1>4. CASE ~RenameFile(c) /\ ~DeleteFile(c) /\ ~DeleteVersionFile(c)
  <2>1. files' = files
    BY <1>4 DEF ClientStep, BeginPut, PutRows, CommitRows, BeginDelete, HeadForDelete, DeleteRow,
                DeleteVersion, VersionGone, CreateDeleteMarker, PutMarker,
                GetRow, ReadFile, Answered, Fail
  <2> QED BY <2>1
<1> QED BY <1>1, <1>2, <1>3, <1>4

\* The file of every stored row holds its write.
LEMMA BytesStep ==
  ASSUME TypeOK, VersionsOK, CurrentOK, RenameOK, PurgeOK, PlainOK, BytesKept, [Next]_vars
  PROVE  BytesKept'
<1>1. CASE UNCHANGED <<op, harmed, current, versions, files>>
  BY <1>1 DEF BytesKept, StoredRows, Renaming
<1>2. ASSUME NEW c \in Clients, ClientStep(c), NEW row \in StoredRows'
      PROVE  row.write \in harmed' \/ Renaming(row)' \/ files'[row.path] = row.write
  <2>1. CASE PutRows(c)
    <3>1. files' = files /\ harmed \subseteq harmed' /\ Unlocked
      BY <1>2, <2>1, HarmedGrows DEF PutRows, CommitRows
    <3>2. CASE row.write = written + 1
      <4> DEFINE path == IF op[c].status = None THEN Plain
                         ELSE PathOf(NewId(op[c].status, written + 1))
                 r == [kind |-> "rename", write |-> written + 1, path |-> path]
      <4>1. Goto(c, r)
        BY <2>1 DEF PutRows, CommitRows
      <4>2. op'[c] = r
        BY <4>1, GotoMoves
      <4>3. op'[c].kind = "rename" /\ op'[c].write = written + 1
        BY <4>2
      <4> QED BY <3>2, <4>3 DEF Renaming
    <3>3. CASE row \in StoredRows
      <4>1. ~Renaming(row)
        BY <3>1 DEF Renaming, Unlocked
      <4> QED BY <3>1, <3>3, <4>1 DEF BytesKept
    <3> QED BY <2>1, <3>2, <3>3, PutStored
  <2>2. CASE ~PutRows(c)
    <3>1. row \in StoredRows /\ harmed \subseteq harmed'
      BY <1>2, <2>2, StoredStep, HarmedGrows
    <3>2. row \in Row
      BY <3>1, StoredTyped
    <3>3. row.path \in Paths
      BY <3>2 DEF Row
    <3>4. CASE row.write \in harmed
      BY <3>1, <3>4
    <3>5. CASE Renaming(row)
      <4>1. PICK d \in Clients : op[d].kind = "rename" /\ op[d].write = row.write
        BY <3>5 DEF Renaming
      <4>2. CASE op'[d] = op[d]
        BY <4>1, <4>2 DEF Renaming
      <4>3. CASE d = c /\ RenameFile(c)
        <5>1. row.path = op[c].path
          BY <3>1, <4>1, <4>3 DEF RenameOK
        <5> QED BY <3>3, <4>1, <4>3, <5>1 DEF RenameFile, TypeOK
      <4>4. CASE d = c /\ Fail(c)
        BY <4>1, <4>4 DEF Fail
      <4>5. CASE d = c /\ ~RenameFile(c) /\ ~Fail(c)
        <5>1. op[c].kind = "rename" /\ op[c] # Idle
          BY <4>1, <4>5 DEF Idle
        <5> QED BY <1>2, <4>5, <5>1 DEF ClientStep, BeginPut, PutRows, CommitRows, BeginDelete,
                  HeadForDelete, DeleteRow, DeleteFile, DeleteVersion, VersionGone,
                  DeleteVersionFile, CreateDeleteMarker, PutMarker, GetRow, ReadFile, Answered
      <4> QED BY <1>2, <4>2, <4>3, <4>4, <4>5, KindFrom
    <3>6. CASE files[row.path] = row.write
      <4>1. CASE files'[row.path] = files[row.path]
        BY <3>6, <4>1
      <4>2. CASE RenameFile(c) /\ row.path = op[c].path /\ files'[row.path] = op[c].write
        BY <3>1, <4>2 DEF RenameFile, RenameOK
      <4>3. CASE DeleteFile(c) /\ row.path = op[c].row.path
        BY <3>1, <4>3 DEF DeleteFile, PlainOK
      <4>4. CASE DeleteVersionFile(c) /\ row.path = op[c].path
        BY <3>1, <4>4 DEF DeleteVersionFile, PurgeOK
      <4> QED BY <1>2, <3>3, <4>1, <4>2, <4>3, <4>4, FileSteps
    <3> QED BY <3>1, <3>4, <3>5, <3>6 DEF BytesKept
  <2> QED BY <2>1, <2>2
<1>3. ASSUME NEW c \in Clients, ClientStep(c) PROVE BytesKept'
  BY <1>2, <1>3 DEF BytesKept
<1>4. CASE Tick \/ SetBucketVersioning \/ UNCHANGED vars
  BY <1>1, <1>4 DEF Tick, SetBucketVersioning, vars
<1> QED BY <1>3, <1>4 DEF Next

-----------------------------------------------------------------------------
LEMMA FilesStep == ASSUME TypeOK, RenameOK, FilesOK, [Next]_vars PROVE FilesOK'
<1>1. CASE UNCHANGED files
  BY <1>1 DEF FilesOK
<1>2. ASSUME NEW c \in Clients, ClientStep(c), NEW p \in Writes
      PROVE  files'[p] = None \/ files'[p] = p
  <2>1. p \in Paths
    BY DEF Paths, Ids
  <2>2. CASE RenameFile(c) /\ p = op[c].path /\ files'[p] = op[c].write
    BY <2>2 DEF RenameFile, RenameOK
  <2> QED BY <1>2, <2>1, <2>2, FileSteps DEF FilesOK
<1>3. ASSUME NEW c \in Clients, ClientStep(c) PROVE FilesOK'
  BY <1>2, <1>3 DEF FilesOK
<1> QED BY <1>1, <1>3 DEF Next, Tick, SetBucketVersioning, vars

LEMMA ReadsStep ==
  ASSUME TypeOK, VersionsOK, FilesOK, ReadsOK, ReadsWhole, [Next]_vars
  PROVE  ReadsOK' /\ ReadsWhole'
<1> USE NamesAssumption
<1>1. CASE UNCHANGED op
  BY <1>1 DEF ReadsOK, ReadsWhole
<1>2. ASSUME NEW c \in Clients, ClientStep(c), NEW d \in Clients
      PROVE  /\ op'[d].kind \in {"read", "answer"} /\ op'[d].id \in Writes =>
                   op'[d].row.path = op'[d].id /\ op'[d].row.write = op'[d].id
             /\ op'[d].kind = "answer" /\ op'[d].id \in Writes => op'[d].data = op'[d].row.write
  <2>1. CASE op'[d] = op[d]
    BY <2>1 DEF ReadsOK, ReadsWhole
  <2>2. CASE d = c /\ GetRow(c) /\ op'[c].kind = "read"
    <3>1. PICK s \in {status, None}, i \in {v.id : v \in versions} \cup {None} :
            \E r \in Wanted(s, i) : Goto(c, r)
      BY <2>2 DEF GetRow
    <3>2. PICK r \in Wanted(s, i) : Goto(c, r)
      BY <3>1
    <3>3. op'[c] = r
      BY <3>2, GotoMoves
    <3>4. CASE r \in {[kind |-> "read", id |-> None, row |-> row] : row \in {current} \ {None}}
      BY <2>2, <3>3, <3>4 DEF Writes
    <3>5. CASE r \in {[kind |-> "read", id |-> v.id, row |-> [write |-> v.write, path |-> v.path]] :
                        v \in {w \in versions : ~w.marker /\ IF i = None THEN w.latest ELSE w.id = i}}
      <4>1. PICK v \in versions : ~v.marker /\ r = [kind |-> "read", id |-> v.id, row |-> [write |-> v.write, path |-> v.path]]
        BY <3>5
      <4>2. v.path = v.id /\ (v.id \in Writes => v.write = v.id)
        BY <4>1 DEF VersionsOK, Writes
      <4> QED BY <2>2, <3>3, <4>1, <4>2
    <3> QED BY <3>2, <3>4, <3>5 DEF Wanted
  <2>3. CASE d = c /\ ReadFile(c) /\ op'[c].kind = "answer"
    <3> DEFINE data == files[op[c].row.path]
    <3>1. op[c].kind = "read"
      BY <2>3 DEF ReadFile
    <3>2. data # None /\ op'[c] = [kind |-> "answer", id |-> op[c].id, row |-> op[c].row, data |-> data]
      <4>1. op'[c] = IF data = None THEN Idle
                     ELSE [kind |-> "answer", id |-> op[c].id, row |-> op[c].row, data |-> data]
        BY <2>3, GotoMoves DEF ReadFile
      <4> QED BY <2>3, <4>1 DEF Idle
    <3>3. op[c].id \in Writes => op[c].row.path = op[c].id /\ op[c].row.write = op[c].id
      BY <3>1 DEF ReadsOK
    <3>4. op[c].id \in Writes => data = op[c].id
      BY <3>2, <3>3 DEF FilesOK
    <3> QED BY <2>3, <3>2, <3>3, <3>4
  <2>4. Idle.kind = "idle"
    BY DEF Idle
  <2> QED BY <1>2, <2>1, <2>2, <2>3, <2>4, KindFrom
<1>3. ASSUME NEW c \in Clients, ClientStep(c) PROVE ReadsOK' /\ ReadsWhole'
  BY <1>2, <1>3 DEF ReadsOK, ReadsWhole
<1> QED BY <1>1, <1>3 DEF Next, Tick, SetBucketVersioning, vars

-----------------------------------------------------------------------------
LEMMA Initially == ASSUME Init PROVE IInv
<1> USE NamesAssumption
<1>1. TypeOK
  <2>1. bypassed \in BOOLEAN
    BY DEF Init
  <2> QED BY <2>1 DEF Init, TypeOK
<1>2. StoredRows = {}
  BY DEF Init, StoredRows
<1>3. \A c \in Clients : op[c].kind = "idle"
  BY DEF Init, Idle
<1>4. VersionsOK /\ CurrentOK /\ LatestIsNewest /\ CurrentMirrorsLatest
  BY DEF Init, VersionsOK, CurrentOK, LatestIsNewest, CurrentMirrorsLatest
<1>5. LockOK /\ RenameOK /\ PurgeOK /\ PlainOK /\ ReadsOK /\ ReadsWhole
  BY <1>3 DEF LockOK, Holds, RenameOK, PurgeOK, PlainOK, ReadsOK, ReadsWhole
<1>6. BytesKept /\ FilesOK
  BY <1>2 DEF BytesKept, FilesOK, Init, Paths, Ids
<1>7. HeadMatchesGet
  <2>0. versions = {}
    BY DEF Init
  <2>1. Served(versions) = None
    BY <2>0, ServedNone
  <2> QED BY <2>1 DEF Init, HeadMatchesGet
<1> QED BY <1>1, <1>4, <1>5, <1>6, <1>7 DEF IInv

LEMMA Inductive == ASSUME IInv, [Next]_vars PROVE IInv'
BY TypeStep, VersionsStep, CurrentStep, LockStep, LatestStep, MirrorStep, HeadStep, RenameStep, PurgeStep,
   PlainStep, BytesStep, FilesStep, ReadsStep DEF IInv

LEMMA Invariance == Spec => []IInv
<1>1. Init => IInv
  BY Initially
<1>2. IInv /\ [Next]_vars => IInv'
  BY Inductive
<1> QED BY <1>1, <1>2, PTL DEF Spec

\* The tables, the files and the requests keep their types.
THEOREM TypeCorrect == Spec => []TypeOK
<1>1. IInv => TypeOK
  BY DEF IInv
<1> QED BY <1>1, Invariance, PTL

\* Metadata and bytes agree through overlapping puts, deletes of versions and
\* failures, but for writes cut short and writes met by an unlocked delete
\* (PutObjectVersioned, deleteObjectVersionByID).
THEOREM BytesAreKept == Spec => []BytesKept
<1>1. IInv => BytesKept
  BY DEF IInv
<1> QED BY <1>1, Invariance, PTL

\* A key with versions has one latest version, which none is younger than
\* (promoteNextObjectVersionTx).
THEOREM LatestIsTheNewest == Spec => []LatestIsNewest
<1>1. IInv => LatestIsNewest
  BY DEF IInv
<1> QED BY <1>1, Invariance, PTL

\* HeadObject and GetObjectVersion see one object, or both none, while no write
\* bypasses versioning and none was put over the delete marker "null"
\* (syncS3ObjectFromLatestVersionTx, createDeleteMarker).
THEOREM HeadIsServed == Spec => []HeadMatchesGet
<1>1. IInv => HeadMatchesGet
  BY DEF IInv
<1> QED BY <1>1, Invariance, PTL

\* A read of a version is never torn between two writes (GetObjectVersion).
THEOREM ReadsAreWhole == Spec => []ReadsWhole
<1>1. IInv => ReadsWhole
  BY DEF IInv
<1> QED BY <1>1, Invariance, PTL
=============================================================================
