------------------------------- MODULE KMSKeys -------------------------------
(***************************************************************************)
(* KMS keys: their states and scheduled deletion, the rotation of their    *)
(* material, and the aliases, grants and ciphertexts that refer to them.   *)
(*                                                                         *)
(* Nothing deletes keys in the background.  Every GetKey first sweeps: it  *)
(* lists the keys whose deletion is due, and purges each in a transaction  *)
(* of its own.  A method then checks the row it loaded and writes with     *)
(* another statement, by key id alone.  A step is one statement or one     *)
(* transaction, so a purge and a write both may follow what no longer      *)
(* holds.                                                                  *)
(*                                                                         *)
(* A request here is one call of a Store method with the handler's checks; *)
(* the GetKeys a handler makes before it are requests of their own.  Keys  *)
(* are symmetric.  A material is a number, fresh each time one is made; a  *)
(* ciphertext names its key and the material it was sealed with.           *)
(***************************************************************************)
EXTENDS Naturals, FiniteSets

CONSTANTS
    Clients,         \* goroutines serving requests
    Keys,            \* key ids; random, so none is used twice
    Aliases,         \* alias names of one account
    ManagedAliases,  \* those that are made when they are first needed
    Grants,          \* grant ids; random
    None,            \* the absence of a row, of a target, of an argument
    PendingWindow,   \* ticks a deletion is pending
    RotationPeriod,  \* ticks between automatic rotations
    MaxTime,         \* bound: the last tick
    MaxMaterials     \* bound: materials are made only below this number

ASSUME AliasesAssumption == ManagedAliases \subseteq Aliases
ASSUME TimesAssumption ==
    /\ PendingWindow \in Nat \ {0}
    /\ RotationPeriod \in Nat \ {0}
    /\ MaxTime \in Nat

VARIABLES
    now,        \* the clock
    keys,       \* kms_keys: key id -> row, or None
    archive,    \* kms_key_materials: key id -> the materials before the current one
    aliases,    \* kms_aliases: alias -> the key it names, or None
    grants,     \* kms_grants: grant id -> its key, or None
    blobs,      \* the ciphertexts handed out
    requests,   \* requests[c]: where client c's request stands
    minted,     \* materials made so far
    used,       \* the key ids ever given out
    overtaken   \* history: keys changed between another request's look and its step

vars == <<now, keys, archive, aliases, grants, blobs, requests, minted, used, overtaken>>

States == {"Enabled", "Disabled", "PendingDeletion"}

\* due is the deletion date, 0 the empty one; rotated is the last rotation, or
\* the creation when there was none.
Row == [state : States, due : Nat, rotate : BOOLEAN, material : Nat, rotated : Nat]

Blob == [key : Keys, material : Nat]

ASSUME NoneAssumption == None \notin Keys \cup Aliases \cup Row \cup Blob

StateWrites == {"Enable", "Disable", "Schedule", "Cancel"}
Inserts == {"CreateAlias", "UpdateAlias", "CreateGrant"}
Sealings == {"Encrypt", "Seal"}
Ops == {"Get", "EnableRotation", "DisableRotation", "Decrypt"}
         \cup StateWrites \cup Inserts \cup Sealings

\* A request sweeps, loads its key and goes on to its statements; "next" tells
\* which load it is at, as a rotation within a request is a method of its own.
Request ==
    [op : Ops, key : Keys, arg : Aliases \cup Blob \cup {None},
     phase : {"sweep", "purge", "write", "auto", "rotate", "current", "archived", "opened"},
     next : {"act", "rotate"},
     due : SUBSET Keys,       \* listed by the sweep, still to be purged
     at : Nat,                \* the time of the sweep
     found : SUBSET Nat]      \* the materials read

Idle == [phase |-> "idle"]

TypeOK ==
    /\ now \in Nat
    /\ keys \in [Keys -> Row \cup {None}]
    /\ archive \in [Keys -> SUBSET Nat]
    /\ aliases \in [Aliases -> Keys \cup {None}]
    /\ grants \in [Grants -> Keys \cup {None}]
    /\ blobs \in SUBSET Blob
    /\ requests \in [Clients -> Request \cup {Idle}]
    /\ minted \in Nat
    /\ used \in SUBSET Keys
    /\ overtaken \in SUBSET Keys

Init ==
    /\ now = 0
    /\ keys = [k \in Keys |-> None]
    /\ archive = [k \in Keys |-> {}]
    /\ aliases = [a \in Aliases |-> None]
    /\ grants = [g \in Grants |-> None]
    /\ blobs = {}
    /\ requests = [c \in Clients |-> Idle]
    /\ minted = 0
    /\ used = {}
    /\ overtaken = {}

Exists(k) == keys[k] # None
Pending(k) == Exists(k) /\ keys[k].state = "PendingDeletion"

Goto(c, r) == requests' = [requests EXCEPT ![c] = r]
Return(c) == Goto(c, Idle)
At(c, phase) == requests[c].phase = phase

-----------------------------------------------------------------------------
(* Creation.                                                               *)

NewKey == [state |-> "Enabled", due |-> 0, rotate |-> FALSE, material |-> minted, rotated |-> now]

createKeyTx(k) ==
    /\ k \notin used
    /\ minted < MaxMaterials
    /\ keys' = [keys EXCEPT ![k] = NewKey]
    /\ minted' = minted + 1
    /\ used' = used \cup {k}

CreateKey ==
    /\ \E k \in Keys : createKeyTx(k)
    /\ UNCHANGED <<now, archive, aliases, grants, blobs, requests, overtaken>>

\* One transaction.  All managed aliases come to name the key the first of them
\* names, looked up in a fixed order; nothing asks whether that key exists.
PointManaged(k) ==
    aliases' = [a \in Aliases |-> IF a \in ManagedAliases THEN k ELSE aliases[a]]

EnsureAWSManagedConvenienceAliases ==
    /\ ManagedAliases # {}
    /\ \/ /\ \A a \in ManagedAliases : aliases[a] = None
          /\ \E k \in Keys : createKeyTx(k) /\ PointManaged(k)
       \/ /\ \E a \in ManagedAliases : aliases[a] # None /\ PointManaged(aliases[a])
          /\ UNCHANGED <<keys, minted, used>>
    /\ UNCHANGED <<now, archive, grants, blobs, requests, overtaken>>

-----------------------------------------------------------------------------
(* GetKey: the sweep, then the row.                                        *)

\* Broken: a deletion that is due this second is left for a later sweep.
DueKeysLate == {k \in Keys : Pending(k) /\ keys[k].due # 0 /\ keys[k].due < now}

\* The SELECT of SweepExpiredPendingKeys.
DueKeys == {k \in Keys : Pending(k) /\ keys[k].due # 0 /\ keys[k].due <= now}

Arguments(o, k) ==
    CASE o \in {"CreateAlias", "UpdateAlias"} -> Aliases
      [] o = "Decrypt" -> {b \in blobs : b.key = k}
      [] OTHER -> {None}

\* A request's first statement is its sweep's.
Begin(c) ==
    /\ requests[c] = Idle
    /\ \E o \in Ops, k \in used : \E x \in Arguments(o, k) :
         Goto(c, [op |-> o, key |-> k, arg |-> x, phase |-> "purge", next |-> "act",
                  due |-> DueKeys, at |-> now, found |-> {}])
    /\ UNCHANGED <<now, keys, archive, aliases, grants, blobs, minted, used, overtaken>>

\* The sweep of a rotation within a request.
SweepAgain(c) ==
    /\ At(c, "sweep")
    /\ Goto(c, [requests[c] EXCEPT !.phase = "purge", !.due = DueKeys, !.at = now])
    /\ UNCHANGED <<now, keys, archive, aliases, grants, blobs, minted, used, overtaken>>

\* Requests that looked k up and are about to write a row that names it.
Inserting(k) ==
    \E d \in Clients : At(d, "write") /\ requests[d].op \in Inserts /\ requests[d].key = k

\* Broken: the aliases are left to their owners.
DeleteGrantsOnly(k) ==
    /\ grants' = [g \in Grants |-> IF grants[g] = k THEN None ELSE grants[g]]
    /\ UNCHANGED aliases

DeleteReferences(k) ==
    /\ grants' = [g \in Grants |-> IF grants[g] = k THEN None ELSE grants[g]]
    /\ aliases' = [a \in Aliases |-> IF aliases[a] = k THEN None ELSE aliases[a]]

\* purgeKey deletes by key id; the state is not looked at again.  A key that is
\* gone already fails the sweep and with it the request.
PurgeKey(c) ==
    /\ At(c, "purge")
    /\ \E k \in requests[c].due :
         \/ /\ Exists(k)
            /\ keys' = [keys EXCEPT ![k] = None]
            /\ archive' = [archive EXCEPT ![k] = {}]
            /\ DeleteReferences(k)
            /\ overtaken' = IF Inserting(k) THEN overtaken \cup {k} ELSE overtaken
            /\ Goto(c, [requests[c] EXCEPT !.due = @ \ {k}])
         \/ /\ ~Exists(k)
            /\ Return(c)
            /\ UNCHANGED <<keys, archive, aliases, grants, overtaken>>
    /\ UNCHANGED <<now, blobs, minted, used>>

\* Broken: EnableKey and DisableKey take a key that is pending deletion.
AdmittedPending(r, row) ==
    /\ r.next = "rotate" => row.state # "PendingDeletion"
    /\ r.next = "act" =>
         /\ r.op \in {"EnableRotation", "DisableRotation", "Schedule"}
              => row.state # "PendingDeletion"
         /\ r.op = "Cancel" => row.state = "PendingDeletion"
         /\ r.op \in Sealings \cup {"Decrypt", "CreateGrant"} => row.state = "Enabled"

\* What each method, with its handler, asks of the row it loaded.
Admitted(r, row) ==
    /\ r.next = "rotate" => row.state # "PendingDeletion"
    /\ r.next = "act" =>
         /\ r.op \in {"Enable", "Disable", "EnableRotation", "DisableRotation", "Schedule"}
              => row.state # "PendingDeletion"
         /\ r.op = "Cancel" => row.state = "PendingDeletion"
         /\ r.op \in Sealings \cup {"Decrypt", "CreateGrant"} => row.state = "Enabled"

AfterLoad(r) ==
    IF r.next = "rotate" THEN "rotate"
    ELSE IF r.op = "Encrypt" THEN "auto"
    ELSE IF r.op \in {"Seal", "Decrypt"} THEN "current"
    ELSE "write"

\* getKeyRaw and the checks after it.
Load(c) ==
    LET r == requests[c]
    IN /\ At(c, "purge") /\ r.due = {}
       /\ IF Exists(r.key) /\ r.op # "Get" /\ Admitted(r, keys[r.key])
            THEN Goto(c, [r EXCEPT !.phase = AfterLoad(r)])
            ELSE Return(c)
       /\ UNCHANGED <<now, keys, archive, aliases, grants, blobs, minted, used, overtaken>>

-----------------------------------------------------------------------------
(* Writes, each one statement after the check.                             *)

\* Another request has k on the list of its sweep, or is about to write its state.
Deciding(c, k) ==
    \E d \in Clients \ {c} :
       \/ At(d, "purge") /\ k \in requests[d].due
       \/ At(d, "write") /\ requests[d].op \in StateWrites /\ requests[d].key = k

StateWritten(o, row) ==
    CASE o = "Enable" -> [row EXCEPT !.state = "Enabled"]
      [] o = "Disable" -> [row EXCEPT !.state = "Disabled"]
      [] o = "Schedule" -> [row EXCEPT !.state = "PendingDeletion", !.due = now + PendingWindow]
      [] o = "Cancel" -> [row EXCEPT !.state = "Disabled", !.due = 0]

\* SetKeyState, ScheduleKeyDeletion, CancelKeyDeletion: no row, no change.
WriteState(c) ==
    LET r == requests[c]
    IN /\ At(c, "write") /\ r.op \in StateWrites
       /\ \/ /\ Exists(r.key)
             /\ keys' = [keys EXCEPT ![r.key] = StateWritten(r.op, @)]
             /\ overtaken' = IF Deciding(c, r.key) THEN overtaken \cup {r.key} ELSE overtaken
          \/ /\ ~Exists(r.key)
             /\ UNCHANGED <<keys, overtaken>>
       /\ Return(c)
       /\ UNCHANGED <<now, archive, aliases, grants, blobs, minted, used>>

\* SetKeyRotationEnabled: the flag, and when it is set a rotation at once.
WriteRotationFlag(c) ==
    LET r == requests[c]
        on == r.op = "EnableRotation"
    IN /\ At(c, "write") /\ r.op \in {"EnableRotation", "DisableRotation"}
       /\ keys' = IF Exists(r.key) THEN [keys EXCEPT ![r.key].rotate = on] ELSE keys
       /\ Goto(c, IF on THEN [r EXCEPT !.phase = "sweep", !.next = "rotate"] ELSE Idle)
       /\ UNCHANGED <<now, archive, aliases, grants, blobs, minted, used, overtaken>>

\* The INSERT of CreateAlias (alias names are a primary key), the UPDATE of
\* UpdateAlias, the INSERT of CreateGrant.
WriteReference(c) ==
    LET r == requests[c]
    IN /\ At(c, "write") /\ r.op \in Inserts
       /\ \/ /\ r.op = "CreateAlias" /\ aliases[r.arg] = None
             /\ aliases' = [aliases EXCEPT ![r.arg] = r.key]
             /\ UNCHANGED grants
          \/ /\ r.op = "UpdateAlias" /\ aliases[r.arg] # None
             /\ aliases' = [aliases EXCEPT ![r.arg] = r.key]
             /\ UNCHANGED grants
          \/ /\ r.op = "CreateGrant"
             /\ \E g \in Grants : grants[g] = None /\ grants' = [grants EXCEPT ![g] = r.key]
             /\ UNCHANGED aliases
       /\ Return(c)
       /\ UNCHANGED <<now, keys, archive, blobs, minted, used, overtaken>>

\* DeleteAlias; RetireGrant, RevokeGrantOnKey.  One statement each.
DeleteAlias ==
    /\ \E a \in Aliases : aliases[a] # None /\ aliases' = [aliases EXCEPT ![a] = None]
    /\ UNCHANGED <<now, keys, archive, grants, blobs, requests, minted, used, overtaken>>

DeleteGrant ==
    /\ \E g \in Grants : grants[g] # None /\ grants' = [grants EXCEPT ![g] = None]
    /\ UNCHANGED <<now, keys, archive, aliases, blobs, requests, minted, used, overtaken>>

-----------------------------------------------------------------------------
(* Rotation and use of the material.                                       *)

\* MaybeAutoRotate: one SELECT, and a RotateKeyMaterial when the period is over.
MaybeAutoRotate(c) ==
    LET r == requests[c]
        row == keys[r.key]
    IN /\ At(c, "auto")
       /\ IF ~Exists(r.key) THEN Return(c)
          ELSE IF row.rotate /\ ~Pending(r.key) /\ now >= row.rotated + RotationPeriod
          THEN Goto(c, [r EXCEPT !.phase = "sweep", !.next = "rotate"])
          ELSE Goto(c, [r EXCEPT !.phase = "current"])
       /\ UNCHANGED <<now, keys, archive, aliases, grants, blobs, minted, used, overtaken>>

\* Broken: what was current is overwritten.
ArchivedNothing(k) == archive[k]

Archived(k) == archive[k] \cup {keys[k].material}

\* The transaction of RotateKeyMaterial.
RotateKeyMaterial(c) ==
    LET r == requests[c]
    IN /\ At(c, "rotate")
       /\ \/ /\ Exists(r.key) /\ minted < MaxMaterials
             /\ archive' = [archive EXCEPT ![r.key] = Archived(r.key)]
             /\ keys' = [keys EXCEPT ![r.key].material = minted, ![r.key].rotated = now]
             /\ minted' = minted + 1
             /\ Goto(c, IF r.op = "Encrypt" THEN [r EXCEPT !.phase = "current"] ELSE Idle)
          \/ /\ ~Exists(r.key)
             /\ Return(c)
             /\ UNCHANGED <<keys, archive, minted>>
       /\ UNCHANGED <<now, aliases, grants, blobs, used, overtaken>>

\* UnsealKeyMaterial, and for Encrypt and SealPlaintextWithKMS the ciphertext.
UnsealKeyMaterial(c) ==
    LET r == requests[c]
        m == keys[r.key].material
    IN /\ At(c, "current")
       /\ IF ~Exists(r.key) THEN Return(c) /\ UNCHANGED blobs
          ELSE IF r.op = "Decrypt"
          THEN Goto(c, [r EXCEPT !.phase = "archived", !.found = {m}]) /\ UNCHANGED blobs
          ELSE Return(c) /\ blobs' = blobs \cup {[key |-> r.key, material |-> m]}
       /\ UNCHANGED <<now, keys, archive, aliases, grants, minted, used, overtaken>>

\* The second statement of UnsealAllKeyMaterials.
ReadArchive(c) ==
    /\ At(c, "archived")
    /\ Goto(c, [requests[c] EXCEPT !.phase = "opened", !.found = @ \cup archive[requests[c].key]])
    /\ UNCHANGED <<now, keys, archive, aliases, grants, blobs, minted, used, overtaken>>

\* DecryptBlobWithKeyContext tries what was found and answers.
AnswerDecrypt(c) ==
    /\ At(c, "opened")
    /\ Return(c)
    /\ UNCHANGED <<now, keys, archive, aliases, grants, blobs, minted, used, overtaken>>

-----------------------------------------------------------------------------
(* Failures and time.                                                      *)

\* A statement that fails, or the end of the process: nothing else is kept in
\* memory.
Abort(c) ==
    /\ requests[c] # Idle
    /\ Return(c)
    /\ UNCHANGED <<now, keys, archive, aliases, grants, blobs, minted, used, overtaken>>

Tick ==
    /\ now < MaxTime
    /\ now' = now + 1
    /\ UNCHANGED <<keys, archive, aliases, grants, blobs, requests, minted, used, overtaken>>

Step(c) ==
    \/ Begin(c) \/ SweepAgain(c) \/ PurgeKey(c) \/ Load(c)
    \/ WriteState(c) \/ WriteRotationFlag(c) \/ WriteReference(c)
    \/ MaybeAutoRotate(c) \/ RotateKeyMaterial(c)
    \/ UnsealKeyMaterial(c) \/ ReadArchive(c) \/ AnswerDecrypt(c)
    \/ Abort(c)

Next ==
    \/ CreateKey \/ EnsureAWSManagedConvenienceAliases
    \/ DeleteAlias \/ DeleteGrant \/ Tick
    \/ \E c \in Clients : Step(c)

Spec == Init /\ [][Next]_vars

-----------------------------------------------------------------------------
(* Properties.                                                             *)

\* DecryptBlobWithKeyContext: a decryption whose key outlives it has found the
\* material of its ciphertext, though the current material and the archive are
\* read by two statements and rotations run beside it.
DecryptFinds ==
    \A c \in Clients :
       At(c, "opened") /\ Exists(requests[c].key) => requests[c].arg.material \in requests[c].found

\* The sweep of GetKey: once a request has purged what it listed, no key is left
\* whose deletion was due when it listed them, whatever other requests scheduled,
\* cancelled and swept meanwhile.
ExpiredNeverServed ==
    \A c \in Clients :
       At(c, "purge") /\ requests[c].due = {} => \A k \in Keys : Pending(k) => keys[k].due > requests[c].at

\* SweepExpiredPendingKeys, CancelKeyDeletion: a key is destroyed only while its
\* deletion is pending and due, and leaves that state otherwise only by a
\* cancellation, unless a request changed its state while another had listed it
\* for its purge or had checked it for a change.
EndsOnSchedule(k) ==
    /\ Exists(k) /\ ~Exists(k)' => Pending(k) /\ keys[k].due <= now
    /\ Pending(k) /\ Exists(k)' /\ ~Pending(k)' => keys'[k].due = 0
DeletionOnSchedule == [][\A k \in Keys \ overtaken' : EndsOnSchedule(k)]_vars

\* purgeKey: no alias and no grant names a key that is gone, unless the key was
\* purged between the look and the insertion of the request that made it.
ReferencesLive ==
    /\ \A a \in Aliases : aliases[a] \in {None} \cup overtaken \/ Exists(aliases[a])
    /\ \A g \in Grants : grants[g] \in {None} \cup overtaken \/ Exists(grants[g])
=============================================================================
