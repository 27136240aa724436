---------------------------- MODULE KMSKeysProofs ----------------------------
(***************************************************************************)
(* Proofs about KMSKeys for every number of clients, keys, materials,      *)
(* aliases and grants.                                                     *)
(***************************************************************************)
EXTENDS KMSKeys, TLAPS

\* A client is idle, or its request is one of a Store method.
LEMMA RequestOrIdle ==
  ASSUME TypeOK, NEW c \in Clients
  PROVE  requests[c] # Idle => requests[c] \in Request
BY DEF TypeOK

LEMMA PhaseIsRequest ==
  ASSUME TypeOK, NEW c \in Clients, NEW p, p # "idle", At(c, p)
  PROVE  requests[c] \in Request
BY DEF TypeOK, At, Idle

LEMMA GotoTyped ==
  ASSUME TypeOK, NEW c \in Clients, NEW r, r \in Request \/ r = Idle, Goto(c, r)
  PROVE  requests' \in [Clients -> Request \cup {Idle}]
BY DEF TypeOK, Goto

LEMMA RowOf ==
  ASSUME TypeOK, NEW k \in Keys, Exists(k)
  PROVE  keys[k] \in Row
BY DEF TypeOK, Exists

LEMMA CreateTyped ==
  ASSUME TypeOK, NEW k \in Keys, createKeyTx(k)
  PROVE  keys' \in [Keys -> Row \cup {None}] /\ minted' \in Nat /\ used' \in SUBSET Keys
<1>1. NewKey \in Row
  BY DEF TypeOK, NewKey, Row, States
<1> QED BY <1>1 DEF TypeOK, createKeyTx

LEMMA StateWrittenTyped ==
  ASSUME TypeOK, NEW row \in Row, NEW o \in StateWrites
  PROVE  StateWritten(o, row) \in Row
<1>1. now + PendingWindow \in Nat
  BY TimesAssumption DEF TypeOK
<1>2. CASE o = "Enable"
  BY <1>2 DEF StateWritten, Row, States
<1>3. CASE o = "Disable"
  BY <1>3 DEF StateWritten, Row, States
<1>4. CASE o = "Schedule"
  BY <1>1, <1>4 DEF StateWritten, Row, States
<1>5. CASE o = "Cancel"
  BY <1>5 DEF StateWritten, Row, States
<1> QED BY <1>2, <1>3, <1>4, <1>5 DEF StateWrites

-----------------------------------------------------------------------------
\* Every step keeps the types.
LEMMA TypeStep == ASSUME TypeOK, [Next]_vars PROVE TypeOK'
<1> USE TimesAssumption, AliasesAssumption
<1>1. CASE CreateKey
  BY <1>1, CreateTyped DEF CreateKey, TypeOK
<1>2. CASE EnsureAWSManagedConvenienceAliases
  <2>1. \A k \in Keys : PointManaged(k) => aliases' \in [Aliases -> Keys \cup {None}]
    BY DEF PointManaged, TypeOK
  <2>2. CASE \E k \in Keys : createKeyTx(k) /\ PointManaged(k)
    BY <1>2, <2>1, <2>2, CreateTyped DEF EnsureAWSManagedConvenienceAliases, TypeOK
  <2>3. CASE /\ \E a \in ManagedAliases : aliases[a] # None /\ PointManaged(aliases[a])
             /\ UNCHANGED <<keys, minted, used>>
    <3>1. PICK a \in ManagedAliases : aliases[a] # None /\ PointManaged(aliases[a])
      BY <2>3
    <3>2. aliases[a] \in Keys
      BY <3>1 DEF TypeOK
    <3> QED BY <1>2, <2>1, <2>3, <3>1, <3>2 DEF EnsureAWSManagedConvenienceAliases, TypeOK
  <2> QED BY <1>2, <2>2, <2>3 DEF EnsureAWSManagedConvenienceAliases
<1>3. CASE DeleteAlias
  BY <1>3 DEF DeleteAlias, TypeOK
<1>4. CASE DeleteGrant
  BY <1>4 DEF DeleteGrant, TypeOK
<1>5. CASE Tick
  BY <1>5 DEF Tick, TypeOK
<1>6. ASSUME NEW c \in Clients, Step(c) PROVE TypeOK'
  <2> DEFINE r == requests[c]
  <2>1. CASE Begin(c)
    <3>1. PICK o \in Ops, k \in used : \E x \in Arguments(o, k) :
            Goto(c, [op |-> o, key |-> k, arg |-> x, phase |-> "purge", next |-> "act",
                     due |-> DueKeys, at |-> now, found |-> {}])
      BY <2>1 DEF Begin
    <3>2. PICK x \in Arguments(o, k) :
            Goto(c, [op |-> o, key |-> k, arg |-> x, phase |-> "purge", next |-> "act",
                     due |-> DueKeys, at |-> now, found |-> {}])
      BY <3>1
    <3>3. x \in Aliases \cup Blob \cup {None}
      BY DEF Arguments, TypeOK
    <3>4. [op |-> o, key |-> k, arg |-> x, phase |-> "purge", next |-> "act",
           due |-> DueKeys, at |-> now, found |-> {}] \in Request
      BY <3>3 DEF Request, DueKeys, TypeOK
    <3> QED BY <2>1, <3>2, <3>4, GotoTyped DEF Begin, TypeOK
  <2>2. CASE SweepAgain(c)
    <3>1. r \in Request
      BY <2>2, PhaseIsRequest DEF SweepAgain
    <3>2. [r EXCEPT !.phase = "purge", !.due = DueKeys, !.at = now] \in Request
      BY <3>1 DEF Request, DueKeys, TypeOK
    <3> QED BY <2>2, <3>2, GotoTyped DEF SweepAgain, TypeOK
  <2>3. CASE PurgeKey(c)
    <3>1. r \in Request
      BY <2>3, PhaseIsRequest DEF PurgeKey
    <3>2. PICK k \in r.due :
            \/ /\ keys' = [keys EXCEPT ![k] = None]
               /\ archive' = [archive EXCEPT ![k] = {}]
               /\ DeleteReferences(k)
               /\ overtaken' = IF Inserting(k) THEN overtaken \cup {k} ELSE overtaken
               /\ Goto(c, [r EXCEPT !.due = @ \ {k}])
            \/ /\ Return(c)
               /\ UNCHANGED <<keys, archive, aliases, grants, overtaken>>
      BY <2>3 DEF PurgeKey
    <3>3. k \in Keys /\ [r EXCEPT !.due = @ \ {k}] \in Request
      BY <3>1 DEF Request
    <3>4. requests' \in [Clients -> Request \cup {Idle}]
      BY <3>2, <3>3, GotoTyped DEF Return
    <3>5. /\ keys' \in [Keys -> Row \cup {None}] /\ archive' \in [Keys -> SUBSET Nat]
          /\ overtaken' \in SUBSET Keys
      BY <3>2, <3>3 DEF TypeOK
    <3>6. aliases' \in [Aliases -> Keys \cup {None}] /\ grants' \in [Grants -> Keys \cup {None}]
      BY <3>2 DEF TypeOK, DeleteReferences
    <3>7. UNCHANGED <<now, blobs, minted, used>>
      BY <2>3 DEF PurgeKey
    <3> QED BY <3>4, <3>5, <3>6, <3>7 DEF TypeOK
  <2>4. CASE Load(c)
    <3>1. r \in Request
      BY <2>4, PhaseIsRequest DEF Load
    <3>2. [r EXCEPT !.phase = AfterLoad(r)] \in Request
      BY <3>1 DEF Request, AfterLoad
    <3>3. requests' \in [Clients -> Request \cup {Idle}]
      BY <2>4, <3>2, GotoTyped DEF Load, Return
    <3> QED BY <2>4, <3>3 DEF Load, TypeOK
  <2>5. CASE WriteState(c)
    <3>1. r \in Request
      BY <2>5, PhaseIsRequest DEF WriteState
    <3>2. r.key \in Keys
      BY <3>1 DEF Request
    <3>3. \A row \in Row, o \in StateWrites : StateWritten(o, row) \in Row
      BY StateWrittenTyped
    <3>4. keys' \in [Keys -> Row \cup {None}] /\ overtaken' \in SUBSET Keys
      BY <2>5, <3>2, <3>3, RowOf DEF WriteState, TypeOK
    <3>5. requests' \in [Clients -> Request \cup {Idle}]
      BY <2>5, GotoTyped DEF WriteState, Return
    <3> QED BY <2>5, <3>4, <3>5 DEF WriteState, TypeOK
  <2>6. CASE WriteRotationFlag(c)
    <3>1. r \in Request
      BY <2>6, PhaseIsRequest DEF WriteRotationFlag
    <3>2. r.key \in Keys /\ [r EXCEPT !.phase = "sweep", !.next = "rotate"] \in Request
      BY <3>1 DEF Request
    <3>3. requests' \in [Clients -> Request \cup {Idle}]
      BY <2>6, <3>2, GotoTyped DEF WriteRotationFlag
    <3>4. \A b \in BOOLEAN : Exists(r.key) => [keys[r.key] EXCEPT !.rotate = b] \in Row
      BY <3>2, RowOf DEF Row
    <3>5. keys' \in [Keys -> Row \cup {None}]
      BY <2>6, <3>2, <3>4 DEF WriteRotationFlag, TypeOK
    <3> QED BY <2>6, <3>3, <3>5 DEF WriteRotationFlag, TypeOK
  <2>7. CASE WriteReference(c)
    <3>1. r \in Request
      BY <2>7, PhaseIsRequest DEF WriteReference
    <3>2. r.key \in Keys
      BY <3>1 DEF Request
    <3>3. requests' \in [Clients -> Request \cup {Idle}]
      BY <2>7, GotoTyped DEF WriteReference, Return
    <3>4. aliases' \in [Aliases -> Keys \cup {None}] /\ grants' \in [Grants -> Keys \cup {None}]
      BY <2>7, <3>2 DEF WriteReference, TypeOK
    <3> QED BY <2>7, <3>3, <3>4 DEF WriteReference, TypeOK
  <2>8. CASE MaybeAutoRotate(c)
    <3>1. r \in Request
      BY <2>8, PhaseIsRequest DEF MaybeAutoRotate
    <3>2. /\ [r EXCEPT !.phase = "sweep", !.next = "rotate"] \in Request
          /\ [r EXCEPT !.phase = "current"] \in Request
      BY <3>1 DEF Request
    <3>3. requests' \in [Clients -> Request \cup {Idle}]
      BY <2>8, <3>2, GotoTyped DEF MaybeAutoRotate, Return
    <3> QED BY <2>8, <3>3 DEF MaybeAutoRotate, TypeOK
  <2>9. CASE RotateKeyMaterial(c)
    <3>1. r \in Request
      BY <2>9, PhaseIsRequest DEF RotateKeyMaterial
    <3>2. r.key \in Keys /\ [r EXCEPT !.phase = "current"] \in Request
      BY <3>1 DEF Request
    <3>3. requests' \in [Clients -> Request \cup {Idle}]
      BY <2>9, <3>2, GotoTyped DEF RotateKeyMaterial, Return
    <3>4. Exists(r.key) => /\ [keys[r.key] EXCEPT !.material = minted, !.rotated = now] \in Row
                           /\ Archived(r.key) \in SUBSET Nat
      BY <3>2, RowOf DEF Row, TypeOK, Archived
    <3>5. keys' \in [Keys -> Row \cup {None}]
      <4>1. CASE Exists(r.key)
        <5>1. keys' = [keys EXCEPT ![r.key] = [keys[r.key] EXCEPT !.material = minted, !.rotated = now]]
          BY <2>9, <3>2, <4>1, RowOf DEF RotateKeyMaterial, TypeOK, Row
        <5> QED BY <3>2, <3>4, <4>1, <5>1 DEF TypeOK
      <4> QED BY <2>9, <4>1 DEF RotateKeyMaterial, TypeOK
    <3>6. archive' \in [Keys -> SUBSET Nat] /\ minted' \in Nat
      BY <2>9, <3>2, <3>4 DEF RotateKeyMaterial, TypeOK
    <3> QED BY <2>9, <3>3, <3>5, <3>6 DEF RotateKeyMaterial, TypeOK
  <2>10. CASE UnsealKeyMaterial(c)
    <3>1. r \in Request
      BY <2>10, PhaseIsRequest DEF UnsealKeyMaterial
    <3>2. r.key \in Keys /\ (Exists(r.key) => keys[r.key].material \in Nat)
      BY <3>1, RowOf DEF Request, Row
    <3>3. Exists(r.key) => [r EXCEPT !.phase = "archived", !.found = {keys[r.key].material}] \in Request
      BY <3>1, <3>2 DEF Request
    <3>4. requests' \in [Clients -> Request \cup {Idle}]
      BY <2>10, <3>3, GotoTyped DEF UnsealKeyMaterial, Return
    <3>5. blobs' \in SUBSET Blob
      BY <2>10, <3>2 DEF UnsealKeyMaterial, TypeOK, Blob
    <3> QED BY <2>10, <3>4, <3>5 DEF UnsealKeyMaterial, TypeOK
  <2>11. CASE ReadArchive(c)
    <3>1. r \in Request
      BY <2>11, PhaseIsRequest DEF ReadArchive
    <3>2. archive[r.key] \in SUBSET Nat
      BY <3>1 DEF Request, TypeOK
    <3>3. [r EXCEPT !.phase = "opened", !.found = @ \cup archive[r.key]] \in Request
      BY <3>1, <3>2 DEF Request
    <3> QED BY <2>11, <3>3, GotoTyped DEF ReadArchive, TypeOK
  <2>12. CASE AnswerDecrypt(c)
    BY <2>12, GotoTyped DEF AnswerDecrypt, Return, TypeOK
  <2>13. CASE Abort(c)
    BY <2>13, GotoTyped DEF Abort, Return, TypeOK
  <2> QED BY <1>6, <2>1, <2>2, <2>3, <2>4, <2>5, <2>6, <2>7, <2>8, <2>9, <2>10, <2>11, <2>12, <2>13 DEF Step
<1>7. CASE UNCHANGED vars
  BY <1>7 DEF vars, TypeOK
<1> QED BY <1>1, <1>2, <1>3, <1>4, <1>5, <1>6, <1>7 DEF Next

\* Every value the kms tables and the requests take is one the code can write:
\* no step of createKeyTx, the sweep, the state changes or a rotation leaves the types.
THEOREM TypeCorrect == Spec => []TypeOK
<1>1. Init => TypeOK
  BY DEF Init, TypeOK
<1>2. TypeOK /\ [Next]_vars => TypeOK'
  BY TypeStep
<1> QED BY <1>1, <1>2, PTL DEF Spec

-----------------------------------------------------------------------------
(* The inductive invariant.                                                *)

\* Only ids that were given out have rows.
KeysUsed == \A k \in Keys : Exists(k) => k \in used

\* What was sealed can be opened as long as its key exists.
BlobsSealed ==
    \A b \in blobs : b.key \in used /\ (Exists(b.key) => b.material \in Archived(b.key))

\* A pending deletion has a date.
PendingDated == \A k \in Keys : Pending(k) => keys[k].due # 0

\* A request is about an id that was given out; its list is empty once it is past
\* its sweep; a decryption has a ciphertext of its key.
Placed(c) ==
    LET r == requests[c]
    IN r # Idle =>
         /\ r.key \in used /\ r.due \subseteq used /\ r.at <= now
         /\ r.phase # "purge" => r.due = {}
         /\ r.op = "Decrypt" => r.arg \in blobs /\ r.arg.key = r.key
         /\ r.phase \in {"archived", "opened"} => r.op = "Decrypt"

\* Between the two reads the ciphertext's material is the one read or archived.
Covered(c) ==
    LET r == requests[c]
    IN /\ At(c, "archived") /\ Exists(r.key) => r.arg.material \in r.found \cup archive[r.key]
       /\ At(c, "opened") /\ Exists(r.key) => r.arg.material \in r.found

\* A sweep under way still lists whatever was due when it began; what it lists is
\* due, or gone, or was overtaken.
Sweeping(c) ==
    At(c, "purge") =>
       /\ \A k \in Keys : Pending(k) /\ keys[k].due <= requests[c].at => k \in requests[c].due
       /\ \A k \in requests[c].due \ overtaken : Exists(k) => Pending(k) /\ keys[k].due <= now

\* What a request has checked still holds when it writes, or was overtaken.
Checked(c) ==
    At(c, "write") /\ requests[c].key \notin overtaken =>
       /\ requests[c].op \in {"Enable", "Disable"} => ~Pending(requests[c].key)
       /\ requests[c].op \in Inserts => Exists(requests[c].key)

ClientOK(c) == Placed(c) /\ Covered(c) /\ Sweeping(c) /\ Checked(c)

IInv ==
    /\ TypeOK /\ KeysUsed /\ BlobsSealed /\ PendingDated /\ ReferencesLive
    /\ \A c \in Clients : ClientOK(c)

\* A request that has ended, or has not begun, constrains nothing.
LEMMA IdleOK ==
  ASSUME NEW c \in Clients, requests'[c] = Idle
  PROVE  ClientOK(c)'
BY DEF ClientOK, Placed, Covered, Sweeping, Checked, At, Idle

\* A step that only moves request c needs a look at c alone.
LEMMA RequestStep ==
  ASSUME IInv, TypeOK', NEW c \in Clients, NEW r, Goto(c, r), ClientOK(c)',
         UNCHANGED <<now, keys, archive, aliases, grants, blobs, minted, used, overtaken>>
  PROVE  IInv'
<1>1. ASSUME NEW d \in Clients, d # c PROVE ClientOK(d)'
  <2>1. requests'[d] = requests[d]
    BY <1>1 DEF Goto, IInv, TypeOK
  <2>2. Placed(d)' /\ Covered(d)'
    BY <2>1 DEF IInv, ClientOK, Placed, Covered, At, Exists
  <2>3. Sweeping(d)' /\ Checked(d)'
    BY <2>1 DEF IInv, ClientOK, Sweeping, Checked, At, Exists, Pending
  <2> QED BY <2>2, <2>3 DEF ClientOK
<1>2. KeysUsed' /\ BlobsSealed' /\ PendingDated' /\ ReferencesLive'
  BY DEF IInv, KeysUsed, BlobsSealed, PendingDated, ReferencesLive, Exists, Pending, Archived
<1> QED BY <1>1, <1>2 DEF IInv

\* A step that changes only aliases and grants needs a look at those.
LEMMA OthersUnchanged ==
  ASSUME IInv, TypeOK', ReferencesLive',
         UNCHANGED <<now, keys, archive, blobs, requests, minted, used, overtaken>>
  PROVE  IInv'
<1>1. \A d \in Clients : ClientOK(d)'
  BY DEF IInv, ClientOK, Placed, Covered, Sweeping, Checked, At, Exists, Pending
<1>2. KeysUsed' /\ BlobsSealed' /\ PendingDated'
  BY DEF IInv, KeysUsed, BlobsSealed, PendingDated, Exists, Pending, Archived
<1> QED BY <1>1, <1>2 DEF IInv

\* A request that fails or has nothing more to do.
LEMMA ReturnStep ==
  ASSUME IInv, TypeOK', NEW c \in Clients, Return(c),
         UNCHANGED <<now, keys, archive, aliases, grants, blobs, minted, used, overtaken>>
  PROVE  IInv'
<1>1. requests'[c] = Idle
  BY DEF Return, Goto, IInv, TypeOK
<1> QED BY <1>1, IdleOK, RequestStep DEF Return

\* A list taken now covers what is due.
LEMMA ListOK ==
  ASSUME IInv, TypeOK', NEW c \in Clients,
         requests'[c].phase = "purge", requests'[c].due = DueKeys, requests'[c].at = now,
         UNCHANGED <<now, keys, overtaken>>
  PROVE  Sweeping(c)' /\ DueKeys \subseteq used
<1>1. Sweeping(c)'
  BY DEF IInv, Sweeping, DueKeys, PendingDated, At, Exists, Pending
<1>2. DueKeys \subseteq used
  BY DEF IInv, KeysUsed, DueKeys, Pending
<1> QED BY <1>1, <1>2

LEMMA BeginStep ==
  ASSUME IInv, TypeOK', NEW c \in Clients, Begin(c)
  PROVE  IInv'
<1>1. PICK o \in Ops, k \in used : \E x \in Arguments(o, k) :
        Goto(c, [op |-> o, key |-> k, arg |-> x, phase |-> "purge", next |-> "act",
                 due |-> DueKeys, at |-> now, found |-> {}])
  BY DEF Begin
<1>2. PICK x \in Arguments(o, k) :
        Goto(c, [op |-> o, key |-> k, arg |-> x, phase |-> "purge", next |-> "act",
                 due |-> DueKeys, at |-> now, found |-> {}])
  BY <1>1
<1>3. requests'[c] = [op |-> o, key |-> k, arg |-> x, phase |-> "purge", next |-> "act",
                      due |-> DueKeys, at |-> now, found |-> {}]
  BY <1>2 DEF Goto, IInv, TypeOK
<1>4. UNCHANGED <<now, keys, archive, aliases, grants, blobs, minted, used, overtaken>>
  BY DEF Begin
<1>5. Sweeping(c)' /\ DueKeys \subseteq used
  BY <1>3, <1>4, ListOK
<1>6. Placed(c)'
  <2>1. o = "Decrypt" => x \in blobs /\ x.key = k
    BY DEF Arguments
  <2>2. now <= now
    BY DEF IInv, TypeOK
  <2> QED BY <1>3, <1>4, <1>5, <2>1, <2>2 DEF Placed
<1>7. Covered(c)' /\ Checked(c)'
  BY <1>3 DEF Covered, Checked, At
<1> QED BY <1>2, <1>4, <1>5, <1>6, <1>7, RequestStep DEF ClientOK

LEMMA SweepAgainStep ==
  ASSUME IInv, TypeOK', NEW c \in Clients, SweepAgain(c)
  PROVE  IInv'
<1>1. requests[c] \in Request
  BY PhaseIsRequest DEF SweepAgain, IInv
<1>2. requests'[c] = [requests[c] EXCEPT !.phase = "purge", !.due = DueKeys, !.at = now]
  BY DEF SweepAgain, Goto, IInv, TypeOK
<1>3. requests'[c].phase = "purge" /\ requests'[c].due = DueKeys /\ requests'[c].at = now
  BY <1>1, <1>2 DEF Request
<1>4. UNCHANGED <<now, keys, archive, aliases, grants, blobs, minted, used, overtaken>>
  BY DEF SweepAgain
<1>5. Sweeping(c)' /\ DueKeys \subseteq used
  BY <1>3, <1>4, ListOK
<1>6. Placed(c)'
  <2>1. requests[c] # Idle /\ now <= now
    BY <1>1 DEF SweepAgain, At, Idle, IInv, TypeOK
  <2> QED BY <1>1, <1>2, <1>4, <1>5, <2>1 DEF IInv, ClientOK, Placed, Request
<1>7. Covered(c)' /\ Checked(c)'
  BY <1>3 DEF Covered, Checked, At
<1> QED BY <1>4, <1>5, <1>6, <1>7, RequestStep DEF ClientOK, SweepAgain

LEMMA LoadStep ==
  ASSUME IInv, TypeOK', NEW c \in Clients, Load(c)
  PROVE  IInv'
<1> DEFINE r == requests[c]
<1>1. r \in Request
  BY PhaseIsRequest DEF Load, IInv
<1>2. UNCHANGED <<now, keys, archive, aliases, grants, blobs, minted, used, overtaken>>
  BY DEF Load
<1>3. CASE Return(c)
  BY <1>2, <1>3, ReturnStep
<1>4. CASE /\ Exists(r.key) /\ Admitted(r, keys[r.key])
           /\ Goto(c, [r EXCEPT !.phase = AfterLoad(r)])
  <2>1. requests'[c] = [r EXCEPT !.phase = AfterLoad(r)]
    BY <1>4 DEF Goto, IInv, TypeOK
  <2>2. /\ requests'[c].phase = AfterLoad(r) /\ requests'[c].op = r.op
        /\ requests'[c].key = r.key /\ requests'[c].due = {} /\ requests'[c].at = r.at
        /\ requests'[c].arg = r.arg
    BY <1>1, <2>1 DEF Request, Load
  <2>3. AfterLoad(r) \in {"rotate", "auto", "current", "write"}
    BY DEF AfterLoad
  <2>4. r # Idle
    BY DEF Load, At, Idle
  <2>5. Placed(c)'
    BY <1>2, <2>2, <2>3, <2>4 DEF IInv, ClientOK, Placed
  <2>6. Covered(c)' /\ Sweeping(c)'
    BY <2>2, <2>3 DEF Covered, Sweeping, At
  <2>7. Checked(c)'
    <3>1. AfterLoad(r) = "write" => r.next = "act"
      BY <1>1 DEF AfterLoad, Request
    <3>2. AfterLoad(r) = "write" /\ r.op \in {"Enable", "Disable"} => ~Pending(r.key)
      BY <1>4, <3>1 DEF Admitted, Pending
    <3> QED BY <1>2, <1>4, <2>2, <3>2 DEF Checked, At, Exists, Pending
  <2> QED BY <1>2, <1>4, <2>5, <2>6, <2>7, RequestStep DEF ClientOK
<1> QED BY <1>3, <1>4 DEF Load

\* A key is created under an id nothing has named.
LEMMA CreateStep ==
  ASSUME IInv, TypeOK', NEW k \in Keys, createKeyTx(k),
         UNCHANGED <<now, archive, blobs, requests, overtaken>>, ReferencesLive'
  PROVE  IInv'
<1>1. ~Exists(k) /\ k \notin used
  BY DEF createKeyTx, IInv, KeysUsed
<1>2. /\ keys' = [keys EXCEPT ![k] = NewKey] /\ used' = used \cup {k}
      /\ keys'[k] = NewKey /\ \A j \in Keys \ {k} : keys'[j] = keys[j]
  BY DEF createKeyTx, IInv, TypeOK
<1>3. KeysUsed'
  BY <1>2 DEF IInv, KeysUsed, Exists
<1>4. BlobsSealed'
  <2>1. \A b \in blobs : b.key \in used /\ b.key \in Keys
    BY DEF IInv, BlobsSealed, TypeOK
  <2> QED BY <1>1, <1>2, <2>1 DEF IInv, BlobsSealed, Exists, Archived
<1>5. ~Pending(k)'
  BY <1>2 DEF Pending, NewKey
<1>6. PendingDated'
  BY <1>2, <1>5 DEF IInv, PendingDated, Pending, Exists
<1>7. ASSUME NEW c \in Clients PROVE ClientOK(c)'
  <2>1. CASE requests[c] = Idle
    BY <2>1, IdleOK
  <2>2. CASE requests[c] # Idle
    <3>1. requests[c] \in Request
      BY <2>2, RequestOrIdle DEF IInv
    <3>2. requests[c].key # k /\ k \notin requests[c].due /\ requests[c].key \in Keys
      BY <1>1, <2>2, <3>1 DEF IInv, ClientOK, Placed, Request
    <3>3. Placed(c)'
      BY <1>2 DEF IInv, ClientOK, Placed
    <3>4. Covered(c)'
      BY <1>2, <3>2 DEF IInv, ClientOK, Covered, At, Exists
    <3>5. Sweeping(c)'
      <4>1. requests[c].due \subseteq Keys
        BY <3>1 DEF Request
      <4> QED BY <1>2, <1>5, <3>2, <4>1 DEF IInv, ClientOK, Sweeping, At, Exists, Pending
    <3>6. Checked(c)'
      BY <1>2, <3>2 DEF IInv, ClientOK, Checked, At, Exists, Pending
    <3> QED BY <3>3, <3>4, <3>5, <3>6 DEF ClientOK
  <2> QED BY <2>1, <2>2
<1> QED BY <1>3, <1>4, <1>6, <1>7 DEF IInv

LEMMA CreateKeyStep ==
  ASSUME IInv, TypeOK', CreateKey
  PROVE  IInv'
<1>1. PICK k \in Keys : createKeyTx(k)
  BY DEF CreateKey
<1>2. UNCHANGED <<now, archive, aliases, grants, blobs, requests, overtaken>>
  BY DEF CreateKey
<1>3. \A j \in Keys : Exists(j) => Exists(j)'
  BY <1>1 DEF createKeyTx, Exists, NewKey, Row, States, IInv, TypeOK, KeysUsed
<1>4. ReferencesLive'
  BY <1>2, <1>3 DEF IInv, ReferencesLive, TypeOK
<1> QED BY <1>1, <1>2, <1>4, CreateStep

LEMMA EnsureStep ==
  ASSUME IInv, TypeOK', EnsureAWSManagedConvenienceAliases
  PROVE  IInv'
<1>1. UNCHANGED <<now, archive, grants, blobs, requests, overtaken>>
  BY DEF EnsureAWSManagedConvenienceAliases
<1>2. CASE \E k \in Keys : createKeyTx(k) /\ PointManaged(k)
  <2>1. PICK k \in Keys : createKeyTx(k) /\ PointManaged(k)
    BY <1>2
  <2>2. \A j \in Keys : Exists(j) => Exists(j)'
    BY <2>1 DEF createKeyTx, Exists, IInv, TypeOK, KeysUsed
  <2>3. Exists(k)'
    <3>1. NewKey \in Row
      BY DEF IInv, TypeOK, NewKey, Row, States
    <3> QED BY <2>1, <3>1, NoneAssumption DEF createKeyTx, Exists, IInv, TypeOK
  <2>4. ReferencesLive'
    BY <1>1, <2>1, <2>2, <2>3 DEF PointManaged, IInv, ReferencesLive, TypeOK
  <2> QED BY <1>1, <2>1, <2>4, CreateStep
<1>3. CASE /\ \E a \in ManagedAliases : aliases[a] # None /\ PointManaged(aliases[a])
           /\ UNCHANGED <<keys, minted, used>>
  <2>1. PICK a \in ManagedAliases : aliases[a] # None /\ PointManaged(aliases[a])
    BY <1>3
  <2>2. ReferencesLive'
    BY <1>1, <1>3, <2>1, AliasesAssumption DEF PointManaged, IInv, ReferencesLive, Exists
  <2> QED BY <1>1, <1>3, <2>2, OthersUnchanged
<1> QED BY <1>2, <1>3 DEF EnsureAWSManagedConvenienceAliases

\* The purge of one key of the list: it leaves nothing that named the key, but
\* for a row that another request is about to insert.
LEMMA PurgeKeyStep ==
  ASSUME IInv, TypeOK', NEW c \in Clients, PurgeKey(c)
  PROVE  IInv'
<1> DEFINE r == requests[c]
<1>1. r \in Request /\ r # Idle /\ r.due \subseteq Keys
  BY PhaseIsRequest DEF PurgeKey, At, Idle, IInv, Request
<1>2. UNCHANGED <<now, blobs, minted, used>>
  BY DEF PurgeKey
<1>3. PICK k \in r.due :
        \/ /\ Exists(k)
           /\ keys' = [keys EXCEPT ![k] = None]
           /\ archive' = [archive EXCEPT ![k] = {}]
           /\ DeleteReferences(k)
           /\ overtaken' = IF Inserting(k) THEN overtaken \cup {k} ELSE overtaken
           /\ Goto(c, [r EXCEPT !.due = @ \ {k}])
        \/ /\ ~Exists(k)
           /\ Return(c)
           /\ UNCHANGED <<keys, archive, aliases, grants, overtaken>>
  BY DEF PurgeKey
<1>4. CASE ~Exists(k) /\ Return(c) /\ UNCHANGED <<keys, archive, aliases, grants, overtaken>>
  BY <1>2, <1>4, ReturnStep
<1>5. CASE /\ keys' = [keys EXCEPT ![k] = None]
           /\ archive' = [archive EXCEPT ![k] = {}]
           /\ DeleteReferences(k)
           /\ overtaken' = IF Inserting(k) THEN overtaken \cup {k} ELSE overtaken
           /\ Goto(c, [r EXCEPT !.due = @ \ {k}])
  <2>1. /\ ~Exists(k)' /\ ~Pending(k)' /\ overtaken \subseteq overtaken'
        /\ \A j \in Keys \ {k} : keys'[j] = keys[j] /\ archive'[j] = archive[j]
    BY <1>1, <1>5 DEF IInv, TypeOK, Exists, Pending
  <2>2. KeysUsed' /\ BlobsSealed' /\ PendingDated'
    <3>1. \A b \in blobs : b.key \in Keys
      BY DEF IInv, TypeOK, Blob
    <3> QED BY <1>2, <2>1, <3>1 DEF IInv, KeysUsed, BlobsSealed, PendingDated, Exists, Pending, Archived
  <2>3. ReferencesLive'
    BY <1>5, <2>1 DEF DeleteReferences, IInv, ReferencesLive, Exists, TypeOK
  <2>4. ASSUME NEW d \in Clients, d # c PROVE ClientOK(d)'
    <3>1. requests'[d] = requests[d]
      BY <1>5, <2>4 DEF Goto, IInv, TypeOK
    <3>2. CASE requests[d] = Idle
      BY <3>1, <3>2, IdleOK
    <3>3. CASE requests[d] # Idle
      <4>1. requests[d] \in Request /\ requests[d].key \in Keys /\ requests[d].due \subseteq Keys
        BY <3>3, RequestOrIdle DEF IInv, Request
      <4>2. Placed(d)'
        BY <1>2, <3>1 DEF IInv, ClientOK, Placed
      <4>3. Covered(d)'
        BY <2>1, <3>1, <4>1 DEF IInv, ClientOK, Covered, At, Exists
      <4>4. Sweeping(d)'
        BY <1>2, <2>1, <3>1, <4>1 DEF IInv, ClientOK, Sweeping, At, Exists, Pending
      <4>5. Checked(d)'
        <5>1. At(d, "write") /\ requests[d].op \in Inserts /\ requests[d].key = k => k \in overtaken'
          BY <1>5 DEF Inserting
        <5> QED BY <2>1, <3>1, <4>1, <5>1 DEF IInv, ClientOK, Checked, At, Exists, Pending
      <4> QED BY <4>2, <4>3, <4>4, <4>5 DEF ClientOK
    <3> QED BY <3>2, <3>3
  <2>5. ClientOK(c)'
    <3>1. requests'[c] = [r EXCEPT !.due = @ \ {k}]
      BY <1>5 DEF Goto, IInv, TypeOK
    <3>2. /\ requests'[c].phase = "purge" /\ requests'[c].due = r.due \ {k}
          /\ requests'[c].key = r.key /\ requests'[c].at = r.at
          /\ requests'[c].op = r.op /\ requests'[c].arg = r.arg
      BY <1>1, <3>1 DEF Request, PurgeKey, At
    <3>3. Placed(c)'
      BY <1>1, <1>2, <3>2 DEF IInv, ClientOK, Placed
    <3>4. Covered(c)' /\ Checked(c)'
      BY <3>2 DEF Covered, Checked, At
    <3>5. Sweeping(c)'
      BY <1>1, <1>2, <2>1, <3>2 DEF IInv, ClientOK, Sweeping, At, Exists, Pending, PurgeKey
    <3> QED BY <3>3, <3>4, <3>5 DEF ClientOK
  <2> QED BY <2>2, <2>3, <2>4, <2>5 DEF IInv
<1> QED BY <1>3, <1>4, <1>5

\* A write of a key's state: a request that was deciding about the key is overtaken.
LEMMA WriteStateStep ==
  ASSUME IInv, TypeOK', NEW c \in Clients, WriteState(c)
  PROVE  IInv'
<1>0. PICK r \in Request : r = requests[c]
  BY PhaseIsRequest DEF WriteState, IInv
<1>k. PICK k \in Keys : k = r.key
  BY DEF Request
<1>1. r \in Request /\ k \in Keys /\ r.op \in StateWrites
  BY <1>0 DEF WriteState
<1>2. UNCHANGED <<now, archive, aliases, grants, blobs, minted, used>> /\ Return(c)
  BY DEF WriteState
<1>3. CASE ~Exists(k) /\ UNCHANGED <<keys, overtaken>>
  BY <1>2, <1>3, ReturnStep
<1>4. CASE /\ Exists(k)
           /\ keys' = [keys EXCEPT ![k] = StateWritten(r.op, keys[k])]
           /\ overtaken' = IF Deciding(c, k) THEN overtaken \cup {k} ELSE overtaken
  <2>1. keys[k] \in Row
    BY <1>1, <1>4, RowOf DEF IInv
  <2>2. /\ keys'[k] = StateWritten(r.op, keys[k]) /\ overtaken \subseteq overtaken'
        /\ \A j \in Keys \ {k} : keys'[j] = keys[j]
    BY <1>1, <1>4 DEF IInv, TypeOK
  <2>3. now + PendingWindow \in Nat /\ now + PendingWindow # 0 /\ now + PendingWindow > now /\ now \in Nat
    BY TimesAssumption DEF IInv, TypeOK
  <2>4. /\ keys'[k].material = keys[k].material
        /\ r.op = "Schedule" => keys'[k].due = now + PendingWindow
        /\ keys'[k].state = "PendingDeletion" => r.op = "Schedule"
    BY <1>1, <2>1, <2>2 DEF StateWritten, StateWrites, Row, States
  <2>5. Exists(k)'
    <3>1. keys'[k] \in Row
      BY <1>1, <2>1, <2>2, StateWrittenTyped DEF IInv
    <3> QED BY <3>1, NoneAssumption DEF Exists
  <2>6. \A j \in Keys : Exists(j)' <=> Exists(j)
    BY <1>4, <2>2, <2>5 DEF Exists
  <2>7. Pending(k)' => keys'[k].due > now /\ keys'[k].due # 0
    BY <2>3, <2>4 DEF Pending
  <2>8. KeysUsed' /\ ReferencesLive'
    BY <1>2, <2>2, <2>6 DEF IInv, KeysUsed, ReferencesLive, TypeOK
  <2>9. BlobsSealed'
    <3>1. \A b \in blobs : b.key \in Keys
      BY DEF IInv, TypeOK, Blob
    <3> QED BY <1>2, <2>2, <2>4, <2>6, <3>1 DEF IInv, BlobsSealed, Archived
  <2>10. PendingDated'
    BY <2>2, <2>7 DEF IInv, PendingDated, Pending, Exists
  <2>11. ASSUME NEW d \in Clients, d # c PROVE ClientOK(d)'
    <3>1. requests'[d] = requests[d]
      BY <1>2, <2>11 DEF Return, Goto, IInv, TypeOK
    <3>2. CASE requests[d] = Idle
      BY <3>1, <3>2, IdleOK
    <3>3. CASE requests[d] # Idle
      <4>1. requests[d] \in Request /\ requests[d].key \in Keys /\ requests[d].due \subseteq Keys
            /\ requests[d].at \in Nat
        BY <3>3, RequestOrIdle DEF IInv, Request
      <4>2. Placed(d)'
        BY <1>2, <3>1 DEF IInv, ClientOK, Placed
      <4>3. Covered(d)'
        BY <1>2, <2>6, <3>1, <4>1 DEF IInv, ClientOK, Covered, At
      <4>4. Sweeping(d)'
        <5>1. At(d, "purge") /\ k \in requests[d].due => k \in overtaken'
          BY <1>1, <1>4, <2>11 DEF Deciding
        <5>2. ASSUME At(d, "purge"), NEW j \in Keys, Pending(j)', keys'[j].due <= requests[d].at
              PROVE  j \in requests[d].due
          <6>1. CASE j = k
            <7>1. requests[d].at <= now
              BY <3>3 DEF IInv, ClientOK, Placed
            <7>2. keys'[k].due \in Nat
              BY <1>1, <2>5 DEF TypeOK, Exists, Row
            <7> QED BY <2>3, <2>7, <4>1, <5>2, <6>1, <7>1, <7>2
          <6>2. CASE j # k
            BY <2>2, <5>2, <6>2 DEF IInv, ClientOK, Sweeping, Pending, Exists
          <6> QED BY <6>1, <6>2
        <5>3. ASSUME At(d, "purge"), NEW j \in requests[d].due \ overtaken', Exists(j)'
              PROVE  Pending(j)' /\ keys'[j].due <= now
          BY <2>2, <4>1, <5>1, <5>3 DEF IInv, ClientOK, Sweeping, Pending, Exists
        <5> QED BY <1>2, <3>1, <5>2, <5>3 DEF Sweeping, At
      <4>5. Checked(d)'
        <5>1. At(d, "write") /\ requests[d].op \in StateWrites /\ requests[d].key = k => k \in overtaken'
          BY <1>1, <1>4, <2>11 DEF Deciding
        <5> QED BY <2>2, <2>6, <3>1, <4>1, <5>1
                DEF IInv, ClientOK, Checked, At, Pending, Exists, StateWrites
      <4> QED BY <4>2, <4>3, <4>4, <4>5 DEF ClientOK
    <3> QED BY <3>2, <3>3
  <2>12. ClientOK(c)'
    <3>1. requests'[c] = Idle
      BY <1>2 DEF Return, Goto, IInv, TypeOK
    <3> QED BY <3>1, IdleOK
  <2> QED BY <2>8, <2>9, <2>10, <2>11, <2>12 DEF IInv
<1> QED BY <1>0, <1>k, <1>3, <1>4 DEF WriteState

\* A write to a row that touches neither its state, nor its date, nor what its
\* ciphertexts need.
LEMMA RowStep ==
  ASSUME IInv, TypeOK', NEW c \in Clients, NEW k \in Keys, Exists(k),
         NEW row \in Row, keys' = [keys EXCEPT ![k] = row],
         row.state = keys[k].state, row.due = keys[k].due,
         archive[k] \subseteq archive'[k], Archived(k) \subseteq Archived(k)',
         \A j \in Keys \ {k} : archive'[j] = archive[j],
         NEW r, Goto(c, r), ClientOK(c)',
         UNCHANGED <<now, aliases, grants, blobs, used, overtaken>>
  PROVE  IInv'
<1>1. keys'[k] = row /\ \A j \in Keys \ {k} : keys'[j] = keys[j]
  BY DEF IInv, TypeOK
<1>2. Exists(k)'
  BY <1>1, NoneAssumption DEF Exists
<1>3. \A j \in Keys : /\ Exists(j)' <=> Exists(j)
                      /\ Pending(j)' <=> Pending(j)
                      /\ Pending(j) => keys'[j].due = keys[j].due
                      /\ archive[j] \subseteq archive'[j]
                      /\ Archived(j) \subseteq Archived(j)'
  BY <1>1, <1>2 DEF Exists, Pending, Archived
<1>4. KeysUsed' /\ ReferencesLive'
  BY <1>3 DEF IInv, KeysUsed, ReferencesLive, TypeOK
<1>5. BlobsSealed'
  <2>1. \A b \in blobs : b.key \in Keys
    BY DEF IInv, TypeOK, Blob
  <2> QED BY <1>3, <2>1 DEF IInv, BlobsSealed
<1>6. PendingDated'
  BY <1>3 DEF IInv, PendingDated
<1>7. ASSUME NEW d \in Clients, d # c PROVE ClientOK(d)'
  <2>1. requests'[d] = requests[d]
    BY <1>7 DEF Goto, IInv, TypeOK
  <2>2. CASE requests[d] = Idle
    BY <2>1, <2>2, IdleOK
  <2>3. CASE requests[d] # Idle
    <3>1. requests[d] \in Request /\ requests[d].key \in Keys /\ requests[d].due \subseteq Keys
      BY <2>3, RequestOrIdle DEF IInv, Request
    <3>2. Placed(d)'
      BY <2>1 DEF IInv, ClientOK, Placed
    <3>3. Covered(d)'
      BY <1>3, <2>1, <3>1 DEF IInv, ClientOK, Covered, At
    <3>4. Sweeping(d)'
      BY <1>3, <2>1, <3>1 DEF IInv, ClientOK, Sweeping, At
    <3>5. Checked(d)'
      BY <1>3, <2>1, <3>1 DEF IInv, ClientOK, Checked, At
    <3> QED BY <3>2, <3>3, <3>4, <3>5 DEF ClientOK
  <2> QED BY <2>2, <2>3
<1> QED BY <1>4, <1>5, <1>6, <1>7 DEF IInv

\* A request that goes on to a phase which promises nothing about its key.
LEMMA MovedOK ==
  ASSUME IInv, NEW c \in Clients, NEW r \in Request, r = requests[c],
         NEW p \in {"sweep", "current"}, NEW n \in {"act", "rotate"}, r.phase # "purge",
         requests'[c] = [r EXCEPT !.phase = p, !.next = n], UNCHANGED <<now, used, blobs>>
  PROVE  ClientOK(c)'
<1>1. /\ requests'[c].phase = p /\ requests'[c].due = r.due /\ requests'[c].key = r.key
      /\ requests'[c].at = r.at /\ requests'[c].op = r.op /\ requests'[c].arg = r.arg
  BY DEF Request
<1>2. Placed(c)'
  <2>1. r # Idle
    BY DEF Request, Idle
  <2> QED BY <1>1, <2>1 DEF IInv, ClientOK, Placed
<1>3. Covered(c)' /\ Sweeping(c)' /\ Checked(c)'
  BY <1>1 DEF Covered, Sweeping, Checked, At
<1> QED BY <1>2, <1>3 DEF ClientOK

LEMMA WriteRotationFlagStep ==
  ASSUME IInv, TypeOK', NEW c \in Clients, WriteRotationFlag(c)
  PROVE  IInv'
<1>1. PICK r \in Request : r = requests[c]
  BY PhaseIsRequest DEF WriteRotationFlag, IInv
<1>2. PICK k \in Keys : k = r.key
  BY DEF Request
<1>3. UNCHANGED <<now, archive, aliases, grants, blobs, minted, used, overtaken>>
  BY DEF WriteRotationFlag
<1>4. PICK on \in BOOLEAN : on = (r.op = "EnableRotation")
  OBVIOUS
<1>5. Goto(c, IF on THEN [r EXCEPT !.phase = "sweep", !.next = "rotate"] ELSE Idle)
  BY <1>1, <1>4 DEF WriteRotationFlag
<1>6. ClientOK(c)'
  <2>1. CASE on
    <3>1. requests'[c] = [r EXCEPT !.phase = "sweep", !.next = "rotate"]
      BY <1>5, <2>1 DEF Goto, IInv, TypeOK
    <3> QED BY <1>1, <1>3, <3>1, MovedOK DEF WriteRotationFlag, At
  <2>2. CASE ~on
    <3>1. requests'[c] = Idle
      BY <1>5, <2>2 DEF Goto, IInv, TypeOK
    <3> QED BY <3>1, IdleOK
  <2> QED BY <2>1, <2>2
<1>7. CASE ~Exists(k)
  <2>1. keys' = keys
    BY <1>1, <1>2, <1>7 DEF WriteRotationFlag
  <2> QED BY <1>3, <1>5, <1>6, <2>1, RequestStep
<1>8. CASE Exists(k)
  <2>1. keys[k] \in Row
    BY <1>8, RowOf DEF IInv
  <2>2. PICK row \in Row : row = [keys[k] EXCEPT !.rotate = on]
    BY <2>1 DEF Row
  <2>3. row.state = keys[k].state /\ row.due = keys[k].due /\ row.material = keys[k].material
    BY <2>1, <2>2 DEF Row
  <2>4. keys' = [keys EXCEPT ![k] = row]
    BY <1>1, <1>2, <1>4, <1>8, <2>2 DEF WriteRotationFlag
  <2>5. Archived(k)' = Archived(k)
    BY <1>3, <2>3, <2>4 DEF Archived, IInv, TypeOK
  <2> QED BY <1>3, <1>5, <1>6, <1>8, <2>3, <2>4, <2>5, RowStep
<1> QED BY <1>7, <1>8

LEMMA RotateKeyMaterialStep ==
  ASSUME IInv, TypeOK', NEW c \in Clients, RotateKeyMaterial(c)
  PROVE  IInv'
<1>1. PICK r \in Request : r = requests[c]
  BY PhaseIsRequest DEF RotateKeyMaterial, IInv
<1>2. PICK k \in Keys : k = r.key
  BY DEF Request
<1>3. UNCHANGED <<now, aliases, grants, blobs, used, overtaken>>
  BY DEF RotateKeyMaterial
<1>4. CASE ~Exists(k)
  <2>1. Return(c) /\ UNCHANGED <<keys, archive, minted>>
    BY <1>1, <1>2, <1>4 DEF RotateKeyMaterial
  <2> QED BY <1>3, <2>1, ReturnStep
<1>5. CASE Exists(k)
  <2>1. /\ archive' = [archive EXCEPT ![k] = Archived(k)]
        /\ keys' = [keys EXCEPT ![k].material = minted, ![k].rotated = now]
        /\ Goto(c, IF r.op = "Encrypt" THEN [r EXCEPT !.phase = "current"] ELSE Idle)
    BY <1>1, <1>2, <1>5 DEF RotateKeyMaterial
  <2>2. keys[k] \in Row
    BY <1>5, RowOf DEF IInv
  <2>3. PICK row \in Row : row = [keys[k] EXCEPT !.material = minted, !.rotated = now]
    BY <2>2 DEF Row, IInv, TypeOK
  <2>4. row.state = keys[k].state /\ row.due = keys[k].due
    BY <2>2, <2>3 DEF Row
  <2>5. keys' = [keys EXCEPT ![k] = row]
    BY <2>1, <2>2, <2>3 DEF IInv, TypeOK, Row
  <2>6. archive'[k] = Archived(k) /\ \A j \in Keys \ {k} : archive'[j] = archive[j]
    BY <2>1 DEF IInv, TypeOK
  <2>7. archive[k] \subseteq archive'[k] /\ Archived(k) \subseteq Archived(k)'
    BY <2>6 DEF Archived
  <2>8. ClientOK(c)'
    <3>1. CASE r.op = "Encrypt"
      <4>1. requests'[c] = [r EXCEPT !.phase = "current", !.next = r.next]
        BY <1>1, <2>1, <3>1 DEF Goto, IInv, TypeOK, Request
      <4> QED BY <1>1, <1>3, <4>1, MovedOK DEF RotateKeyMaterial, At, Request
    <3>2. CASE r.op # "Encrypt"
      <4>1. requests'[c] = Idle
        BY <2>1, <3>2 DEF Goto, IInv, TypeOK
      <4> QED BY <4>1, IdleOK
    <3> QED BY <3>1, <3>2
  <2> QED BY <1>3, <1>5, <2>1, <2>4, <2>5, <2>6, <2>7, <2>8, RowStep
<1> QED BY <1>4, <1>5

LEMMA WriteReferenceStep ==
  ASSUME IInv, TypeOK', NEW c \in Clients, WriteReference(c)
  PROVE  IInv'
<1>1. PICK r \in Request : r = requests[c]
  BY PhaseIsRequest DEF WriteReference, IInv
<1>2. PICK k \in Keys : k = r.key
  BY DEF Request
<1>3. UNCHANGED <<now, keys, archive, blobs, minted, used, overtaken>> /\ Return(c)
  BY DEF WriteReference
<1>4. Exists(k) \/ k \in overtaken
  BY <1>1, <1>2 DEF WriteReference, IInv, ClientOK, Checked
<1>5. /\ aliases' = [aliases EXCEPT ![r.arg] = k] \/ aliases' = aliases
      /\ (\E g \in Grants : grants' = [grants EXCEPT ![g] = k]) \/ grants' = grants
  BY <1>1, <1>2 DEF WriteReference
<1>6. ReferencesLive'
  <2>1. \A a \in Aliases : aliases'[a] \in {k, aliases[a]}
    BY <1>5 DEF IInv, TypeOK
  <2>2. \A g \in Grants : grants'[g] \in {k, grants[g]}
    BY <1>5 DEF IInv, TypeOK
  <2> QED BY <1>3, <1>4, <2>1, <2>2 DEF IInv, ReferencesLive, Exists
<1>7. requests'[c] = Idle /\ \A d \in Clients \ {c} : requests'[d] = requests[d]
  BY <1>3 DEF Return, Goto, IInv, TypeOK
<1>8. ASSUME NEW d \in Clients PROVE ClientOK(d)'
  <2>1. CASE d = c
    BY <1>7, <2>1, IdleOK
  <2>2. CASE d # c
    <3>1. requests'[d] = requests[d]
      BY <1>7, <2>2
    <3>2. Placed(d)' /\ Covered(d)'
      BY <1>3, <3>1 DEF IInv, ClientOK, Placed, Covered, At, Exists
    <3>3. Sweeping(d)' /\ Checked(d)'
      BY <1>3, <3>1 DEF IInv, ClientOK, Sweeping, Checked, At, Exists, Pending
    <3> QED BY <3>2, <3>3 DEF ClientOK
  <2> QED BY <2>1, <2>2
<1>9. KeysUsed' /\ BlobsSealed' /\ PendingDated'
  BY <1>3 DEF IInv, KeysUsed, BlobsSealed, PendingDated, Exists, Pending, Archived
<1> QED BY <1>6, <1>8, <1>9 DEF IInv

LEMMA MaybeAutoRotateStep ==
  ASSUME IInv, TypeOK', NEW c \in Clients, MaybeAutoRotate(c)
  PROVE  IInv'
<1>1. PICK r \in Request : r = requests[c]
  BY PhaseIsRequest DEF MaybeAutoRotate, IInv
<1>2. UNCHANGED <<now, keys, archive, aliases, grants, blobs, minted, used, overtaken>>
  BY DEF MaybeAutoRotate
<1>3. CASE Return(c)
  BY <1>2, <1>3, ReturnStep
<1>4. CASE Goto(c, [r EXCEPT !.phase = "sweep", !.next = "rotate"])
  <2>1. requests'[c] = [r EXCEPT !.phase = "sweep", !.next = "rotate"]
    BY <1>4 DEF Goto, IInv, TypeOK
  <2> QED BY <1>1, <1>2, <1>4, <2>1, MovedOK, RequestStep DEF MaybeAutoRotate, At
<1>5. CASE Goto(c, [r EXCEPT !.phase = "current"])
  <2>1. requests'[c] = [r EXCEPT !.phase = "current", !.next = r.next]
    BY <1>5 DEF Goto, IInv, TypeOK, Request
  <2>2. ClientOK(c)'
    BY <1>1, <1>2, <2>1, MovedOK DEF MaybeAutoRotate, At, Request
  <2> QED BY <1>2, <1>5, <2>2, RequestStep
<1> QED BY <1>1, <1>3, <1>4, <1>5 DEF MaybeAutoRotate

LEMMA UnsealKeyMaterialStep ==
  ASSUME IInv, TypeOK', NEW c \in Clients, UnsealKeyMaterial(c)
  PROVE  IInv'
<1>1. PICK r \in Request : r = requests[c]
  BY PhaseIsRequest DEF UnsealKeyMaterial, IInv
<1>2. PICK k \in Keys : k = r.key
  BY DEF Request
<1>3. UNCHANGED <<now, keys, archive, aliases, grants, minted, used, overtaken>>
  BY DEF UnsealKeyMaterial
<1>4. r # Idle /\ k \in used
  BY <1>1, <1>2 DEF Request, Idle, IInv, ClientOK, Placed
<1>5. CASE ~Exists(k)
  BY <1>1, <1>2, <1>3, <1>5, ReturnStep DEF UnsealKeyMaterial
<1>6. CASE Exists(k) /\ r.op = "Decrypt"
  <2>1. /\ Goto(c, [r EXCEPT !.phase = "archived", !.found = {keys[k].material}])
        /\ UNCHANGED blobs
    BY <1>1, <1>2, <1>6 DEF UnsealKeyMaterial
  <2>2. requests'[c] = [r EXCEPT !.phase = "archived", !.found = {keys[k].material}]
    BY <2>1 DEF Goto, IInv, TypeOK
  <2>3. /\ requests'[c].phase = "archived" /\ requests'[c].found = {keys[k].material}
        /\ requests'[c].due = r.due /\ requests'[c].key = r.key /\ requests'[c].at = r.at
        /\ requests'[c].op = r.op /\ requests'[c].arg = r.arg
    BY <2>2 DEF Request
  <2>4. r.due = {}
    BY <1>1, <1>4 DEF UnsealKeyMaterial, At, IInv, ClientOK, Placed
  <2>5. Placed(c)'
    BY <1>1, <1>3, <1>4, <1>6, <2>1, <2>3, <2>4 DEF IInv, ClientOK, Placed
  <2>6. Covered(c)'
    <3>1. r.arg \in blobs /\ r.arg.key = k
      BY <1>1, <1>2, <1>4, <1>6 DEF IInv, ClientOK, Placed
    <3>2. r.arg.material \in Archived(k)
      BY <1>6, <3>1 DEF IInv, BlobsSealed
    <3> QED BY <1>2, <1>3, <2>3, <3>2 DEF Covered, At, Archived
  <2>7. Sweeping(c)' /\ Checked(c)'
    BY <2>3 DEF Sweeping, Checked, At
  <2> QED BY <1>3, <2>1, <2>5, <2>6, <2>7, RequestStep DEF ClientOK
<1>7. CASE Exists(k) /\ r.op # "Decrypt"
  <2>1. Return(c) /\ blobs' = blobs \cup {[key |-> k, material |-> keys[k].material]}
    BY <1>1, <1>2, <1>7 DEF UnsealKeyMaterial
  <2>2. requests'[c] = Idle /\ \A d \in Clients \ {c} : requests'[d] = requests[d]
    BY <2>1 DEF Return, Goto, IInv, TypeOK
  <2>3. BlobsSealed'
    BY <1>3, <1>4, <2>1 DEF IInv, BlobsSealed, Exists, Archived
  <2>4. ASSUME NEW d \in Clients PROVE ClientOK(d)'
    <3>1. CASE d = c
      BY <2>2, <3>1, IdleOK
    <3>2. CASE d # c
      <4>1. requests'[d] = requests[d]
        BY <2>2, <3>2
      <4>2. Placed(d)' /\ Covered(d)'
        BY <1>3, <2>1, <4>1 DEF IInv, ClientOK, Placed, Covered, At, Exists
      <4>3. Sweeping(d)' /\ Checked(d)'
        BY <1>3, <4>1 DEF IInv, ClientOK, Sweeping, Checked, At, Exists, Pending
      <4> QED BY <4>2, <4>3 DEF ClientOK
    <3> QED BY <3>1, <3>2
  <2>5. KeysUsed' /\ PendingDated' /\ ReferencesLive'
    BY <1>3 DEF IInv, KeysUsed, PendingDated, ReferencesLive, Exists, Pending
  <2> QED BY <2>3, <2>4, <2>5 DEF IInv
<1> QED BY <1>5, <1>6, <1>7

LEMMA ReadArchiveStep ==
  ASSUME IInv, TypeOK', NEW c \in Clients, ReadArchive(c)
  PROVE  IInv'
<1>1. PICK r \in Request : r = requests[c]
  BY PhaseIsRequest DEF ReadArchive, IInv
<1>2. UNCHANGED <<now, keys, archive, aliases, grants, blobs, minted, used, overtaken>>
  BY DEF ReadArchive
<1>3. Goto(c, [r EXCEPT !.phase = "opened", !.found = @ \cup archive[r.key]])
  BY <1>1 DEF ReadArchive
<1>4. /\ requests'[c].phase = "opened" /\ requests'[c].found = r.found \cup archive[r.key]
      /\ requests'[c].due = r.due /\ requests'[c].key = r.key /\ requests'[c].at = r.at
      /\ requests'[c].op = r.op /\ requests'[c].arg = r.arg
  BY <1>3 DEF Goto, IInv, TypeOK, Request
<1>5. r # Idle /\ r.due = {} /\ r.op = "Decrypt"
  BY <1>1 DEF Request, Idle, ReadArchive, At, IInv, ClientOK, Placed
<1>6. Placed(c)'
  BY <1>1, <1>2, <1>4, <1>5 DEF IInv, ClientOK, Placed
<1>7. Covered(c)'
  BY <1>1, <1>2, <1>4 DEF ReadArchive, At, Exists, IInv, ClientOK, Covered
<1>8. Sweeping(c)' /\ Checked(c)'
  BY <1>4 DEF Sweeping, Checked, At
<1> QED BY <1>2, <1>3, <1>6, <1>7, <1>8, RequestStep DEF ClientOK

LEMMA TickStep ==
  ASSUME IInv, TypeOK', Tick
  PROVE  IInv'
<1>1. now' = now + 1 /\ now \in Nat
      /\ UNCHANGED <<keys, archive, aliases, grants, blobs, requests, minted, used, overtaken>>
  BY DEF Tick, IInv, TypeOK
<1>2. ASSUME NEW c \in Clients PROVE ClientOK(c)'
  <2>1. CASE requests[c] = Idle
    BY <1>1, <2>1, IdleOK
  <2>2. CASE requests[c] # Idle
    <3>1. requests[c] \in Request /\ requests[c].at \in Nat /\ requests[c].due \subseteq Keys
      BY <2>2, RequestOrIdle DEF IInv, Request
    <3>2. \A k \in Keys : Exists(k) => keys[k].due \in Nat
      BY RowOf DEF IInv, Row
    <3>3. Placed(c)'
      BY <1>1, <3>1 DEF IInv, ClientOK, Placed
    <3>4. Covered(c)' /\ Checked(c)'
      BY <1>1 DEF IInv, ClientOK, Covered, Checked, At, Exists, Pending
    <3>5. Sweeping(c)'
      <4>1. \A k \in Keys : Exists(k) /\ keys[k].due <= now => keys[k].due <= now'
        BY <1>1, <3>2
      <4> QED BY <1>1, <3>1, <4>1 DEF IInv, ClientOK, Sweeping, At, Exists, Pending
    <3> QED BY <3>3, <3>4, <3>5 DEF ClientOK
  <2> QED BY <2>1, <2>2
<1>3. KeysUsed' /\ BlobsSealed' /\ PendingDated' /\ ReferencesLive'
  BY <1>1 DEF IInv, KeysUsed, BlobsSealed, PendingDated, ReferencesLive, Exists, Pending, Archived
<1> QED BY <1>2, <1>3 DEF IInv

-----------------------------------------------------------------------------
LEMMA Inductive == ASSUME IInv, [Next]_vars PROVE IInv'
<1>0. TypeOK'
  BY TypeStep DEF IInv
<1>1. CASE CreateKey
  BY <1>0, <1>1, CreateKeyStep
<1>2. CASE EnsureAWSManagedConvenienceAliases
  BY <1>0, <1>2, EnsureStep
<1>3. CASE DeleteAlias \/ DeleteGrant
  <2>1. ReferencesLive'
    BY <1>3 DEF DeleteAlias, DeleteGrant, IInv, ReferencesLive, Exists, TypeOK
  <2> QED BY <1>0, <1>3, <2>1, OthersUnchanged DEF DeleteAlias, DeleteGrant
<1>4. CASE Tick
  BY <1>0, <1>4, TickStep
<1>5. ASSUME NEW c \in Clients, Step(c) PROVE IInv'
  <2>1. CASE AnswerDecrypt(c) \/ Abort(c)
    BY <1>0, <2>1, ReturnStep DEF AnswerDecrypt, Abort
  <2> QED BY <1>0, <1>5, <2>1, BeginStep, SweepAgainStep, PurgeKeyStep, LoadStep, WriteStateStep,
             WriteRotationFlagStep, WriteReferenceStep, MaybeAutoRotateStep, RotateKeyMaterialStep,
             UnsealKeyMaterialStep, ReadArchiveStep DEF Step
<1>6. CASE UNCHANGED vars
  <2>1. ReferencesLive'
    BY <1>6 DEF vars, IInv, ReferencesLive, Exists
  <2> QED BY <1>0, <1>6, <2>1, OthersUnchanged DEF vars
<1> QED BY <1>1, <1>2, <1>3, <1>4, <1>5, <1>6 DEF Next

LEMMA Initially == ASSUME Init PROVE IInv
<1>1. TypeOK
  BY DEF Init, TypeOK
<1>2. \A c \in Clients : ClientOK(c)
  BY DEF Init, ClientOK, Placed, Covered, Sweeping, Checked, At, Idle
<1>3. KeysUsed /\ BlobsSealed /\ PendingDated /\ ReferencesLive
  BY DEF Init, KeysUsed, BlobsSealed, PendingDated, ReferencesLive, Exists, Pending
<1> QED BY <1>1, <1>2, <1>3 DEF IInv

LEMMA Invariance == Spec => []IInv
BY Initially, Inductive, PTL DEF Spec

\* What was sealed under a key that still exists is opened by DecryptBlobWithKeyContext,
\* for any number of rotations between its two reads.
THEOREM DecryptFindsHolds == Spec => []DecryptFinds
<1>1. IInv => DecryptFinds
  BY DEF IInv, ClientOK, Covered, DecryptFinds
<1> QED BY <1>1, Invariance, PTL

\* When the sweep of a GetKey has gone through its list, no key is left whose
\* deletion was due when it listed them.
THEOREM ExpiredNeverServedHolds == Spec => []ExpiredNeverServed
<1>1. IInv => ExpiredNeverServed
  <2> SUFFICES ASSUME IInv, NEW c \in Clients, At(c, "purge"), requests[c].due = {},
                      NEW k \in Keys, Pending(k)
               PROVE  keys[k].due > requests[c].at
    BY DEF ExpiredNeverServed
  <2>1. requests[c] \in Request /\ requests[c].at \in Nat
    BY PhaseIsRequest DEF IInv, Request
  <2>2. keys[k].due \in Nat
    BY RowOf DEF IInv, Pending, Row
  <2>3. ~(keys[k].due <= requests[c].at)
    BY DEF IInv, ClientOK, Sweeping
  <2> QED BY <2>1, <2>2, <2>3
<1> QED BY <1>1, Invariance, PTL

\* No alias and no grant names a purged key, unless its insertion overlapped the purge.
THEOREM ReferencesLiveHolds == Spec => []ReferencesLive
<1>1. IInv => ReferencesLive
  BY DEF IInv
<1> QED BY <1>1, Invariance, PTL

\* A step that leaves the state and the date of a key as they were.
LEMMA KeyUntouched ==
  ASSUME NEW k \in Keys, Exists(k) => Exists(k)' /\ keys'[k].state = keys[k].state
  PROVE  EndsOnSchedule(k)
BY DEF EndsOnSchedule, Pending

LEMMA ScheduleStep ==
  ASSUME IInv, Next, NEW k \in Keys \ overtaken'
  PROVE  EndsOnSchedule(k)
<1>1. CASE CreateKey \/ EnsureAWSManagedConvenienceAliases
  <2>1. \A j \in Keys : createKeyTx(j) => keys'[k] = keys[k] \/ ~Exists(k)
    BY DEF createKeyTx, IInv, TypeOK, KeysUsed
  <2>2. keys'[k] = keys[k] \/ ~Exists(k)
    BY <1>1, <2>1 DEF CreateKey, EnsureAWSManagedConvenienceAliases
  <2> QED BY <2>2, KeyUntouched DEF Exists
<1>2. CASE DeleteAlias \/ DeleteGrant \/ Tick
  <2>1. keys' = keys
    BY <1>2 DEF DeleteAlias, DeleteGrant, Tick
  <2> QED BY <2>1, KeyUntouched DEF Exists
<1>3. ASSUME NEW c \in Clients, Step(c) PROVE EndsOnSchedule(k)
  <2>1. CASE PurgeKey(c)
    <3>1. requests[c].due \subseteq Keys
      BY <2>1, PhaseIsRequest DEF PurgeKey, IInv, Request
    <3>2. PICK j \in requests[c].due : \/ keys' = [keys EXCEPT ![j] = None]
                                       \/ keys' = keys
      BY <2>1 DEF PurgeKey
    <3>3. CASE keys'[k] = keys[k]
      BY <3>3, KeyUntouched DEF Exists
    <3>4. CASE keys'[k] # keys[k]
      <4>1. k = j /\ ~Exists(k)'
        BY <3>1, <3>2, <3>4 DEF IInv, TypeOK, Exists
      <4>2. k \notin overtaken
        BY <2>1 DEF PurgeKey
      <4>3. Exists(k) => Pending(k) /\ keys[k].due <= now
        BY <2>1, <4>1, <4>2 DEF PurgeKey, IInv, ClientOK, Sweeping
      <4> QED BY <4>1, <4>3 DEF EndsOnSchedule
    <3> QED BY <3>3, <3>4
  <2>2. CASE WriteState(c)
    <3>1. PICK r \in Request : r = requests[c]
      BY <2>2, PhaseIsRequest DEF WriteState, IInv
    <3>2. r.op \in StateWrites /\ r.key \in Keys
      BY <2>2, <3>1 DEF WriteState, Request
    <3>3. CASE ~(Exists(k) /\ r.key = k)
      <4>1. keys'[k] = keys[k] \/ ~Exists(k)
        BY <2>2, <3>1, <3>3 DEF WriteState, IInv, TypeOK, Exists
      <4> QED BY <4>1, KeyUntouched DEF Exists
    <3>4. CASE Exists(k) /\ r.key = k
      <4>1. keys'[k] = StateWritten(r.op, keys[k]) /\ keys[k] \in Row /\ k \notin overtaken
        BY <2>2, <3>1, <3>2, <3>4, RowOf DEF WriteState, IInv, TypeOK
      <4>2. Exists(k)'
        <5>1. keys'[k] \in Row
          BY <3>2, <4>1, StateWrittenTyped DEF IInv
        <5> QED BY <5>1, NoneAssumption DEF Exists
      <4>3. r.op \in {"Enable", "Disable"} => ~Pending(k)
        BY <2>2, <3>1, <3>4, <4>1 DEF WriteState, IInv, ClientOK, Checked
      <4>4. CASE r.op \in {"Enable", "Disable"}
        BY <4>2, <4>3, <4>4 DEF EndsOnSchedule
      <4>5. CASE r.op = "Schedule"
        BY <4>1, <4>2, <4>5 DEF StateWritten, Row, EndsOnSchedule, Pending
      <4>6. CASE r.op = "Cancel"
        BY <4>1, <4>2, <4>6 DEF StateWritten, Row, EndsOnSchedule
      <4> QED BY <3>2, <4>4, <4>5, <4>6 DEF StateWrites
    <3> QED BY <3>3, <3>4
  <2>3. CASE WriteRotationFlag(c) \/ RotateKeyMaterial(c)
    <3>1. PICK r \in Request : r = requests[c]
      BY <2>3, PhaseIsRequest DEF WriteRotationFlag, RotateKeyMaterial, IInv
    <3>2. PICK on \in BOOLEAN : on = (r.op = "EnableRotation")
      OBVIOUS
    <3>3. r.key \in Keys
      BY DEF Request
    <3>4. \/ keys' = keys
          \/ Exists(r.key) /\ keys' = [keys EXCEPT ![r.key].rotate = on]
          \/ Exists(r.key) /\ keys' = [keys EXCEPT ![r.key].material = minted, ![r.key].rotated = now]
      BY <2>3, <3>1, <3>2 DEF WriteRotationFlag, RotateKeyMaterial
    <3>5. Exists(r.key) => keys[r.key] \in Row
      BY <3>3, RowOf DEF IInv
    <3>6. Exists(k) => keys'[k] \in Row /\ keys'[k].state = keys[k].state
      <4>1. keys[k] \in Row \cup {None}
        BY DEF IInv, TypeOK
      <4>2. CASE k # r.key \/ keys' = keys
        BY <3>4, <4>1, <4>2 DEF Exists, IInv, TypeOK
      <4>3. CASE k = r.key /\ keys' = [keys EXCEPT ![r.key].rotate = on]
        BY <3>5, <4>3 DEF IInv, TypeOK, Row
      <4>4. CASE k = r.key /\ keys' = [keys EXCEPT ![r.key].material = minted, ![r.key].rotated = now]
        BY <3>5, <4>4 DEF IInv, TypeOK, Row
      <4> QED BY <3>4, <4>2, <4>3, <4>4
    <3> QED BY <3>6, KeyUntouched, NoneAssumption DEF Exists
  <2>4. CASE keys' = keys
    BY <2>4, KeyUntouched DEF Exists
  <2> QED BY <1>3, <2>1, <2>2, <2>3, <2>4
          DEF Step, Begin, SweepAgain, Load, WriteReference, MaybeAutoRotate,
              UnsealKeyMaterial, ReadArchive, AnswerDecrypt, Abort
<1> QED BY <1>1, <1>2, <1>3 DEF Next

\* A key is destroyed only while its deletion is pending and due, and is taken back
\* only by a cancellation, unless two requests overlapped over it.
THEOREM DeletionOnScheduleHolds == Spec => DeletionOnSchedule
<1>1. IInv /\ [Next]_vars => [\A k \in Keys \ overtaken' : EndsOnSchedule(k)]_vars
  BY ScheduleStep
<1> QED BY <1>1, Invariance, PTL DEF Spec, DeletionOnSchedule
=============================================================================
