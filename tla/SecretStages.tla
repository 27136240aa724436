----------------------------- MODULE SecretStages -----------------------------
(***************************************************************************)
(* One secret of Secrets Manager: its row, its versions and the staging    *)
(* labels that say which version is current, pending or previous.          *)
(*                                                                         *)
(* The value is kept twice, in the secret's row and in the row of its      *)
(* version, each sealed with the version id in the encryption context.     *)
(* Labels move by reading version rows and writing each back in a          *)
(* statement of its own; no transaction holds a move together, and any     *)
(* statement may be the last one of a request that fails.  A step is one   *)
(* statement with the reads that lead up to it.                            *)
(*                                                                         *)
(* A request is a call of one handler.  Each handler (but CreateSecret's)  *)
(* begins with DescribeSecret, which sweeps secrets whose recovery window  *)
(* is over and makes a first version where there is none.  Some end with   *)
(* the statements of a GetSecretValue or a DescribeSecret on their result:  *)
(* a "get" that follows stands for these.  The name is created once; a     *)
(* value is the number of the request that brought it.                     *)
(***************************************************************************)
EXTENDS Naturals, FiniteSets

CONSTANTS
    Clients,      \* goroutines serving requests, and the rotation ticker
    Tokens,       \* ClientRequestTokens, ids for versions; a number is one as well
    CustomLabels, \* staging labels besides the three that mean something
    None,         \* the absence of a row, a version id or a value
    MaxVersion,   \* bound: version numbers
    MaxRequests,  \* bound: requests begun
    MaxRacing     \* bound: requests that may begin beside others; a later one runs alone

ASSUME BoundsAssumption == MaxVersion \in Nat \ {0} /\ MaxRequests \in Nat /\ MaxRacing \in Nat

VARIABLES
    secret,     \* the row of secretsmanager_secrets, or None
    versions,   \* secretsmanager_secret_versions: version id -> row, or None
    requests,   \* requests[c]: where client c's request stands
    begun,      \* requests begun so far
    torn,       \* history: a deletion took the versions and not (yet) the row
    astray,     \* history: the versions a backfill made of a row it read late
    settled     \* history: what the last step completed, if it ran alone

secretVars == <<secret, versions, requests, begun, torn, astray, settled>>

Ids == (1..MaxVersion) \cup Tokens
Labels == {"AWSCURRENT", "AWSPENDING", "AWSPREVIOUS"} \cup CustomLabels

\* A value under its encryption context.
Sealed == [value : Nat, id : Ids]

\* deletion: not asked for, within its recovery window, or past it.
Secret == [version : 1..MaxVersion, sealed : Sealed, deletion : {"none", "waiting", "due"}]

Version == [num : 1..MaxVersion, sealed : Sealed, stages : SUBSET Labels]

ASSUME NoneAssumption == None \notin Ids \cup Secret \cup Version

\* Requests that a scheduled deletion does not stop.
Unconditional == {"delete", "forceDelete", "restore"}

\* PutSecretValue without VersionStages, with just AWSCURRENT, with just
\* AWSPENDING, and with any other list (one that repeats a label is such a list).
Puts == {"put", "putCurrent", "putPending", "putStages"}

Ops == Puts \cup Unconditional \cup {"create", "get", "rotate", "move"}

\* Requests that bring a value.
Bringing == Puts \cup {"create", "rotate"}

\* Where a request stands: the statement it is about to execute.
Phases ==
    Unconditional \cup
    {"sweepVersions", "sweepSecret", "ensure", "ensureRead", "backfill", "load", "again", "label",
     "createSecret", "createVersion", "deleteSecret",
     "putSecret", "putList", "putRecord", "putLabel", "putInsert", "putParent",
     "orphanCheck", "pendingLoad", "pendingInsert", "pendingBump", "invoke",
     "removeRead", "removeWrite", "addRead", "addWrite",
     "previousList", "onlyPreviousList", "syncRead", "syncWrite"}

\* "then" is where the request goes on after ensureSecretVersionsBackfilled or
\* a loop over "todo", the labels still to be written from a list of rows.  "late":
\* the row to backfill from was read when there were versions, or after a deletion.
Request ==
    [op : Ops, pc : Phases, then : Phases,
     to : Ids \cup {None}, from : Ids \cup {None}, label : Labels,
     num : 0..MaxVersion, row : Secret \cup {None}, stages : SUBSET Labels,
     todo : UNION {[S -> SUBSET Labels] : S \in SUBSET Ids},
     value : Nat, late : BOOLEAN, solo : BOOLEAN]

NoRequest == [pc |-> "idle"]

SecretTypeOK ==
    /\ secret \in Secret \cup {None}
    /\ versions \in [Ids -> Version \cup {None}]
    /\ \A c \in Clients : requests[c] = NoRequest \/ requests[c] \in Request
    /\ begun \in 0..MaxRequests
    /\ torn \in BOOLEAN
    /\ astray \in SUBSET Ids
    /\ settled \in [op : Ops, id : Ids, stages : SUBSET Labels] \cup {None}

SecretInit ==
    /\ secret = None
    /\ versions = [i \in Ids |-> None]
    /\ requests = [c \in Clients |-> NoRequest]
    /\ begun = 0
    /\ torn = FALSE
    /\ astray = {}
    /\ settled = None

Listed == {i \in Ids : versions[i] # None}
Holders(label) == {i \in Listed : label \in versions[i].stages}

Seal(value, id) == [value |-> value, id |-> id]
NewVersion(num, sealed, stages) == [num |-> num, sealed |-> sealed, stages |-> stages]

-----------------------------------------------------------------------------
(* Steps of a request.                                                     *)

At(c, pc) == requests[c].pc = pc

Update(c, r) == requests' = [requests EXCEPT ![c] = r] /\ settled' = None
Goto(c, pc) == Update(c, [requests[c] EXCEPT !.pc = pc])

\* First the backfill (or the loop over a list), then pc.
Via(r, pc, then) == [r EXCEPT !.pc = pc, !.then = then]

Return(c) == Update(c, NoRequest)

\* The request succeeded and "id" is the version it made or moved to.
Complete(c, id) ==
    /\ requests' = [requests EXCEPT ![c] = NoRequest]
    /\ settled' = IF requests[c].solo
                    THEN [op |-> requests[c].op, id |-> id, stages |-> requests[c].stages]
                    ELSE None

\* A statement fails, a rotation step of the function fails, or the process
\* is restarted.  The rows stay as they are.
Fail(c) ==
    /\ requests[c] # NoRequest
    /\ Return(c)
    /\ UNCHANGED <<secret, versions, begun, torn, astray>>

\* The arguments of a call that its steps use.
Arguments(op) ==
    [to : CASE op = "rotate" -> Tokens
            [] op \in {"putPending", "putStages"} -> Tokens \cup {None}
            [] op = "move" -> Ids \cup {None}
            [] OTHER -> {None},
     from : IF op = "move" THEN Ids \cup {None} ELSE {None},
     label : IF op = "move" THEN Labels ELSE {"AWSCURRENT"},
     stages : CASE op \in {"put", "putCurrent"} -> {{"AWSCURRENT"}}
                [] op = "putPending" -> {{"AWSPENDING"}}
                [] op = "putStages" -> SUBSET Labels \ {{}}
                [] OTHER -> {{}}]

\* A request as it begins: the handler looks the secret up; what it finds due is
\* swept first.  CreateSecret sweeps nothing.
NewRequest(c, op, a) ==
    [op |-> op,
     pc |-> IF op = "create" THEN "createSecret"
            ELSE IF secret.deletion = "due" THEN "sweepVersions" ELSE "ensure",
     then |-> "load", to |-> a.to, from |-> a.from, label |-> a.label,
     num |-> 0, row |-> None, stages |-> a.stages, todo |-> << >>,
     value |-> IF op \in Bringing THEN begun + 1 ELSE 0, late |-> FALSE,
     solo |-> \A d \in Clients \ {c} : requests[d] = NoRequest]

\* CreateSecret goes on only where there is no secret, the others where there is one.
Arrive(c, op) ==
    /\ requests[c] = NoRequest
    /\ begun < MaxRequests
    /\ begun < MaxRacing \/ \A d \in Clients : requests[d] = NoRequest
    /\ IF op = "create" THEN begun = 0 ELSE secret # None
    /\ \E a \in Arguments(op) :
         /\ op = "move" => a.to # None \/ a.from # None
         /\ requests' = [d \in Clients |->
             IF d = c THEN NewRequest(c, op, a)
             ELSE IF requests[d] = NoRequest THEN NoRequest ELSE [requests[d] EXCEPT !.solo = FALSE]]
    /\ begun' = begun + 1
    /\ settled' = None
    /\ UNCHANGED <<secret, versions, torn, astray>>

\* SweepExpiredSecrets deletes the versions of the secrets it listed ...
SweepVersions(c) ==
    /\ At(c, "sweepVersions")
    /\ versions' = [i \in Ids |-> None]
    /\ torn' = TRUE
    /\ astray' = {}
    /\ Goto(c, "sweepSecret")
    /\ UNCHANGED <<secret, begun>>

DueSecrets == {r \in {secret} : r # None /\ r.deletion = "due"}

\* ... and then the secrets whose window is over now, listed or not.
SweepSecret(c) ==
    /\ At(c, "sweepSecret")
    /\ secret' = IF DueSecrets # {} THEN None ELSE secret
    /\ torn' = (torn /\ secret' # None)
    /\ Goto(c, "ensure")
    /\ UNCHANGED <<versions, begun, astray>>

\* ensureSecretVersionsBackfilled counts the versions ...
Ensure(c) ==
    /\ At(c, "ensure")
    /\ Goto(c, IF Listed = {} THEN "ensureRead" ELSE requests[c].then)
    /\ UNCHANGED <<secret, versions, begun, torn, astray>>

\* ... then reads the secret, ...
EnsureRead(c) ==
    /\ At(c, "ensureRead")
    /\ IF secret = None THEN Return(c)
       ELSE Update(c, [requests[c] EXCEPT !.pc = "backfill", !.row = secret,
                         !.late = torn \/ Listed # {}])
    /\ UNCHANGED <<secret, versions, begun, torn, astray>>

\* The INSERT of a version row; the primary key refuses a second one.
Insert(id, row) == versions[id] = None /\ versions' = [versions EXCEPT ![id] = row]

Conflict(c, id) ==
    /\ versions[id] # None
    /\ Return(c)
    /\ UNCHANGED <<secret, versions, begun, torn, astray>>

\* ... and makes a version of it.
Backfill(c) ==
    /\ At(c, "backfill")
    /\ LET r == requests[c] IN
         \/ /\ Insert(r.row.version, NewVersion(r.row.version, r.row.sealed, {"AWSCURRENT"}))
            /\ astray' = IF r.late THEN astray \cup {r.row.version} ELSE astray
            /\ Update(c, [r EXCEPT !.pc = r.then, !.row = None, !.late = FALSE])
            /\ UNCHANGED <<secret, begun, torn>>
         \/ Conflict(c, r.row.version)

CreateSecret(c) ==
    /\ At(c, "createSecret")
    /\ secret' = [version |-> 1, sealed |-> Seal(requests[c].value, 1), deletion |-> "none"]
    /\ Goto(c, "createVersion")
    /\ UNCHANGED <<versions, begun, torn, astray>>

CreateVersion(c) ==
    /\ At(c, "createVersion")
    /\ \/ /\ Insert(1, NewVersion(1, Seal(requests[c].value, 1), {"AWSCURRENT"}))
          /\ Complete(c, 1)
          /\ UNCHANGED <<secret, begun, torn, astray>>
       \/ Conflict(c, 1)

-----------------------------------------------------------------------------
(* Reading the secret's row, and the statements of the simple requests.    *)

\* UpdateSecretVersionStage first removes the label, if it is to be removed.
Relabel(r) == IF r.from = None THEN "addRead" ELSE "removeRead"

\* A version without a token has the next number for its id.
Named(r) == IF r.to = None THEN secret.version + 1 ELSE r.to

\* Where a request goes once the row is loaded.  A put with just AWSCURRENT goes on
\* as a plain put, which loads the row again and takes no token.
Loaded(r) ==
    CASE r.op = "put" -> [r EXCEPT !.pc = "putSecret", !.num = secret.version + 1, !.to = secret.version + 1]
      [] r.op = "putCurrent" -> Via([r EXCEPT !.op = "put"], "ensure", "load")
      [] r.op = "putPending" -> Via([r EXCEPT !.to = Named(r)], "ensure", "pendingLoad")
      [] r.op = "putStages" -> Via([r EXCEPT !.num = secret.version + 1, !.to = Named(r)], "ensure", "again")
      [] r.op = "rotate" -> Via(r, "ensure", IF r.num = 0 THEN "again" ELSE Relabel(r))
      [] r.op = "move" -> Via(r, "ensure", Relabel(r))
      [] OTHER -> [r EXCEPT !.pc = r.op]

Load(c) ==
    /\ At(c, "load")
    /\ LET r == requests[c] IN
         IF \/ secret = None
            \/ secret.deletion # "none" /\ r.op \notin Unconditional
            \/ r.op \in Puts /\ secret.version = MaxVersion
            \/ r.op = "get"
           THEN Return(c)
           ELSE Update(c, Loaded(r))
    /\ UNCHANGED <<secret, versions, begun, torn, astray>>

\* recordPutSecretVersion and HasPendingRotationOrphan begin with the backfill too.
Again(c) ==
    /\ At(c, "again")
    /\ LET r == requests[c] IN
         Update(c, Via(r, "ensure", IF r.op = "rotate" THEN "orphanCheck"
                                    ELSE IF "AWSCURRENT" \in r.stages THEN "putList" ELSE "putRecord"))
    /\ UNCHANGED <<secret, versions, begun, torn, astray>>

DeleteSecretWithRecovery(c) ==
    /\ At(c, "delete")
    /\ secret' = IF secret = None THEN None ELSE [secret EXCEPT !.deletion = "waiting"]
    /\ Return(c)
    /\ UNCHANGED <<versions, begun, torn, astray>>

RestoreSecret(c) ==
    /\ At(c, "restore")
    /\ secret' = IF secret = None THEN None ELSE [secret EXCEPT !.deletion = "none"]
    /\ Return(c)
    /\ UNCHANGED <<versions, begun, torn, astray>>

\* DeleteSecret: the versions, then the row.
DeleteVersions(c) ==
    /\ At(c, "forceDelete")
    /\ versions' = [i \in Ids |-> None]
    /\ torn' = TRUE
    /\ astray' = {}
    /\ Goto(c, "deleteSecret")
    /\ UNCHANGED <<secret, begun>>

DeleteSecret(c) ==
    /\ At(c, "deleteSecret")
    /\ secret' = None
    /\ torn' = FALSE
    /\ Return(c)
    /\ UNCHANGED <<versions, begun, astray>>

\* The recovery window ends.
Elapse ==
    /\ secret # None
    /\ secret.deletion = "waiting"
    /\ secret' = [secret EXCEPT !.deletion = "due"]
    /\ settled' = None
    /\ UNCHANGED <<versions, requests, begun, torn, astray>>

-----------------------------------------------------------------------------
(* Writing labels.                                                         *)

\* The UPDATE of one row's labels; without a row the request fails.
WriteStages(c, id, stages, r) ==
    IF versions[id] = None
      THEN Return(c) /\ UNCHANGED versions
      ELSE Update(c, r) /\ versions' = [versions EXCEPT ![id].stages = stages]

\* A list of rows was read: go through it, or on if it is empty.
Loop(r, todo, then) ==
    [r EXCEPT !.todo = todo, !.then = then, !.pc = IF todo = << >> THEN then ELSE "label"]

Num(id) == IF versions[id] = None THEN 0 ELSE versions[id].num

\* setSecretVersionStages on the next row of the list, by version number.
Label(c) ==
    /\ At(c, "label")
    /\ LET r == requests[c] IN
         \E id \in DOMAIN r.todo :
           /\ \A other \in DOMAIN r.todo : Num(id) <= Num(other)
           /\ WriteStages(c, id, r.todo[id],
                Loop(r, [i \in DOMAIN r.todo \ {id} |-> r.todo[i]], r.then))
    /\ UNCHANGED <<secret, begun, torn, astray>>

\* The first of a list of rows.
FirstOf(S) == CHOOSE i \in S : \A j \in S : versions[i].num <= versions[j].num

-----------------------------------------------------------------------------
(* PutSecretValue and recordPutSecretVersion.                              *)

PutSecret(c) ==
    /\ At(c, "putSecret")
    /\ LET r == requests[c] IN
         /\ secret' = IF secret = None THEN None
                      ELSE [secret EXCEPT !.version = r.num, !.sealed = Seal(r.value, r.num)]
         /\ Update(c, Via(r, "ensure", "putList"))
    /\ UNCHANGED <<versions, begun, torn, astray>>

\* Broken: only the former current version is looked at.
DemotedFirst == [i \in {j \in Listed : j \in Holders("AWSCURRENT") /\ j = FirstOf(Holders("AWSCURRENT"))} |->
    (versions[i].stages \ {"AWSCURRENT"}) \cup {"AWSPREVIOUS"}]

\* The former current version becomes the previous one; all others lose both.
Demoted == [i \in Listed |->
    (versions[i].stages \ {"AWSCURRENT", "AWSPREVIOUS"})
      \cup (IF Holders("AWSCURRENT") # {} /\ i = FirstOf(Holders("AWSCURRENT"))
              THEN {"AWSPREVIOUS"} ELSE {})]

PutList(c) ==
    /\ At(c, "putList")
    /\ Update(c, Loop(requests[c], Demoted, "putRecord"))
    /\ UNCHANGED <<secret, versions, begun, torn, astray>>

PutRecord(c) ==
    /\ At(c, "putRecord")
    /\ Goto(c, IF versions[requests[c].to] = None THEN "putInsert" ELSE "putLabel")
    /\ UNCHANGED <<secret, versions, begun, torn, astray>>

\* The version is recorded; a plain put is done.
Recorded(c) ==
    IF requests[c].op = "put" THEN Complete(c, requests[c].to) ELSE Goto(c, "putParent")

\* The version id is taken: its labels are set, its value stays.
PutLabel(c) ==
    /\ At(c, "putLabel")
    /\ LET r == requests[c] IN
         IF versions[r.to] = None
           THEN Return(c) /\ UNCHANGED versions
           ELSE /\ versions' = [versions EXCEPT ![r.to].stages = r.stages]
                /\ Recorded(c)
    /\ UNCHANGED <<secret, begun, torn, astray>>

PutInsert(c) ==
    /\ At(c, "putInsert")
    /\ LET r == requests[c] IN
         \/ /\ Insert(r.to, NewVersion(r.num, Seal(r.value, r.to), r.stages))
            /\ Recorded(c)
            /\ UNCHANGED <<secret, begun, torn, astray>>
         \/ Conflict(c, r.to)

Bumped(r) == secret # None /\ secret.version < r.num

\* A put with other stages: the secret takes the value with AWSCURRENT among
\* them, and else only the number.
PutParent(c) ==
    /\ At(c, "putParent")
    /\ LET r == requests[c] IN
         IF "AWSCURRENT" \in r.stages
           THEN /\ secret' = IF secret = None THEN None
                             ELSE [secret EXCEPT !.version = r.num, !.sealed = Seal(r.value, r.to)]
                /\ Complete(c, r.to)
           ELSE /\ secret' = IF Bumped(r) THEN [secret EXCEPT !.version = r.num] ELSE secret
                /\ Return(c)
    /\ UNCHANGED <<versions, begun, torn, astray>>

-----------------------------------------------------------------------------
(* Pending versions and the four-step rotation.                            *)

Orphans == Holders("AWSPENDING") \ Holders("AWSCURRENT")

\* A rotation that was left unfinished stops every later one.
OrphanCheck(c) ==
    /\ At(c, "orphanCheck")
    /\ IF Orphans # {} THEN Return(c) ELSE Goto(c, "pendingLoad")
    /\ UNCHANGED <<secret, versions, begun, torn, astray>>

\* createAWSPENDINGVersion.
PendingLoad(c) ==
    /\ At(c, "pendingLoad")
    /\ LET r == requests[c] IN
         IF secret = None \/ versions[r.to] # None \/ secret.version = MaxVersion
           THEN Return(c)
           ELSE Update(c, [r EXCEPT !.pc = "pendingInsert", !.num = secret.version + 1])
    /\ UNCHANGED <<secret, versions, begun, torn, astray>>

\* Broken: sealed for the version number instead of the version id.
PendingSealByNumber(r) == Seal(r.value, r.num)

PendingSeal(r) == Seal(r.value, r.to)

PendingInsert(c) ==
    /\ At(c, "pendingInsert")
    /\ LET r == requests[c] IN
         \/ /\ Insert(r.to, NewVersion(r.num, PendingSeal(r), {"AWSPENDING"}))
            /\ Goto(c, "pendingBump")
            /\ UNCHANGED <<secret, begun, torn, astray>>
         \/ Conflict(c, r.to)

PendingBump(c) ==
    /\ At(c, "pendingBump")
    /\ LET r == requests[c] IN
         /\ secret' = IF Bumped(r) THEN [secret EXCEPT !.version = r.num] ELSE secret
         /\ IF r.op = "rotate" THEN Goto(c, "invoke") ELSE Return(c)
    /\ UNCHANGED <<versions, begun, torn, astray>>

\* The function returned from createSecret, setSecret, testSecret and
\* finishSecret; promoteSecretVersionCurrent looks for the current version
\* and calls UpdateSecretVersionStage, which loads the secret again.
Promote(c) ==
    /\ At(c, "invoke")
    /\ Update(c, [requests[c] EXCEPT !.pc = "load", !.label = "AWSCURRENT",
                    !.from = IF Holders("AWSCURRENT") = {} THEN None ELSE FirstOf(Holders("AWSCURRENT"))])
    /\ UNCHANGED <<secret, versions, begun, torn, astray>>

-----------------------------------------------------------------------------
(* UpdateSecretVersionStage.                                               *)

RemoveRead(c) ==
    /\ At(c, "removeRead")
    /\ LET r == requests[c] IN
         IF versions[r.from] = None THEN Return(c)
         ELSE Update(c, [r EXCEPT !.pc = "removeWrite", !.stages = versions[r.from].stages \ {r.label}])
    /\ UNCHANGED <<secret, versions, begun, torn, astray>>

RemoveWrite(c) ==
    /\ At(c, "removeWrite")
    /\ LET r == requests[c] IN
         WriteStages(c, r.from, r.stages, IF r.to = None THEN NoRequest ELSE [r EXCEPT !.pc = "addRead"])
    /\ UNCHANGED <<secret, begun, torn, astray>>

\* The label is added; a version that becomes current is no longer pending.
Gained(r) == LET s == versions[r.to].stages \cup {r.label} IN
    IF r.label = "AWSCURRENT" THEN s \ {"AWSPENDING"} ELSE s

AddRead(c) ==
    /\ At(c, "addRead")
    /\ LET r == requests[c] IN
         IF versions[r.to] = None THEN Return(c)
         ELSE Update(c, [r EXCEPT !.pc = "addWrite", !.stages = Gained(r)])
    /\ UNCHANGED <<secret, versions, begun, torn, astray>>

AddWrite(c) ==
    /\ At(c, "addWrite")
    /\ LET r == requests[c] IN
         WriteStages(c, r.to, r.stages,
           IF r.label = "AWSCURRENT" THEN [r EXCEPT !.pc = "previousList", !.stages = {}] ELSE NoRequest)
    /\ UNCHANGED <<secret, begun, torn, astray>>

\* Broken: only the version the label was removed from is demoted.
DemotionsOfFrom(r) ==
    [i \in (Listed \cap {r.from}) \ {r.to} |->
       (versions[i].stages \ {"AWSCURRENT", "AWSPENDING"}) \cup {"AWSPREVIOUS"}]

\* labelPreviousCurrent: every other holder of AWSCURRENT, and the version the
\* label was removed from, become previous ...
Demotions(r) ==
    [i \in (Holders("AWSCURRENT") \cup (Listed \cap {r.from})) \ {r.to} |->
       (versions[i].stages \ {"AWSCURRENT", "AWSPENDING"}) \cup {"AWSPREVIOUS"}]

PreviousList(c) ==
    /\ At(c, "previousList")
    /\ LET r == requests[c] IN
         Update(c, Loop(r, Demotions(r), IF r.from = None THEN "syncRead" ELSE "onlyPreviousList"))
    /\ UNCHANGED <<secret, versions, begun, torn, astray>>

\* ... and the rest lose AWSPREVIOUS.
OnlyPreviousList(c) ==
    /\ At(c, "onlyPreviousList")
    /\ LET r == requests[c] IN
         Update(c, Loop(r, [i \in Holders("AWSPREVIOUS") \ {r.from, r.to} |->
                              versions[i].stages \ {"AWSPREVIOUS"}], "syncRead"))
    /\ UNCHANGED <<secret, versions, begun, torn, astray>>

\* Broken: the version id where the version number belongs.
CopyOfIds(id) == [version |-> id, sealed |-> versions[id].sealed, deletion |-> "none"]

Copy(id) == [version |-> versions[id].num, sealed |-> versions[id].sealed, deletion |-> "none"]

\* syncParentFromVersion copies the version's value and number to the secret.
SyncRead(c) ==
    /\ At(c, "syncRead")
    /\ LET r == requests[c] IN
         IF versions[r.to] = None THEN Return(c)
         ELSE Update(c, [r EXCEPT !.pc = "syncWrite", !.row = Copy(r.to)])
    /\ UNCHANGED <<secret, versions, begun, torn, astray>>

SyncWrite(c) ==
    /\ At(c, "syncWrite")
    /\ LET r == requests[c] IN
         /\ secret' = IF secret = None THEN None
                      ELSE [secret EXCEPT !.version = r.row.version, !.sealed = r.row.sealed]
         /\ Complete(c, r.to)
    /\ UNCHANGED <<versions, begun, torn, astray>>

-----------------------------------------------------------------------------
Step(c) ==
    \/ SweepVersions(c) \/ SweepSecret(c) \/ Ensure(c) \/ EnsureRead(c) \/ Backfill(c)
    \/ CreateSecret(c) \/ CreateVersion(c)
    \/ Load(c) \/ Again(c) \/ DeleteSecretWithRecovery(c) \/ RestoreSecret(c)
    \/ DeleteVersions(c) \/ DeleteSecret(c)
    \/ Label(c)
    \/ PutSecret(c) \/ PutList(c) \/ PutRecord(c) \/ PutLabel(c) \/ PutInsert(c) \/ PutParent(c)
    \/ OrphanCheck(c) \/ PendingLoad(c) \/ PendingInsert(c) \/ PendingBump(c) \/ Promote(c)
    \/ RemoveRead(c) \/ RemoveWrite(c) \/ AddRead(c) \/ AddWrite(c)
    \/ PreviousList(c) \/ OnlyPreviousList(c) \/ SyncRead(c) \/ SyncWrite(c)

SecretNext ==
    \/ \E c \in Clients :
         \/ \E op \in Ops : Arrive(c, op)
         \/ Step(c)
         \/ Fail(c)
    \/ Elapse

SecretSpec == SecretInit /\ [][SecretNext]_secretVars

-----------------------------------------------------------------------------
\* Whatever earlier requests left behind, interleaved or unfinished: when a
\* PutSecretValue that asks for AWSCURRENT, a rotation or a move of AWSCURRENT
\* has run alone to its end, its version and no other is current; a put leaves
\* at most one previous version besides one it asked for itself, and a move
\* leaves the secret's row with the version's value.  The labels are written row
\* by row from lists that hold what the wreck before left
\* (secrets_versions.go:591-630, 714-755).
CurrentAfterSolo == settled # None =>
    /\ Holders("AWSCURRENT") = {settled.id}
    /\ settled.op \in {"put", "putStages"} =>
         Cardinality(Holders("AWSPREVIOUS") \ (IF "AWSPREVIOUS" \in settled.stages THEN {settled.id} ELSE {})) <= 1
    /\ settled.op \in {"rotate", "move"} => secret.sealed = versions[settled.id].sealed

\* A version can be opened: it was sealed under its own version id, though the
\* id is chosen in one place (a number or a token), the secret's copy moves
\* from version to version, and the backfill makes a version of that copy
\* under the secret's number (secrets_versions.go:382-403, 632-660).  Not the
\* version of a backfill that counted no version and then read the row late: when
\* there were versions after all (:411, :421), or a deletion had taken them.
Readable == \A i \in Listed \ astray : versions[i].sealed.id = i

=============================================================================
