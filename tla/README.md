# Noctaxris in TLA+

Noctaxris is an AWS emulator for a lab: one Go process serves the AWS APIs over
HTTP, keeps its state in one SQLite database (`state.db`), in files under the
data root and in a few in-process structures, and runs functions and containers
in a nested Docker engine. This directory holds specifications of the parts of
it where order matters, the configurations that TLC checks, and proofs that
TLAPS checks.

    tlc -config SQSStandard.cfg MC_SQSQueue     # a run (see "Runs")
    tlapm SQSQueueProofs.tla                    # a proof module

Contents: [the system](#the-system), [the plan](#the-plan),
[the modules](#the-modules), [the runs](#runs), [the proofs](#proofs),
[what is out](#what-is-not-modelled).

## The system

### How it executes

- One process per data root (`docs/ops.md`). Each HTTP request is a goroutine:
  `server` dispatches, `kernel/authn` verifies the signature, `kernel/authz`
  decides, a handler in `internal/server` calls methods of `store.Store`.
- The store opens SQLite with a pool of connections, the default rollback
  journal and deferred transactions. A single statement or a transaction is
  atomic; whatever a method does in several statements interleaves with every
  other request. `withSQLiteBusyRetry` repeats a statement that lost a race for
  the database lock; when its attempts run out the method returns an error.
- A few mutexes order more than SQLite does: `sqsMu` (send, receive, delete,
  visibility), `accessKeyCacheMu` (the unsealed-key cache), a reference-counted
  lock per S3 object.
- Background goroutines: the pollers of event source mappings, Scheduler, Pipes
  and secret rotation, the reconcilers of ECS services and Auto Scaling groups,
  a reaper for each container task, and one goroutine for each asynchronous
  invocation. Nothing is resumed after a restart except what a ticker finds in
  its table.

So the actors of every module are request goroutines and pollers, a step is one
statement, transaction or critical section, and the things that go wrong are
interleavings, a failing statement, and the end of the process between two
steps.

### Components

Each row is a component (or a group) of `PROJECT.json`; the last column is what
makes it correct.

| component | state | operations | hard | correct when |
|---|---|---|---|---|
| SQS queues `store/sqs.go` | `sqs_queues`, `sqs_messages`, `sqsMu` | create, delete, purge, set attributes, send, receive with redrive, delete, change visibility | half the operations outside `sqsMu`; visibility timeouts; redrive inside a receive; FIFO groups, sequence numbers, deduplication window | a message has one live handle, is never lost or copied, is redriven in time; FIFO groups keep their order |
| IAM users and access keys `store/users.go`, `tempcreds.go`, `access_key_cache.go` | `users`, `access_keys`, the cache and its generation | create and delete users; create, delete, (de)activate keys; mint sessions; look a key up | row read outside the lock, cached later; changes and invalidations in two steps; restarts | a revoked key is refused once the revocation is answered; the cache is not observable; no key without a user |
| DynamoDB writes `store/dynamodb_transact.go`, `server/dynamodb_handlers.go` | items, stream records, client tokens | PutItem, DeleteItem, UpdateItem, TransactWriteItems | condition, image, write and record in separate statements; the token around the transaction | a token applies once; the stream tells what happened to the items |
| Event source mappings `store/lambda_esm.go`, `server/lambda_esm_handlers.go` | mappings, shard iterators, the poller | create, update, delete; a poll: iterator, page, filter, invoke, cursor | the poll spans many steps and runs twice at once; crashes; failing functions | no record is skipped, none is redelivered without cause, every record is delivered at last |
| KMS `store/kms*.go` | key states, materials and their archive, aliases, grants | schedule and cancel deletion, sweep, rotate, enable, disable, encrypt and decrypt | a sweep on other requests' paths that lists, then purges; rotation beside decryption | no key is destroyed unless its deletion is pending and due; what was encrypted decrypts |
| Secrets Manager `store/secrets_*.go` | secrets, versions, staging labels | put, move labels, rotate in four steps, delete, restore, sweep | labels moved by several statements; a rotation that stops half-way; a sweep beside a restore | a request that runs alone leaves one AWSCURRENT; a version opens under its own id |
| Pipes `store/pipes.go`, `server/pipes_ticker.go` | pipes with their source cursor | create, delete; a poll of a queue, a stream or a bus | deliveries that fail within a batch; cursor before or after delivery; a pipe created anew during a poll | nothing leaves a queue undelivered, nothing is passed over in silence, a running pipe gets through |
| Scheduler `store/scheduler.go` | schedules with their next run | ticks that list, deliver, advance | crash between deliver and advance; updates in between | a due schedule fires once for each time |
| SNS `store/sns.go` | topics, subscriptions, published messages | publish with FIFO deduplication, fan-out with retry and dead-letter queue | lookup and insert apart; crash before the fan-out | a deduplicated publish was delivered |
| Lambda async `store/lambda_async.go` | jobs and attempts | start, attempt, deliver failure to two destinations | second destination fails after the first was sent; restart | each job ends, each destination told once |
| Step Functions `store/sfn*.go` | executions, task tokens | start, wait, succeed, fail, heartbeat | token loaded and deleted apart, deleted before the output is validated | one caller resumes; no execution waits for a token that is gone |
| S3 `store/s3*.go` | rows, files, versions, parts | put, get, delete, versions, multipart | row before file; parts read before they are removed | a read returns the bytes its row describes |
| authorization `kernel/authz`, `server/handlers.go` | none; documents of the identity, its session and boundary, the organization, the resource | Evaluate* , PassRole, role trust, the gates that combine them | every gate asks in another order with other exceptions; the documents are read one after the other | explicit deny wins, every layer consents, a grant was possible at one moment |
| the rest | rows of their own tables | CRUD, containers | little between two steps | listed with its reason in `PROJECT.json` |

### How they interact

- Every signed request begins with a lookup in the key cache, so IAMAccessKeys
  is upstream of everything.
- Writes to DynamoDB append to `dynamodb_stream_records`; mappings and pipes
  read them through iterators. `DynamoStream` has the ordinals, the pages and the
  successor of an iterator; DynamoWrites, LambdaESM and Pipes extend it.
- SQS is a source of mappings and pipes (receive, then delete by handle) and a
  destination of SNS, Scheduler, Pipes, Lambda's failure destinations and of
  its own redrives. What those callers rely on is LeasedQueue and the properties
  of SQSQueue: one live handle, at most `maxReceiveCount` deliveries, nothing lost.
- KMS keys seal what DynamoDB, S3, Secrets Manager and SSM parameters store;
  mappings, pipes and secret rotation invoke functions while they poll.

The hazards, each at the line where it bites and with the properties that
would catch it, are the list `hazards` of `PROJECT.json`.

## The plan

In order of what the rest of the system leans on. Done:

1. **SQSQueue** over **LeasedQueue** - the queue store and its redrives; the abstract
   specification is a queue of leased messages, without store or requests.
2. **IAMAccessKeys** over **AccessKeyRegister** - the abstract specification is
   the table read without a cache.
3. **DynamoWrites** with **DynamoStream** - writes, tokens, stream.
4. **LambdaESM** for DynamoDB streams.
5. **KMSKeys** - states and scheduled deletion, rotation, references.
6. **SecretStages** - versions and labels, statement by statement.
7. **AuthzEval**, **AuthzRequests** - the decision as operators, and one request
   that reads the documents one after the other beside administrators.
8. **S3Objects** - rows against files, the chain of versions.
9. **Pipes** - polls of a queue, a stream and a bus.

Open, most important first:

10. **Scheduler** - list, deliver, advance beside UpdateSchedule (which writes
    back the `next_run` it read) and restarts. Abstract specification: each due
    time fires at least once, and at most once without a restart or an update.
11. **LambdaESM's queue source** composed with SQSQueue, then **LambdaAsync**.
12. **SNSPublish** (deduplication of FIFO topics and the fan-out),
    **SFNTaskTokens**, multipart uploads in S3Objects.

Every safety property that a passing run checks, the two refinements included, has
its theorem (see Proofs). Worth
stating for the modules to come: at-most-once of a schedule that nothing interrupts,
and one message per deduplication id of a topic.

## The modules

### SQSQueue, LeasedQueue

| code | specification |
|---|---|
| `sqs_queues`, `sqs_messages` | `queues` (attributes or `NoQueue`), `messages` (a set of rows) |
| `SendMessage`: before the lock, under it, its INSERT | `SendSnapshot`, `SendLock`, `SendInsert` |
| `ReceiveMessages`: the lock and the queue, the transaction | `ReceiveLock`, `ReceiveCommit` |
| `DeleteMessage`, `ChangeMessageVisibility` | one step each: one statement under `sqsMu` |
| `SetQueueAttributes` | `SetQueueAttributesRead`, `...Write` |
| `DeleteQueue`, `PurgeQueue` | `DropBegin`, then the transaction |
| a failing statement, or the process ending | `Abort` |

Receipt handles are fresh UUIDs written together with `receive_count + 1`, so the
model numbers the handles of a row by its receive counts. The clock counts whole
seconds, as the columns do; `0` is the empty `visible_after`. Message ids are
given out when a row is inserted. `ORDER BY` ties are broken by random UUIDs:
`Selections` and `Orders` allow every order the query does. A message keeps its
`origin` through redrives, which is how the properties follow it. `accepted`,
`removed` and `leases` are history.

`LeasedQueue` is what clients may rely on, whatever races in the store: an accepted
message stands in one place of one queue until it is gone, and then it is gone for
good; a receive takes messages whose deadline is past, and either hands one out with
the next handle of its place, which voids the one before, or moves it to a new place;
only the latest handle deletes it or sets its deadline. `ImplementsLeasedQueue` maps
the row of an origin to its message (`Standing`: id to place, receipt handle to
deliveries, `visible_after` to deadline), `removed` to `gone` and `leases` to the
handles held; requests in progress, the attributes of queues and FIFO fields do not
appear in it. It says nothing of order or of the number of deliveries, which the
properties of SQSQueue do.

### IAMAccessKeys, AccessKeyRegister

One step is one SQL statement or one section under `accessKeyCacheMu`.
`LookupAccessKeyRecord` is `BeginLookup` (hit, or miss with the generation),
`LoadRow` and `FillCache`; Delete/UpdateAccessKeyInAccount are `ChangeRow` and
`Invalidate`; `CreateAccessKey` and `DeleteUser` check in one step and write in
the next; `MintSession` inserts the row of GetSessionToken; `Restart` clears the
cache, its generation and the requests. The expiry, the token and the secret of
a row never change and are checked on every request, so a row keeps its user,
its status and whether it is a session. A root key, or a user name that is not
the key's, is a lookup that finishes without a change. `live` and `old` are
history.

`AccessKeyRegister` is what callers may rely on: a lookup answers the row, or a
value that a change not yet answered has replaced. `ImplementsRegister` maps the
table to `value` and the requests to its calls; the cache and its generation do
not appear in it.

### DynamoStream, DynamoWrites

`DynamoStream` has the operators on ordinals and pages that the writers and the
readers of a stream share (LambdaESM, Pipes). In `DynamoWrites` an item is the set of
its attribute names. A single-item request is `CheckCondition` or `LoadForUpdate`,
`ReadOld`, `WriteItem`, then `ReadOrd` and `AppendRecord`. `TransactWriteItems` is
`CheckToken`, `SweepToken` (the DELETE of an expired token, whose failure the code
ignores), `Apply` (BEGIN to COMMIT), a `ReadOrd` and `AppendRecord` for each change,
and `StoreToken`. Since any failed check cancels the whole transaction the checks of a
body stand apart from its writes. `Fail` ends a request anywhere: a failing statement,
the process ending (nothing else is kept in memory), or an append whose primary key is
taken. `commits`, `written`, `tangled` (names used by requests that overlapped) and
`lost` (requests that failed after their write) are history.

### LambdaESM

The rows of mappings and iterators, the poller goroutine (`ListEnabled`,
`LoadDue`) and, when there is no Docker host, the poll a create makes in its own
request (`LoadCreated`). A poll is `OpenIterator` (empty cursor, TRIM_HORIZON),
`FindIterator` or `IteratorExpired`, `ReadPage`, an invocation with its outcomes,
and `StoreCursor`. `ReadPage` takes the page query and the transaction that
replaces the iterator as one step: what the transaction writes depends on the
page only, and it deletes the old row whether or not it is still there. Iterator
rows nothing names are left out and their ids used again. A record has one of a
few kinds and a filter is a set of kinds. The writers are `DynamoWrites`'s
`ReadOrd` and `AppendRecord`, here `Claim` and `Append`. A create that is refused
has started the poller too (`RefuseCreate`). `handled`, `redelivered` and
`disturbed` are history; a mapping is disturbed when one of its polls failed, was
cut off by a restart, overlapped another or came after its iterator's lifetime.

*Fairness.* `WF` on `ListEnabled`, `LoadDue` and each poller's `Proceed`: the
ticker fires each second and goroutines are scheduled. `SF` on `InvokeSucceeds`:
a function that is invoked again and again succeeds at some time. Nothing is
assumed of requests, writers, faults or the clock; `Restart` is not fair either,
and after one the poller is stopped until a create starts it, which is why
`CatchesUp` speaks of a process whose poller is running.

### KMSKeys

Nothing deletes keys in the background: every `GetKey` first sweeps. A request is
one call of a Store method: `Begin` lists the due keys, `PurgeKey` is the
transaction for one of them, `SweepAgain` follows a purge another request was
faster with, `Load` reads the row and checks it, and `WriteState`,
`WriteRotationFlag`, `WriteReference` write by key id. Rotation is
`MaybeAutoRotate` and `RotateKeyMaterial` (both re-read the row in their
transaction); a decryption is `UnsealKeyMaterial`, `ReadArchive`,
`AnswerDecrypt`. A material is a number, a ciphertext names its key and material.
`overtaken` is history: the keys changed between another request's look and its
write. It is what `DeletionOnSchedule` and `ReferencesLive` have to except, and
the code makes no more of these than they say.

### SecretStages

One step is one statement with the reads that lead up to it, and `Fail` may
follow any of them. Requests share sub-routines, so a request has a `pc` and a
`then`: `Sweep*`; the backfill, which counts the versions (`Ensure`), reads the
secret (`EnsureRead`) and inserts one (`Backfill`); `Load`; the loops over labels
(`Label`). A value is the number of the request that brought it, sealed under the
version id that was in its encryption context. Handlers that end by reading what they
made (DescribeSecret or GetSecretValue after a put or a move) are followed by a
`get`.

`PutSecretValueWithStages` has one operation for each of its branches: without
stages (`put`), with just AWSCURRENT (`putCurrent`, which loads the secret again
and ignores the token), with just AWSPENDING (`putPending`, with or without a
token), and any other set of labels (`putStages`), which records its version under
the token or the next number with `recordPutSecretVersion` and only then updates the
secret's row (`PutParent`). `CustomLabels` are the labels without a meaning of their
own. `move` is UpdateSecretVersionStage of any label from and to any version.

`settled` is history: what a request completed that ran alone from its first step
to its last, whatever wreck it began in. `torn` says that a deletion took the
versions and not the row; `astray` has the versions that a backfill made of a row it
read late, when there were versions after all or a deletion had taken them. Readable
speaks of the others. CurrentAfterSolo allows the one AWSPREVIOUS that a put asked
for its own version besides the one it demoted. The specification is `SecretSpec`,
and its parts are named after it, so that a module can extend this one and AuthzRequests.

### AuthzEval, AuthzRequests

A statement is what the matchers tell of it for the request at hand: its effect,
whom its Principal names, whether its action and resource patterns cover the
request, and whether its condition matches, does not, or names a key outside the
catalog. A document is the set of its statements. The evaluators
(`Evaluate`, `EvaluateFull`, `EvaluateResourceAccess`, `EvaluateKMS`,
`EvaluateCrossAccount`, `TrustAllowsService`, `EvaluateAnonymousS3GetObject`,
`EventTargetResourcePolicyAllows`) and the gates that combine them
(`authorizeDataplaneOR`, `authorizeDataplaneKMS`, `handleAssumeRole`,
`CheckPassRole`) keep their names and their order. `AuthzRequests` has the
policies as they stand, administrators that change them, and one request that
reads the layers in the order of `evalInputs`.

### S3Objects

One key of one bucket. A put is `BeginPut` (the versioning status, read before
the lock), `PutRows` and `RenameFile`; a delete of a version is `DeleteVersion`
and `DeleteVersionFile`; a delete outside versioning is `HeadForDelete`,
`DeleteRow`, `DeleteFile` and takes no lock, a delete marker is
`CreateDeleteMarker`; a get is `GetRow` and `ReadFile`. `Unlocked` is the key's
lock. The content of a write is its number, under versioning also its version id.
`harmed` and `bypassed` are history: writes cut short between rows and file, or met
by an unlocked delete; and that the last change of the current row was a put or a
delete outside versioning, by a request with an old status or by another service.
With one key, what two keys could do to each other's files by their paths does not
show.

HeadObject and ListObjectsV2 read the row of the object, GetObjectVersion the
latest version. `HeadMatchesGet` says that they see the same object, or both none. It
excepts `bypassed`, and a put that was written over the delete marker "null"
(`PutOverMarker`), where HEAD sees an object and GET none: `s3_suspended` is
about that.

### Pipes

The row of a pipe, the ticker's poll (`ListRunningPipes`, `GetPipe`, then by the
source `Receive`; `OpenIterator`, `ReadPage`, `StoreCursor`; `ReadBus`,
`StoreLast`; and `HandOver` or `HandOverFails` for each item, `DeleteMessage`
after it for a queue), requests that start the ticker, and `Restart`. The queue is
what SQSQueue promises of one without redrive: a receive hides a message for a
time and gives it a new handle; another consumer receives and deletes too. The
iterators are DynamoStream's, with ids that expire. The ids of bus events are
random (`uuid.NewString`, `events.go:740`) and compared as the query compares
them. The writers of the stream read the next ordinal in one statement (`Claim`) and
insert the record in another (`AppendRecord`), so that two records may share an
ordinal; a page (`StreamPage`, by DynamoStream's `Pages`) may be cut between them,
and the iterator's successor goes on behind the last ordinal. The one left there,
or inserted behind the cursor, is never handed over. So NothingSkipped claims a
record of each ordinal behind the cursor, and thereby every record that is alone at
its ordinal. Pipes are created one after the other under one name, since a cursor is
stored by name: a poll of the deleted pipe may store into its successor's row.
`handed`, `leftOut`, `redelivered` and `disturbed` are history: a pipe is disturbed
when its cursor was not stored, or was stored by the poll of a deleted pipe, and
`leftOut` has the rest of a stream's batch whose poll ended early.

*Fairness.* `WF` on the ticker, on the poll's steps and on the visibility
timeout. `SF` on the steps whose failure ends a poll (`GetPipe`, `Receive`,
`ReadBus`, `HandOver`, `DeleteMessage`, `StoreLast`): what is tried again and
again succeeds at some time. Requests, the other consumer, iterators that expire
and `Restart` have none; `Drains` speaks of a pipe that stays RUNNING in a process whose
ticker was started, and of a queue from which no other consumer has received. It
says nothing of a stream: an iterator that expires (five minutes without a poll, for
which a restart and no request is enough) leaves the cursor on an id that is
gone, and nothing opens a new one.

## Runs

Passing runs:

| run | instance | what it shows |
|---|---|---|
| `sqs_standard` | two standard queues, redrive after one receive, two clients | one live handle for each message through expiry, redrive, purge and re-creation; nothing lost or copied; at most `maxReceiveCount` deliveries; a lease in force is broken by nobody; LeasedQueue is implemented |
| `sqs_fifo` | FIFO source and dead-letter queue, two groups, two deduplication ids, content-based deduplication switched | only the head of a group is handed out, one in flight for each group, sequence numbers follow acceptance, no second message inside the window |
| `iam_access_keys` | two clients, one user, two keys, restarts | a revoked key is refused once the revocation is answered; the cache is never stale; the register is implemented |
| `dynamo_writes` | two clients, two items, one token, two transactions, two single writes, three requests, window of one tick | a token used in sequence applies once; a replay repeats what committed; each change is recorded, owed or lost with its request; undisturbed, the stream replays the item |
| `esm_polling` | one mapping, two pollers, two writers, two records, all faults | nothing is skipped and nothing redelivered unless disturbed, and the mapping catches up |
| `kms_keys` | two clients, one key with an alias and a grant, two materials, clock of two ticks | a ciphertext is opened beside rotations; a due key is gone after a sweep; deletion follows the schedule and leaves no reference, unless two requests overlapped |
| `secret_stages` | two clients, every operation, three versions and a token, four requests: a creation, two that may race it and each other, one that runs alone, with failures after every statement | a request that ran alone leaves its version the only current one, whatever wreck or race it found; a version stays sealed under its own id, but for one of a backfill that read its row late |
| `authz` | five credentials, two situations, small documents on every layer, two changes beside a request | denials win at every gate; every layer consents; no grant is torn; a document that only denies opens nothing |
| `s3_objects` | two clients, three writes, versioning switched at will, failures after every step | rows and files agree but for cut writes; one latest version, the newest; HEAD and GET see one object or none, but for writes outside versioning; reads by version id are whole |
| `pipes` | two pipes of one name, of a stream or of a bus, two racing writers, three records or events, pages of two, two iterator ids | nothing behind a cursor was passed over in silence, but records that share an ordinal with one that was read; a record comes twice only after a cursor was not stored, or by another pipe's poll |
| `pipes_drain` | one pipe of a queue or of a bus, two messages, two events, another consumer, under `FairSpec` | nothing is deleted undelivered; a running pipe gets through its queue and the events that came in order |

One run finds a violation, of sentences of the repository that the code does not
keep (`findings` quotes them):

| run | sentence | behaviour |
|---|---|---|
| `s3_suspended` | PutObjectVersioned writes a new version when versioning is Suspended | a put after a delete writes to the row of the delete marker and leaves its flag: the object is not found |

### Disagreements without a run

Other places where the code and what is said of it part. The modules have this
behaviour, and the properties except it by a history variable or by what they
speak of:

- `sqs.go:665`: DeleteQueue "removes" the queue's messages, and commits between a
  send's look at the queue (`sqs.go:564`) and its INSERT.
- `sqs_test.go:641` has one message of a group in flight; a delayed message is
  overtaken, and a late visibility change with its handle makes two
  (`sqs.go:918`).
- `users.go:87`: DeleteUser fails while keys exist, and CreateAccessKey checks the
  user before it inserts (`users.go:138`).
- `docs/services/dynamodb.md:37`: the token makes a write idempotent; two requests
  look it up before either stores it (`dynamodb_transact.go:170`).
- `lambda_esm.go:725`: "any reported failure keeps the cursor (retry whole matched
  set)"; the iterator it names was deleted before the function ran
  (`dynamodb_streams.go:426`), so that the mapping is stuck.
- `pipes.go:270`: PollPipeOnce "drains one batch"; an event of a bus put after the
  cursor passed its random id is never read (`pipes.go:397`).
- `passrole.go:247`: an unknown condition key of a trust is skipped, elsewhere it
  refuses (`condition.go:60`).
- `secrets_versions.go:612` keeps one AWSPREVIOUS; moving AWSCURRENT back to the
  previous version leaves that label on both, and a put with AWSCURRENT and
  AWSPREVIOUS gives it to its own version after the one before got it
  (`secrets_versions.go:738`, `:754`).
- `secretsmanager.go:470`: PutSecretValue "replaces the secret value". After
  AWSCURRENT was moved back to an older version the next put takes a number that
  exists: that version becomes current with the value it had, and the new value is
  only in the secret's row (`secrets_versions.go:749`).
- `secrets_versions.go:411`: the backfill inserts a version where none is; between
  its count and its read a first version and a rotation may come, and it inserts
  another under the secret's new number, sealed for the rotation's token, that
  nobody can open.
- A federation session of root is not bounded by its policy at the resource and
  key gates (`handlers.go:727`, `:787`, against `:703`). A role's attached and
  inline documents are read by two queries: a Deny attached before an inline grant
  can be missed beside it. A federated user's AssumeRole loads documents by a name
  of its own that no policy is attached to.
- Enabling versioning hides the objects put before it from reads by version, and
  an object another service puts into a versioned bucket has no version.

### Bounds

Every bound is a guard at the start of an operation, so that what has begun always
ends: `MaxTime` (the last tick), `MaxSends` and `MaxReceiveCount` (SQS), `MaxGen`
(changes of keys), `MaxRequests` (DynamoDB, secrets), `MaxRacing` (secrets),
`MaxRecords` (stream records of LambdaESM), `MaxMaterials` (KMS), `MaxVersion`
(secrets), `MaxWrites` (S3), `MaxChanges` (policies), `MaxPipes` and `MaxItems`
(pipes). Two clients are enough for the races of the code, which are between two
requests or a request and a poller: each is a check or a read of one that the other's
write makes stale. Timeouts are one tick and the clock goes past them at least once,
so that an operation begun before a deadline ends after it. With `MaxSends` 1 two
clients still send two messages, both having begun before the first id was given out.
Two messages and a redrive make three rows, of which two can be in one group; the FIFO
run has two groups and receives of two so that a batch has a choice. One token and
three requests are a replay, a sweep and a fresh store. Two records that may take one
ordinal, read in pages of one, give every cut of a page.

Of four requests on a secret the first three may run beside each other
(`MaxRacing`): the creation, and two that race or of which the second starts from
the wreck of the first; the last runs alone over what they left. There are no
custom labels in the run: their statements are those of AWSPREVIOUS, and the
proofs are for any. `MaxItems` (pipes) counts records and events together,
since a pipe reads of one or of the other.

Two materials are one rotation, between the two reads of a decryption; one key
suffices, since a key meets other keys only in the sweep's list (the proofs are for
any number). Three writes of an object are a version above and one below the one that
is deleted. One change of a policy can come between any two reads and a second between
any other two; the identity begins with no inline document or one that grants
(`MCInit`). Batches of two over three records have a full page, a short one and an
empty one, and a cut between two records of one ordinal; two iterator ids are all that
can be named at once; of three events one can be put behind and one before the cursor.
CHECK_DEADLOCK is off where the bounds let the system stop. Clients are symmetric in
the runs that check safety only.

## Proofs

TLAPS checks the following for all values of the constants, from the named
assumptions of the modules (types of the constants, absent values that differ
from present ones). A theorem that needs more has it as its hypothesis, named below.

- **SQSQueueProofs.** `TypeCorrect`, `ExclusiveDeliveryHolds`. A claim gives the
  row a deadline and a handle, and an old lease is no longer in force; to know
  that, the invariant has: the ids of rows, of leases and of accepted messages
  are ones given out (KnownIds), an origin has one row (UniqueRows), a handle of a
  row names one lease (UniqueHandles), a lease is over or is its row's current
  handle with its deadline (OverOrCurrent), and the clock an operation has read
  is past or present (PastReadings). The action property `LeaseInForceHolds` follows
  from that invariant, before one step.
  `NothingLostOrDuplicatedHolds`: an accepted message has a row, or was removed, and
  no row is of another origin (Booked); with UniqueRows it has exactly one.
  `DeduplicatedInWindowHolds` adds nothing to Booked: the insert looks once more,
  under sqsMu. `DeliveriesBoundedHolds`: a queue's policy, and the one a receive has
  read, redrive within the number asked for (PoliciesKept), and a handle is numbered
  no higher (Counted). `HeadOnlyReceivedHolds` and `OneInFlightPerGroupHolds`:
  sequence numbers differ within a queue (SequencesDistinct), and a row never
  received is visible at once (Undelayed, FreshVisible), so that a claim passes over
  nothing of its group. They assume NoDelays, since the code lets the next message of
  a group pass one that is delayed. `SequenceFollowsAcceptanceHolds` assumes
  DeadLetterChains too: a FIFO queue that takes redrives has one source, itself FIFO,
  nothing is sent to it directly, and there is no cycle; elsewhere redrives and sends
  interleave in the order in which they happen. What is further up the chain was
  accepted after what is further down (PoliciesKnown, LaterUpstream).
  `ImplementsLeasedQueueHolds` maps each step: the rows before and after are the
  messages of LeasedQueue (Mapped, by UniqueRows), the handle of a row is its number
  of deliveries (HandleCounts), what a receive does to a row decides what becomes of
  its message (Followed), and the ids it gives out are places nobody had (KnownIds).
  `VoidHandlesStayVoid`: a step gives no row to a handle that has none, since a claim
  numbers above every handle of its row (UniqueHandles) and ids are new (KnownIds).
- **IAMAccessKeysProofs.** `TypeCorrect`, `CacheCurrentHolds`, `RevocationHolds`,
  `RefinesRegister`. CacheCurrent alone is not inductive, as a fill may be late:
  FillCurrent says that a fill that still has the present generation would put a
  current row; GenPast that no request has a later generation; LiveCovers that
  `live` is set whenever a lookup under way could still be answered with an
  active row, or has been; RowsMinted that rows have ids given out.
  The refinement shows that each step is one of the register's or a stutter; a
  restart is the register's own.
- **DynamoWritesProofs.** `TypeCorrect`, `ReplaysAreCommitted`,
  `ChangesAreAccounted`. A token row is of a commit (TokensOfCommits); the numbers
  of requests are their own and below `started` (OwnNumbers, NumbersBegun), so
  that a change owed is owed by one request, once. `TokensApplyOnce` and
  `StreamTellsItem` are about keys and tokens whose requests did not overlap: of
  those that name one, at most one is under way (SoloRunning). For the tokens,
  TokenInv has that writes of one item carry none (SinglesUnnamed), that commits are
  in the past (CommitsPast), that until its window closes a commit has a row no older
  than it, or its request is about to store one (RowCovers), and that a request past
  the check of its row has no commit in the window (WindowClosed). For the stream,
  ReplayInv has that the records of a key in their order each begin with what the one
  before left, and lead to the item, or to the one change of it that is
  still owed (StreamTold, OwedNamed); the image a request has read is the item
  (OldCurrent), and the ordinal it has read is above those of its keys (OrdAbove).
  RowAssumption says that the absence of a token's row is not a row.
- **LambdaESMProofs.** `TypeCorrect`, `NothingIsSkipped`, `RedeliveryIsDisturbed`. Ordinals are handed out
  without gaps (OrdinalsFilled), so a record inserted behind a position shares
  its ordinal; the cursors of rows (CursorOK) and the iterators and pages of polls
  in every phase (PollOK) have only handled records behind them; and a new
  iterator has an id that nothing names. For redelivery the converse is needed too:
  a mapping that nothing disturbed is polled once at a time; what its function
  got lies behind its cursor (AtRest) until a poll has read a page, and behind the
  position of the poll in every phase, and the page in hand holds nothing of it (Ahead).
- **KMSKeysProofs.** `TypeCorrect`, `DecryptFindsHolds`, `ExpiredNeverServedHolds`,
  `ReferencesLiveHolds`, `DeletionOnScheduleHolds`. A ciphertext's material is the
  current one or archived (BlobsSealed), between the two reads of a decryption it
  was read or is archived now (Covered); a sweep lists whatever was due when it
  began, and what it lists is due, gone or overtaken (Sweeping); what a request
  has checked holds when it writes, or was overtaken (Checked). The action
  property follows from one step of that invariant.
- **AuthzSecretsProofs.** `TypeCorrect`, `DenyWins`, `ConsentNeeded`, `DenyAddsNothing`
  by cases over the gates, for any documents. `GrantsWhole` needs TornInv: there
  are two moments, at which the attached and the inline documents were read, whose
  policies bound what every later read can add (First, Second, Between), and the
  gates are monotone in what they are given (Monotone).
  The second half of the module is about SecretStages: `SecretTypes`,
  `VersionsReadable`, `SoloSettles`. Types: a request has the row, the
  number and the arguments that its phase, and the phase it will go on to, need (Fit,
  Placed). Readable: a secret without versions is as CreateSecret made it, in its
  row and in what a backfill has read in time (Original), because whoever changes it
  has seen a version, and only a deletion takes that away (SealInv).
  CurrentAfterSolo: a request alone writes its labels from a list that covers every row
  in the way, so the labels rows will have once the list is done (Future) are known
  at each phase: no current and at most one previous version before a put adds its
  own (Cleared), its own labels and no other current version until it has changed the
  secret's row (Promoted), exactly the one that a move promotes (OnlyCurrent), over
  whatever earlier requests left (SoloAt, SoloInv).
- **S3ObjectsProofs.** `TypeCorrect`, `BytesAreKept`, `LatestIsTheNewest`,
  `HeadIsServed`, `ReadsAreWhole` from one invariant: ids are keys and name
  their files (VersionsOK), the lock has one holder (LockOK), a put about to rename
  has its file to itself (RenameOK), a file about to be removed has no row left
  (PurgeOK), what an unlocked delete may take was put beside it (PlainOK), the file
  of a version holds its bytes or nothing (FilesOK), a current row with a version's
  file is the latest version's (CurrentMirrorsLatest), and a read has the row of the
  version it asked for (ReadsOK).
- **PipesProofs.** `TypeCorrect`, `QueueKeptHolds`, `StreamAtMostOnceHolds`,
  `NothingSkippedHolds`. The phase of a poll fits the source of its pipe, and its
  batch the phase: what is to be deleted was handed over (Staged). Every ordinal below
  one in use is in use (NoGap), since a writer takes the one after the greatest there
  is and records stay, so that an iterator passes over no ordinal that is filled later
  for the first time. At most once: pipes are numbered as
  they are created (Numbered), the poll of a pipe that still exists has its source
  (SameSource), and for a pipe that nothing disturbed what it was given lies below its
  cursor and below the iterator of its poll, and what the poll holds was not given yet
  (AtMostOnceOfPipe, AtMostOnceOfPoll). Nothing skipped: of each ordinal below the
  cursor or the poll's iterator a record was passed or is in the poll's batch
  (StreamPassed, PassedOfPoll); the cursor of a bus is the id of one of its events, and all up to
  it, or up to the id the poll will store, was handed over, is in its batch or came
  late (BusCursor, BusPassed, PassedOfBusPoll).
That a finite set of naturals has a greatest member (LargestExists) is proved in the
three modules that take a number above those given out, SQSQueueProofs,
LambdaESMProofs and DynamoWritesProofs.

Model-checked only: CatchesUp and Drains, because liveness under fairness and ENABLED
are beyond this prover. So is induction over data: nothing here is claimed of a
recursive definition, and no module declares one.

## What is not modelled

- Parts of the modelled components. SQS: message attributes, tags and
  queue policies. IAM: everything that does not decide whether a key is
  accepted. DynamoDB: sealed items, item TTL, indexes, PartiQL and
  BatchWriteItem (whose puts are PutItem's store, and whose deletes append no stream
  record, `dynamodb_handlers.go:1457`), reads, switching the stream on and off.
  Mappings: sources other than DynamoDB streams, the pattern language of filters.
  KMS: asymmetric keys, key policies, the constraints of grants. Secrets: the
  rotation schedule, FinishSecretRotation, a name created again after its
  deletion. Authorization: the text of patterns and conditions, of which a
  statement keeps the outcome; the organization's tree. S3: buckets, multipart
  uploads, other keys, Object Lock (a refusal before the first step; a delete of an older
  version asks it about the current row, `s3_forensics.go:132`), notifications,
  listings. Pipes: the authorization of a delivery, which is one way for it to fail.
- Races that are plain from the code and have no run: SetQueueAttributes
  loses one of two concurrent updates (`sqs.go:397`); PutItem or DeleteItem with a
  condition decides on an item loaded before the write
  (`dynamodb_handlers.go:973`); TransactGetItems reads item by item
  (`dynamodb_transact.go:302`); records that share an ordinal are cut anywhere by
  LIMIT (`dynamodb_streams.go:388`), which the properties of LambdaESM and Pipes
  except;
  DeleteBucket counts rows of objects and not of versions (`s3.go:217`);
  CompleteMultipartUpload reads and removes parts beside UploadPart (`s3.go:898`).
- The database. SQLite's atomicity and durability are assumed; `Store`'s busy
  retries appear only by their failure.
- Cryptography, the Docker engine, HTTP, parsing and formatting.
- The components `PROJECT.json` lists as `not_modelled`, with the reason for each;
  those with behaviour worth modelling are in the plan.
